---------------------------- MODULE MCEventStream -----------------------------
EXTENDS EventStream
===============================================================================
