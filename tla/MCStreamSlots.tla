----------------------------- MODULE MCStreamSlots ----------------------------
EXTENDS StreamSlots
===============================================================================
