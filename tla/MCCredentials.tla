----------------------------- MODULE MCCredentials ----------------------------
EXTENDS Credentials
===============================================================================
