------------------------------ MODULE MCProxy ------------------------------
EXTENDS Proxy, TLC
=============================================================================
