------------------------------- MODULE MCDevice -------------------------------
EXTENDS Device
==============================================================================
