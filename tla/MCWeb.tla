-------------------------------- MODULE MCWeb --------------------------------
EXTENDS WebServer, TLC
CONSTANTS c1, c2
=============================================================================
