------------------------------- MODULE MCEcho -------------------------------
EXTENDS EchoServer
CONSTANTS c1, c2
=============================================================================
