------------------------------- MODULE MCEpoll -------------------------------
EXTENDS EpollServer2, TLC
CONSTANTS c1, c2, c3
Symm == Permutations(Clients)
=============================================================================
