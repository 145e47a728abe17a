------------------------------- MODULE MCChat -------------------------------
EXTENDS ChatServer, TLC
CONSTANTS c1, c2, c3
Symm == Permutations(Clients)
=============================================================================
