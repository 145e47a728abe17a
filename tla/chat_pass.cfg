INIT Init
NEXT Next
CONSTANTS
  c1 = c1
  c2 = c2
  c3 = c3
  Clients = {c1, c2, c3}
  MaxLines = 1
  MaxSpeakers = 1
  MaxClients = 4
  FdLimit = 8
SYMMETRY Symm
INVARIANTS
  TypeOK
  ReadNeverBlocks
PROPERTIES
  NobodySkipped
  ImplementsRoom
CHECK_DEADLOCK FALSE
