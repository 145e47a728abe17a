SPECIFICATION Spec
CONSTANTS
  c1 = c1
  c2 = c2
  c3 = c3
  Clients = {c1, c2, c3}
  MaxLines = 1
  MaxSpeakers = 1
  MaxClients = 2
  FdLimit = 8
INVARIANTS
  TableExact
PROPERTIES
  ReleasedInTheEnd
CHECK_DEADLOCK FALSE
