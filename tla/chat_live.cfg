SPECIFICATION Spec
CONSTANTS
  c1 = c1
  c2 = c2
  c3 = c3
  Clients = {c1, c2}
  MaxLines = 2
  MaxSpeakers = 2
  MaxClients = 3
  FdLimit = 8
PROPERTIES
  HeardInTheEnd
  SlotFreedInTheEnd
  AcceptedInTheEnd
CHECK_DEADLOCK FALSE
