SPECIFICATION Spec
CONSTANTS
  c1 = c1
  c2 = c2
  c3 = c3
  Clients = {c1, c2}
  MaxLines = 1
  MaxSpeakers = 2
  MaxClients = 3
  FdLimit = 8
PROPERTIES
  ResponseArrives
CHECK_DEADLOCK FALSE
