SPECIFICATION Spec
CONSTANTS
  c1 = c1
  c2 = c2
  Clients = {c1, c2}
  MaxLines = 2
  MaxSpeakers = 2
  MaxClients = 3
  FdLimit = 8
INVARIANTS
  TypeOK
  ResponseMatches
  SurvivesItsClients
  ResponseOnItsWay
PROPERTIES
  ImplementsLoopback
  ResponseArrives
  SlotFreedInTheEnd
CHECK_DEADLOCK FALSE
