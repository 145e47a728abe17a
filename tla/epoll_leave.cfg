SPECIFICATION Spec
CONSTANTS
  c1 = c1
  c2 = c2
  c3 = c3
  Clients = {c1, c2}
  MAX_EVENT = 3
  MaxLines = 2
  Leavers = {c1, c2}
PROPERTY LeaverIsClosed
CHECK_DEADLOCK FALSE
