SPECIFICATION ServerSpec
CONSTANTS
  c1 = c1
  c2 = c2
  c3 = c3
  Clients = {c1, c2, c3}
  MAX_EVENT = 3
  MaxLines = 2
  Leavers = {c1}
INVARIANTS TypeOK AllHearTheSame
PROPERTY HeardWhileAllStay
CHECK_DEADLOCK FALSE
