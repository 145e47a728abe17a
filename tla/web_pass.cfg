SPECIFICATION Spec
CONSTANTS
  c1 = c1
  c2 = c2
  Clients = {c1, c2}
  Descriptors = 4
INVARIANTS TypeOK ServesWhatIsAsked AnswerIsWhole TwoWaysToKill
PROPERTY HandledInTheEnd
CHECK_DEADLOCK FALSE
