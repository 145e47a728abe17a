SPECIFICATION Spec
CONSTANTS
  c1 = c1
  c2 = c2
  c3 = c3
  f1 = f1
  f2 = f2
  f3 = f3
  Senders = {c1, c2, c3}
  Servers = 2
  QueueBytes = 16384
  Value = 2
  MaxSignals = 4
  Clients = {c1, c2}
  TcpLines = 2
  UdpClients = {c1, c2}
  MaxTyped = 1
  MaxFaults = 1
  Name = {f1, f2, f3}
  Trees <- MCTrees
  Buffered = 3
  MaxOpen = 3
  Samples <- MCSamples
  Chips <- MCChips
  Writers = {c1, c2}
  Readers = 2
  MaxChunks = 1
  Launches = 2
  Runs = 4
  Permits = 2
  Rounds = 1
INVARIANTS
  TypeOK
  OwnLineFirst
  CountIsValue
  FirstLineOnly
  AnswersInStep
  WalksTheTree
  ReadingIsSample
  LostOnlyIfMissed
  InStep
  NothingLeft
  PermitsKept
PROPERTIES
  NobodyWaitsForEver
CHECK_DEADLOCK FALSE
