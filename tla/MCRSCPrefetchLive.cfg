CONSTANTS
  NumWorkers = 2
  r1 = r1
  r2 = r2
  r3 = r3
  p1 = p1
  p2 = p2
  Requests = {r1, r2}
  Paths = {p1, p2}
  PathOf <- TwoFiles
  FileBlocks <- ShortFiles
  None = None
  BlockCalls = 1
  Shutdown = TRUE
SPECIFICATION Spec
INVARIANTS
  NoRequestLost
PROPERTIES
  EveryRequestAnswered
  AwakeWorkersExit
CHECK_DEADLOCK FALSE
