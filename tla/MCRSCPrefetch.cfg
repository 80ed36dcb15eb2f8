CONSTANTS
  NumWorkers = 2
  r1 = r1
  r2 = r2
  r3 = r3
  p1 = p1
  p2 = p2
  Requests = {r1, r2, r3}
  Paths = {p1, p2}
  PathOf <- TwoForOneFile
  FileBlocks <- LongFiles
  None = None
  BlockCalls = 1
  Shutdown = FALSE
SPECIFICATION Spec
INVARIANTS
  TypeOK
  NoRequestLost
  TailEndsQueue
  OneWorkerPerFile
  
CHECK_DEADLOCK FALSE
