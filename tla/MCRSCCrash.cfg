CONSTANTS
  NumBlocks = 3
  NumHeaders = 2
  Paths = {p1, p2}
  NoPath = NoPath
  p1 = p1
  p2 = p2
  CBlkSize = 2
  MaxFileBlocks = 3
  TruncateOffs = {1}
  AnyOrder = FALSE
  MaxStops = 1
SPECIFICATION CrashSpec
SYMMETRY Symmetry
CONSTRAINT Explored
INVARIANTS
  CrashTypeOK
  FileComplete
  Restartable
  TailsNamed
  OwnBytes
  NoSharing
  StopLosesInHand
CHECK_DEADLOCK FALSE
