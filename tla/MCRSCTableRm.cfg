CONSTANTS
  NumBlocks = 3
  NumHeaders = 2
  Paths = {p1, p2}
  NoPath = NoPath
  p1 = p1
  p2 = p2
  CBlkSize = 1
  MaxFileBlocks = 3
  TruncateOffs = {1, 2}
  AnyOrder = TRUE
SPECIFICATION Spec
SYMMETRY Symmetry
INVARIANTS
  RmReturnsOwnBlocks
CHECK_DEADLOCK FALSE
