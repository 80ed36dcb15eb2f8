CONSTANTS
  NumBlocks = 3
  NumHeaders = 2
  Paths = {p1, p2, p3}
  NoPath = NoPath
  p1 = p1
  p2 = p2
  p3 = p3
  CBlkSize = 1
  MaxFileBlocks = 3
  TruncateOffs = {1, 2}
  AnyOrder = FALSE
SPECIFICATION Spec
SYMMETRY Symmetry
INVARIANTS
  TypeOK
  HeaderMatchesChain
  StaleMatches
  FreeListsEnd
  ChainOnDisk
  NoBlockLost
  NoHeaderLost
  RmReturnsOwnBlocks
CHECK_DEADLOCK FALSE
