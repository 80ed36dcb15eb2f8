CONSTANTS
  MbSize = 1
  HeaderSize = 1
  NodeSize = 1
  Giga = 2
  MinFiles = 1
  IntMax = 15
  Paths = {p1, p2}
  p1 = p1
  p2 = p2
  Confs <- MCConfs
  Texts <- MCTexts
  MaxLen = 3
  MaxStarts = 2
  Old = Old
  None = None
SPECIFICATION Spec
SYMMETRY Symmetry
INVARIANTS
  DataTypeOK
  ReadsAgree
  ReadsFullLength
  BlocksApart
  StopsOnOtherBlockSize
  FormatComplete
  ConfAsReference
CHECK_DEADLOCK FALSE
