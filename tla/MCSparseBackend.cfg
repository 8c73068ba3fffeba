CONSTANTS
  Calls <- Served
  Orders <- ThreeOrders
  TopK = 2
  MaxModelLen = 4
  WorkspaceFactor = 1
  HeadUnit = 4
  HeadGroup = 2
  MinHeads = 2
  Threshold = 2
  Layers = 2
SPECIFICATION Spec
INVARIANTS
  TypeOK
  ChunksFit
  AttendsSelected
  LsePerRow
PROPERTY
  Serves
CHECK_DEADLOCK FALSE
