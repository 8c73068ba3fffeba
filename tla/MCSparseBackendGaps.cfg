CONSTANTS
  Calls <- Prefills
  Orders <- ThreeOrders
  TopK = 2
  MaxModelLen = 4
  WorkspaceFactor = 1
  HeadUnit = 4
  HeadGroup = 2
  MinHeads = 2
  Threshold = 2
  Layers = 2
SPECIFICATION Spec
INVARIANT
  OnlyUnownedDropped
