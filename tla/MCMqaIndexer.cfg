CONSTANTS
  Shapes <- TwoShapes
  MaxKeys = 3
  Heads = 2
  TopK = 2
  BlockKV = 2
  Slots = 8
  BlockTables <- Tables
  ScoreTables <- Scores
  Wrong = 9
  TileM = 1
  TileN = 2
  Budget = 5
  DefaultChunk = 2
  Configured = {0, 1}
  NegInf = NegInf
  Unset = Unset
SPECIFICATION Spec
INVARIANTS
  TypeOK
  LogitsExact
  StreamedTopK
  ScratchBounded
PROPERTY
  Answers
