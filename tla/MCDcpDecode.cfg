CONSTANTS
  N = 2
  TopK = 2
  NextN = 2
  MaxLen = 5
  Scores = {1, 2}
  RowScores <- MCRowScores
  StaleScore = 2
  Versions = 2
SPECIFICATION Spec
INVARIANTS
  TypeOK
  IInv
  RankAgreement
  CountedOnce
  NoStaleRead
  ExactSelection
PROPERTIES
  RefinesTopKAttention
  StepCompletes
