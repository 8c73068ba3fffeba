CONSTANTS
  K = 2
  Scores <- MCScores
  Sinks = {1}
  NegInf = NegInf
SPECIFICATION Spec
INVARIANTS
  TypeOK
  Partial
  Exact
  IdleRankWeightsNothing
  NoOverflow
