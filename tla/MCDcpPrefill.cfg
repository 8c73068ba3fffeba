CONSTANTS
  N = 2
  TopK = 2
  MaxReqs = 2
  MaxLen = 5
  Capacity = 12
  QuantUnits = 2
  ScoreTables <- MCScoreTables
  StaleScore = 2
SPECIFICATION Spec
INVARIANTS
  TypeOK
  KeysInOrder
  CollectivesMatch
  PrefillUpToTies
  PrefillExact
PROPERTIES
  PrefillCompletes
