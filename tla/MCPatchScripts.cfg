CONSTANTS
  Runs = {first, second}
  MaxFaults = 2
SPECIFICATION Spec
INVARIANTS
  TypeOK
  ExitZeroIsPatched
  RerouteUnderTopK
  AbortsAreForeign
CHECK_DEADLOCK FALSE
