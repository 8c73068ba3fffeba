CONSTANTS
  NNodes = 2
  MaxFaults = 2
  Commands = {"dcp"}
  OperatorWaits = FALSE
  OperatorResets = TRUE
SPECIFICATION Spec
INVARIANTS
  OneLaunch
