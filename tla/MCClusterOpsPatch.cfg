CONSTANTS
  NNodes = 2
  MaxFaults = 2
  Commands = {"prod", "dcp", "stop"}
  OperatorWaits = TRUE
  OperatorResets = TRUE
SPECIFICATION Spec
INVARIANTS
  ServesPatched
