CONSTANTS
  NNodes = 2
  MaxFaults = 2
  Commands = {"prod", "dcp", "stop"}
  OperatorWaits = TRUE
  OperatorResets = FALSE
SPECIFICATION Spec
PROPERTIES
  NeverInterrupts
