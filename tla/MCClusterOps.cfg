CONSTANTS
  NNodes = 3
  MaxFaults = 3
  Commands = {"prod", "dcp", "stop"}
  OperatorWaits = TRUE
  OperatorResets = TRUE
SPECIFICATION Spec
INVARIANTS
  TypeOK
  StrikesSound
  OneLaunch
PROPERTIES
  NeverInterrupts
  Recovers
