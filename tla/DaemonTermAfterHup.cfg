SPECIFICATION Spec
CONSTANTS
  VmServer = FALSE
  FixedPoint = TRUE
  MaxSignals = 2
  MaxFailures = 0
INVARIANTS AlgoToldToDie
CHECK_DEADLOCK FALSE
