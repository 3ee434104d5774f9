SPECIFICATION Spec
CONSTANTS
  VmServer = FALSE
  FixedPoint = TRUE
  MaxSignals = 1
  MaxFailures = 0
INVARIANTS HupNeverEnds
CHECK_DEADLOCK FALSE
