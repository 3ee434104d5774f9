SPECIFICATION FairSpec
CONSTANTS
  VmServer = TRUE
  FixedPoint = FALSE
  MaxSignals = 2
  MaxFailures = 1
INVARIANTS TypeOK HupEndsOnlyIf  
PROPERTIES HupKeepsProc TermEnds HupRehashes
CHECK_DEADLOCK FALSE
