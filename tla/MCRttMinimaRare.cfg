SPECIFICATION Spec

CONSTANTS
  Confs <- RareConfs
  Windows <- RareWindows
  WarmupMin = 4
  RTTs = {1, 2}
  Thres = 0
  MaxStamps = 8
  MaxReloads = 0

INVARIANTS
  NoAbsentItem

\* The bound on stamps ends every behaviour.
CHECK_DEADLOCK FALSE
