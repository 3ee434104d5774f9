SPECIFICATION Spec

CONSTANTS
  Confs <- CommonConfs
  Windows <- CommonWindows
  WarmupMin = 2
  RTTs = {1, 2}
  Thres = 0
  MaxStamps = 18
  MaxReloads = 1

INVARIANTS
  TypeOK
  NoAbsentItem
  ShiftWindowMin
  RTThatBelowShift
  PointErrors
  FarNear
  PstampInWindow
  PstampBeforeShift

\* The bound on stamps ends every behaviour.
CHECK_DEADLOCK FALSE
