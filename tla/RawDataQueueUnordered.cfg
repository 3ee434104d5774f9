CONSTANTS
  MaxPackets = 5
  InOrderStores = FALSE
SPECIFICATION Spec
INVARIANT NoBadAccess
CHECK_DEADLOCK FALSE
