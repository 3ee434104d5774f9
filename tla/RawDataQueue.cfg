CONSTANTS
  MaxPackets = 5
  InOrderStores = TRUE
SPECIFICATION FairSpec
INVARIANTS TypeOK NoBadAccess ReadBundlesFreed
PROPERTIES PacketsInOrder AllDelivered
CHECK_DEADLOCK FALSE
