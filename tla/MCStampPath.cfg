CONSTANTS
  Ids = {i1, i2, i3, i4}
  Servers = {s1, s2}
  Known = {s1}
  NoServer = NoServer
  MAX_STQ_SIZE = 3
  MaxVcount = 7
  MinRTT = 2
  FreedIntact = FALSE
  Chronological = TRUE
  Repeats = FALSE
SYMMETRY Symmetry
SPECIFICATION PathSpec
INVARIANTS PathTypeOK NoStaleRequest QueuedInSendOrder PairedCausally
PROPERTIES RemovedInOrder OldRepliesCleaned AlgoInputInOrder PlausibleStampAccepted
CHECK_DEADLOCK FALSE
