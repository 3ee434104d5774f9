SPECIFICATION Spec
CONSTANTS
  Readers = {r1}
  Fields = {last_changed, phat}
  UINT_MAX = 6
  MaxUpdates = 3
  MaxCrashes = 0
  Builds = {"optimised"}
INVARIANTS SnapshotConsistent
