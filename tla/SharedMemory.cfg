SPECIFICATION FairSpec
CONSTANTS
  Readers = {r1}
  Fields = {last_changed, phat}
  UINT_MAX = 3
  MaxUpdates = 3
  MaxCrashes = 1
  Builds = {"unoptimised", "optimised"}
INVARIANTS TypeOK  WindowFresh
PROPERTIES HangsOnlyIf
