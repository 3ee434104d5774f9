SPECIFICATION FairSpec
CONSTANTS
  NServers = 2
  Capacity = 2
  INT_MAX = 100
  Catchers = {"MAIN"}
  Loggers = {"MAIN"}
  HoldersInterrupted = FALSE
  MaxAlarms = 3
  MaxStarts = 2
INVARIANTS TypeOK NoLostWakeup
PROPERTIES AlarmsInOrder AlarmsServed TriggerStops
CHECK_DEADLOCK FALSE
