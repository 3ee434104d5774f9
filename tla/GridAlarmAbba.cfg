SPECIFICATION FairSpec
CONSTANTS
  NServers = 2
  Capacity = 2
  INT_MAX = 100
  Catchers = {"MAIN"}
  Loggers = {"MAIN"}
  HoldersInterrupted = TRUE
  MaxAlarms = 3
  MaxStarts = 1
PROPERTIES AlarmsServed
CHECK_DEADLOCK FALSE
