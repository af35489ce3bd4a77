SPECIFICATION FairSpec
CONSTANTS
  None = None
  Contexts = 2
  BatchSize = 2
  MaxLen = 3
  MaxPushes = 3
  MaxFailures = 0
  MaxRestarts = 1
PROPERTY LogsReachMySQL
CHECK_DEADLOCK FALSE
