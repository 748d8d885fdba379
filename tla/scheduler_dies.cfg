SPECIFICATION FairSpec
CONSTANTS
  t1 = t1
  NULL = NULL
  Items = {1, 2}
  Runs = {1, 2, 3, 4, 5, 6}
  Tasks = {t1}
  Positions = {0, 1}
  Lists <- NoLists
  Threshold = 2
  MaxSessions = 1
  MaxFaults = 4
  MaxCrashes = 0
  Ops = {"start", "enqueue", "fault", "persistFault"}
CHECK_DEADLOCK FALSE
PROPERTIES AutoRecovery
