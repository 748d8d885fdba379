SPECIFICATION Spec
CONSTANTS
  t1 = t1
  NULL = NULL
  Tasks = {t1}
  Items = {1, 2}
  Runs = {1, 2, 3, 4, 5, 6, 7}
  Positions = {0, 1}
  Lists <- NoLists
  Threshold = 2
  MaxSessions = 1
  MaxFaults = 3
  MaxCrashes = 1
  Ops = {"start", "enqueue", "stop", "quick", "crash", "fault", "persistFault", "reset"}
CHECK_DEADLOCK FALSE
INVARIANTS OpenRunIsOwned OneAtATime
PROPERTIES RestartKeepsWaiting RecoveredClean
