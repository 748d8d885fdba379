SPECIFICATION Spec
CONSTANTS
  t1 = t1
  NULL = NULL
  Items = {1, 2}
  Runs = {1, 2}
  Tasks = {t1}
  Positions = {0, 1}
  Lists <- NoLists
  Threshold = 2
  MaxSessions = 1
  MaxFaults = 0
  MaxCrashes = 0
  Ops = {"start", "enqueue"}
INVARIANTS StartIsRecorded
