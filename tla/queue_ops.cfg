SPECIFICATION Spec
CONSTANTS
  t1 = t1
  NULL = NULL
  Items = {1, 2}
  Runs = {1, 2, 3}
  Tasks = {t1}
  Positions = {0, 1}
  Lists <- Lists2
  Threshold = 2
  MaxSessions = 2
  MaxFaults = 0
  MaxCrashes = 0
  Ops = {"start", "interval", "enqueue", "reorder", "delete", "stop", "cancel", "deleteRun", "invalid"}
INVARIANTS EveryRunAccounted StatusMatchesCurrent
PROPERTIES HeadFirst
