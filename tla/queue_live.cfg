SPECIFICATION FairSpec
CONSTANTS
  t1 = t1
  NULL = NULL
  Tasks = {t1}
  Items = {1, 2}
  Runs = {1, 2, 3, 4, 5}
  Positions = {0}
  Lists <- NoLists
  Threshold = 1
  MaxSessions = 1
  MaxFaults = 2
  MaxCrashes = 0
  Ops = {"start", "pause", "enqueue", "stop", "quick", "fault"}
INVARIANTS ErrorIsCounted
PROPERTIES Drains StopReturnsItem EveryRunEnds AutoRecovery
