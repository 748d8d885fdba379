SPECIFICATION FairSpec
CONSTANTS
  t1 = t1
  NULL = NULL
  Tasks = {t1}
  Items = {1, 2}
  Runs = {1, 2, 3, 4}
  Positions = {0}
  Lists <- NoLists
  Threshold = 1
  MaxSessions = 1
  MaxFaults = 1
  MaxCrashes = 1
  Ops = {"start", "pause", "enqueue", "delete", "stop", "deleteTask", "deleteRun", "fault", "crash"}
INVARIANTS TypeOK SingleRunning CountedOnce FifoOrder
PROPERTIES TerminalStable  ImplementsSerialQueue
