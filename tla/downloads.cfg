SPECIFICATION FairSpec
CONSTANTS
  NULL = NULL
  Jobs = {1, 2}
  Files = {f1, f2}
  Chunks = 2
  Workers = 2
  MaxFaults = 2
  MaxCrashes = 2
INVARIANTS TypeOK TargetIsWhole SucceededHasFile PartHasOwner
PROPERTIES NoOverwrite FinalStatus CancelInTime EveryDownloadEnds
CHECK_DEADLOCK FALSE
