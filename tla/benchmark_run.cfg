SPECIFICATION FairSpec
CONSTANTS
  Concurrency = 2
  Warmups = 1
  Repeats = 2
  MaxFaults = 2
INVARIANTS TypeOK OneWave SucceededIsComplete SummaryIsComplete
PROPERTIES ImplementsRunLife CancelEnds
