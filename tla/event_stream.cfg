SPECIFICATION FairSpec
CONSTANTS
  NULL = NULL
  Conns = {1, 2}
  Polls = {p1}
  Capacity = 1
  MaxVersion = 3
INVARIANTS TypeOK
PROPERTIES EventuallyShown Unsubscribed
CHECK_DEADLOCK FALSE
