SPECIFICATION LiveSpec
CONSTANTS
  MaxOpens = 2
  MaxConcurrentStreams = 1
  Limit = 1
INVARIANTS
  NothingIsLeaked
  ClosedHoldsCancelled
PROPERTIES
  CloseEnds
  FlushedUnlessRead
CHECK_DEADLOCK FALSE
