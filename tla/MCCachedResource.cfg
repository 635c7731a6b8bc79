CONSTANTS
  Clients = {c1, c2}
  CacheBufferSize = 2
  MaxBlocks = 3
  MaxRestarts = 1
SPECIFICATION FairSpec
CHECK_DEADLOCK FALSE
INVARIANTS
  CacheIsSound NobodyStranded FileInOrder CompletedIsWhole FaultNeedsFailure
  OneFetch
PROPERTIES
  CompletedIsFinal Served
