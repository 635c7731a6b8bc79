CONSTANTS
  Clients = {c1, c2}
  CacheBufferSize = 2
  MaxBlocks = 1
  MaxRestarts = 0
SPECIFICATION FairSpec
CHECK_DEADLOCK FALSE
PROPERTIES EndReachesClients
