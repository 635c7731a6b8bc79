CONSTANTS
  Clients = {c1, c2}
  CacheBufferSize = 2
  MaxBlocks = 2
  MaxRestarts = 0
SPECIFICATION Spec
SYMMETRY Symmetric
CHECK_DEADLOCK FALSE
INVARIANTS FileIsTheAnswer
