CONSTANTS
  Clients = {c1, c2}
  StreamingBufferSize = 3
  MaxBlocks = 4
SPECIFICATION FairSpec
PROPERTIES
  EveryoneIsClosed FetchesLookUp
CHECK_DEADLOCK FALSE
