CONSTANTS
  Clients = {c1, c2}
  RemainingFetches = 2
  MaxTracks = 3
  TracksPerPlaylist = 2
  Window = 2
  MaxSequence = 4
  MaxTime = 2
SPECIFICATION FairSpec
CHECK_DEADLOCK FALSE
INVARIANTS
  PlaylistIsSound OneChain WaitersAreFed FaultNeedsCause
PROPERTIES
  RemovalNeedsIdle Expires
