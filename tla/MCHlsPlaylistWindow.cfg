CONSTANTS
  Clients = {c1, c2}
  RemainingFetches = 2
  MaxTracks = 3
  TracksPerPlaylist = 2
  Window = 2
  MaxSequence = 3
  MaxTime = 4
SPECIFICATION Spec
CHECK_DEADLOCK FALSE
INVARIANT
  OnlyTracksToCome
