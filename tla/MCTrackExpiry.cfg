CONSTANTS
  Tracks = {t1, t2}
  Clients = {c1, c2}
  TIMEOUT_TRACK = 1
  CleanupPeriod = 1
  TrackSize = 2
  MaxTime = 2
SPECIFICATION FairSpec
INVARIANTS
  TracksExpire OnlySlowClientsSuffer
PROPERTIES
  KeptForTimeout ClientsFinish
