CONSTANTS
  Requests = {r1, r2, r3, r4}
  Hosts = {h1, h2, h3, s1}
  NoHost = nohost
  StaticHosts = {s1}
  IdLimit = 2
  MaxInProgress = 1
  MaxCache = 1
  MaxTime = 1
SPECIFICATION Spec
SYMMETRY Symmetric
CHECK_DEADLOCK FALSE
INVARIANTS
  TablesAreSound NobodyForgotten RightAddress QueryOnlyWhenStale LimitsKeep
PROPERTIES
  IsLookup
