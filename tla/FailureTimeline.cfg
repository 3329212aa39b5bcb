\* Two hub threads, since a reconnect may overlap the old connection.
SPECIFICATION FairSpec
CONSTANTS
  Threads = {t1, t2}
  Refreshes = {k1, k2}
  MaxResults = 3
  ReadsFail = TRUE
INVARIANTS
  TypeOK
  FlagHasRefresh
PROPERTIES
  NoticesInDelayAreShown
