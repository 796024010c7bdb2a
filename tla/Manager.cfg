SPECIFICATION FairSpec
CONSTANTS
  Keys = {k1, k2}
  Owners = {o1, o2}
  Nothing = Nothing
  Size <- MCSize
  Queue = 2
  MaxOwned = 1
  MaxSubscribers = 2
  MaxBatch = 2
  MaxJobs = 3
  CacheBytes = 3
  CacheCount = 1
  MaxRefs = 1
  MaxOpen = 1
CONSTRAINT Enabled
CHECK_DEADLOCK FALSE
INVARIANTS ManagerInvariant TotalsAddUp
PROPERTIES CacheIsShared WaitersAreAnswered
