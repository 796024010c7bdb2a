SPECIFICATION WebSpec
CONSTANTS
  Requests = {q1, q2}
  Browsers = {b1}
  Sessions = {s1, s2}
  NoSession = NoSession
  Sizes = {1, 2}
  MaxActive = 2
  MaxStreams = 1
  MaxReaders = 2
  ImageBytes = 2
  MaxWorkspaces = 2
  Waits = TRUE
  Keys = {k1, k2, k3}
  NoBucket = NoBucket
  Rate = 1
  Burst = 1
  Cost = 1
  MaxBuckets = 2
  PruneAge = 3
  Lag = 1
  MaxTime = 5
CONSTRAINT OneMapAtATime
CHECK_DEADLOCK FALSE
INVARIANTS BucketsHold SlotsReturned SessionsHold
PROPERTIES RequestsEnd
