SPECIFICATION Spec
CONSTANTS
  Workspaces = {w1}
  Requests = {r1, r2}
  NoRequest = NoRequest
  Jobs = {j1, j2, j3}
  NoJob = NoJob
  MaxAttempts = 2
  Builds = {b1, b2}
  BuildOf <- OneBuild
  Outstanding = 1
  VisitorJobs = 3
  MaxSubscribers = 1
  MaxBatch = 2
  Readers = {}
  MaxUploads = 2
  MaxEpoch = 2
  Lossy = FALSE
CONSTRAINTS DispatchOnly OneRetried
SYMMETRY Symmetry
CHECK_DEADLOCK FALSE
INVARIANTS OutstandingBound ReleaseFence QueueInvariant
