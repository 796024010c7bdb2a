SPECIFICATION Spec
CONSTANTS
  Workspaces = {w1, w2, w3}
  Requests = {r1}
  NoRequest = NoRequest
  Jobs = {j1, j2}
  NoJob = NoJob
  MaxAttempts = 1
  Builds = {b1}
  BuildOf <- OneBuild
  Outstanding = 2
  VisitorJobs = 1
  MaxSubscribers = 2
  MaxBatch = 2
  Readers = {v1}
  MaxUploads = 2
  MaxEpoch = 1
  Lossy = FALSE
CONSTRAINTS SentOnce OneVisitorOrOneJob
SYMMETRY Symmetry
CHECK_DEADLOCK FALSE
INVARIANTS TypeOK PointerOwnsUpload OneJobPerRendition UnwantedWorkStops SubscriberBound
PROPERTIES ReadyImagesKept
