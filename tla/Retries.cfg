SPECIFICATION Spec
CONSTANTS
  Workspaces = {w1}
  Requests = {r1}
  NoRequest = NoRequest
  Jobs = {j1}
  NoJob = NoJob
  MaxAttempts = 1
  Builds = {b1}
  BuildOf <- OneBuild
  Outstanding = 2
  VisitorJobs = 1
  MaxSubscribers = 2
  MaxBatch = 2
  Readers = {}
  MaxUploads = 2
  MaxEpoch = 1
  Lossy = FALSE
CHECK_DEADLOCK FALSE
PROPERTIES InfrastructureRetries
