SPECIFICATION RiverSpec
CONSTANTS
  Workspaces = {w1}
  Requests = {r1}
  NoRequest = NoRequest
  Jobs = {j1}
  NoJob = NoJob
  MaxAttempts = 2
  Builds = {b1}
  BuildOf <- OneBuild
  Outstanding = 1
  VisitorJobs = 1
  MaxSubscribers = 1
  MaxBatch = 2
  Readers = {}
  MaxUploads = 1
  MaxEpoch = 1
  Lossy = FALSE
CONSTRAINTS NoFavourites FirstSentAgain
CHECK_DEADLOCK FALSE
PROPERTIES SubscribersAnswered MaintenanceSettles
