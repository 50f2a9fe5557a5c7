SPECIFICATION FairSpec
CONSTANTS
  None = None
  Clients = {user}
  Containers = {c1, c2, c3, c4}
  MaxResumes = 1
  MaxRetries = 1
  MaxCrashes = 1
  MaxRequests = 0
  Monitoring = TRUE
  LateErrors = FALSE
  Restarts = TRUE
INVARIANTS OneWorker LaunchesAreBounded
PROPERTIES RunEnds
CHECK_DEADLOCK FALSE
