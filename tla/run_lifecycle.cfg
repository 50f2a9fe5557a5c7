SPECIFICATION Spec
CONSTANTS
  None = None
  Clients = {user}
  Containers = {c1, c2}
  MaxResumes = 1
  MaxRetries = 0
  MaxCrashes = 1
  MaxRequests = 1
  Monitoring = TRUE
  LateErrors = FALSE
  Restarts = FALSE
PROPERTIES FinishedForGood
CHECK_DEADLOCK FALSE
