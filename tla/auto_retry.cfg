SPECIFICATION FairSpec
CONSTANTS
  None = None
  MaxRuns = 4
  MaxRetries = 1
  FetchLimit = 1
  MaxManual = 1
  MaxCrashes = 1
  LateEnds = {}
  Vanish = TRUE
INVARIANTS RetriedOnce RetriesAreBounded PassedIsSettled
PROPERTIES RetriesAreSubmitted
CHECK_DEADLOCK FALSE
