SPECIFICATION FairQueueSpec
CONSTANTS
  NoLimit = NoLimit  a = a  b = b
  Runs <- FourRuns
  Waiting <- FirstRuns
  Priority <- Priorities
  TagsOf <- Tags
  PoolsOf <- Pools
  LocationOf <- Located
  TagLimit <- TagLimits
  PoolLimit <- OnePool
  DefaultLimit = 1
  MaxConcurrentRuns = 2
  PageSize = 2
  BlocksOnPools = {TRUE}
  MaxRetries = 1
  MaxErrors = 1
  MaxDeaths = 1
INVARIANTS LimitsHold
PROPERTIES PriorityWithinPages QueueDrains
CHECK_DEADLOCK FALSE
