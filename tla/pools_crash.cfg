CONSTANTS
  r1 = r1  r2 = r2  s1 = s1  s2 = s2  s3 = s3  k1 = k1  i1 = i1  i2 = i2  i3 = i3
  None = None  Daemon = Daemon  Operator = Operator
  Runs = {r1, r2}
  Steps = {s1, s2}
  Pools = {k1}
  RunOf <- RunOf2
  PoolOf <- PoolOf2
  Priority <- Priority2
  SlotIds = {i1}
  Limits = {1}
  DefaultLimits = {1}
  TransactionalBlocks = {"count", "check", "claim", "free", "remove"}
  CrashingActors = {r1, Daemon}
  OperatorFrees = FALSE
  OutlivedRuns = {}
SPECIFICATION FairSpec
INVARIANTS
  ClaimsWithinLimit
  HeldSlotsAreRegistered
PROPERTIES
  AssignedStepsAreServed
  FinishedRunsReleaseSlots
CHECK_DEADLOCK FALSE
