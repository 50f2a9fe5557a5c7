CONSTANTS
  None = None
  Steps <- StepKeys
  Step <- BranchStep
  Handles <- HandleKeys
  Output <- BranchOutput
  KeysToExecute <- StepKeys
  ReadyOutputs <- NoHandles
  ParentOutputs <- NoHandles
  RequireUpstreamSuccess = TRUE
  RetryMode = "enabled"
  MaxConcurrent = 2
  TagLimit = None
  Crashes = {"running", "exiting"}
  Interruptible = TRUE
SPECIFICATION FairExecutorSpec
INVARIANTS
  InFlightIsWatched
  EndsDecided
PROPERTIES
  PlanEnds
CHECK_DEADLOCK FALSE
