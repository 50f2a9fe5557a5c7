CONSTANTS
  None = None
  Steps <- StepKeys
  Step <- LoopStep
  Handles <- HandleKeys
  Output <- LoopOutput
  KeysToExecute <- StepKeys
  ReadyOutputs <- NoHandles
  ParentOutputs <- NoHandles
  RequireUpstreamSuccess = TRUE
  RetryMode = "enabled"
  MaxConcurrent = None
  TagLimit = None
SPECIFICATION FairExecutorSpec
INVARIANTS
  EndsDecided
PROPERTIES
  PlanEnds
CHECK_DEADLOCK FALSE
