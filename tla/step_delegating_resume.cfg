CONSTANTS
  None = None
  Steps <- StepKeys
  Step <- RelayStep
  Handles <- HandleKeys
  Output <- RelayOutput
  KeysToExecute <- StepKeys
  ReadyOutputs <- NoHandles
  ParentOutputs <- RelayPast
  RequireUpstreamSuccess = FALSE
  RetryMode = "disabled"
  MaxConcurrent = None
  TagLimit = None
  WillResume = FALSE
  Interruptible = TRUE
  MaxRetries = 1
  MaxFaults = 1
SPECIFICATION FairDelegatingSpec
PROPERTIES
  ReplayContinues
CHECK_DEADLOCK FALSE
