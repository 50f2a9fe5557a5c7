CONSTANTS
  None = None
  Steps <- StepKeys
  Step <- RelayStep
  Handles <- HandleKeys
  Output <- RelayOutput
  KeysToExecute <- StepKeys
  ReadyOutputs <- NoHandles
  ParentOutputs <- RelayPast
  RequireUpstreamSuccess = FALSE
  RetryMode = "enabled"
  MaxConcurrent = 2
  TagLimit = None
  WillResume = FALSE
  Interruptible = TRUE
  MaxRetries = 1
  MaxFaults = 1
SPECIFICATION FairDelegatingSpec
INVARIANTS
  DelegatingTypeOK
  NoneIsOrphaned
  EndsOnce
  EndsDecided
  WaitsForThisRun
PROPERTIES
  PlanEnds
CHECK_DEADLOCK FALSE
