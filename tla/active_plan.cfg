CONSTANTS
  None = None
  Steps <- StepKeys
  Step <- DynamicStep
  Handles <- HandleKeys
  Output <- DynamicOptional
  KeysToExecute <- StepKeys
  ReadyOutputs <- NoHandles
  ParentOutputs <- NoHandles
  RequireUpstreamSuccess = TRUE
  RetryMode = "enabled"
  MaxConcurrent = 2
  TagLimit = 1
SPECIFICATION Spec
INVARIANTS
  OneBucket
  DecisionsStand
  WithinLimits
  PlanIsResolved
  MapsLastAttempt
PROPERTIES
  LivesAsPromised
CHECK_DEADLOCK FALSE
