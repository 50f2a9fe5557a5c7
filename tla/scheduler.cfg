SPECIFICATION Spec
CONSTANTS
  None = None  k1 = k1
  CronTimes = {2, 3, 4}
  Keys = {k1}
  MaxTime = 4
  DefaultRunning = TRUE
  MaxCatchup = 2
  MaxTickRetries = 0
  Interval = 2
  MaxJitter = 1
  MaxCrashes = 1
  MaxOutages = 1
  MaxAsked = 2
INVARIANTS RequestedOnce NothingIsLeftBehind
PROPERTIES FinishedTicksStand StopStands
CHECK_DEADLOCK FALSE
