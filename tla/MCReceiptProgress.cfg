SPECIFICATION MCSpec
CONSTANTS
  Receipts = {1, 2}
  Runners = {run}
  Drainers = {drain}
  None = None
  Lease = 1
  Delays <- SomeDelays
  Limit = 2
  MaxAttempts = 0
  MaxAccepted = 2
  MaxCrashes = 1
INVARIANTS ToldIsSettled
PROPERTIES Delivers InterruptedSendSurfaces
CHECK_DEADLOCK FALSE
