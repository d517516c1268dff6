SPECIFICATION RunnerSpec
CONSTANTS
  box = box
  ForceFullEmit = ForceFullEmit
  Boxes <- OneBox
  Slow <- NoSlow
  TimedJoin = TRUE
  Calls <- Layouts
  QueueLength = 2
  MaxPermits = 3
  MaxFaults = 0
PROPERTY WaitIdleReturns
CHECK_DEADLOCK FALSE
