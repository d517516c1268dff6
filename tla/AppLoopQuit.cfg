SPECIFICATION AppSpec
CONSTANTS
  ForceFullEmit = ForceFullEmit
  Boxes <- NoBox
  Slow <- NoSlow
  TimedJoin = TRUE
  Calls <- NoCalls
  Signals <- QuitOrReload
  QueueLength = 3
  MaxPermits = 2
  MaxFaults = 0
  MaxInputs = 2
PROPERTY QuitHonoured
CHECK_DEADLOCK FALSE
