SPECIFICATION AppSpec
CONSTANTS
  ForceFullEmit = ForceFullEmit
  Boxes <- NoBox
  Slow <- NoSlow
  TimedJoin = TRUE
  Calls <- NoCalls
  Signals <- Handled
  QueueLength = 3
  MaxPermits = 2
  MaxFaults = 1
  MaxInputs = 2
INVARIANTS AppTypeOK NoLostWakeup PollInAppMode NoDeadlock
PROPERTIES EventsDrained BackToRunning
CHECK_DEADLOCK FALSE
