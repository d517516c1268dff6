SPECIFICATION RunnerSpec
CONSTANTS
  box = box
  ForceFullEmit = ForceFullEmit
  Boxes <- OneBox
  Slow <- NoSlow
  TimedJoin = TRUE
  Calls <- Reloads
  QueueLength = 2
  MaxPermits = 3
  MaxFaults = 0
INVARIANT UnlockExclusive
CHECK_DEADLOCK FALSE
