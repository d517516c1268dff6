SPECIFICATION RunnerSpec
CONSTANTS
  box = box
  ForceFullEmit = ForceFullEmit
  Boxes <- OneBox
  Slow <- NoSlow
  TimedJoin = FALSE
  Calls <- Fails
  QueueLength = 1
  MaxPermits = 2
  MaxFaults = 2
PROPERTY QuitCompletes
CHECK_DEADLOCK FALSE
