SPECIFICATION RunnerSpec
CONSTANTS
  box = box
  ForceFullEmit = ForceFullEmit
  Boxes <- OneBox
  Slow <- NoSlow
  TimedJoin = TRUE
  Calls <- Ordinary
  QueueLength = 2
  MaxPermits = 3
  MaxFaults = 2
INVARIANTS ConfigureExclusive UnlockExclusive PermitsBinary ExitAfterRunner
PROPERTIES QuitCompletes Redrawn
CHECK_DEADLOCK FALSE
