SPECIFICATION RunnerSpec
CONSTANTS
  box = box
  ForceFullEmit = ForceFullEmit
  Boxes <- NoBox
  Slow <- AllSlow
  TimedJoin = TRUE
  Calls <- AllCalls
  QueueLength = 1
  MaxPermits = 2
  MaxFaults = 2
INVARIANTS TypeOK WokenIsInactive
PROPERTY QuitCompletes
CHECK_DEADLOCK FALSE
