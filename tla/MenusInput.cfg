SPECIFICATION MenuSpec
CONSTANTS
  ForceFullEmit = ForceFullEmit
  Boxes <- NoBox
  Slow <- NoSlow
  TimedJoin = TRUE
  Calls <- NoCalls
  QueueLength = 1
  MaxPermits = 2
  MaxFaults = 0
  Background <- DefaultBackground
  Sizes <- OneSize
  Opened <- MainAndSignal
  MaxKeys = 3
INVARIANT InputFollowsMenu
CHECK_DEADLOCK FALSE
