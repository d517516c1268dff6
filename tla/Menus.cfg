SPECIFICATION MenuSpec
CONSTANTS
  ForceFullEmit = ForceFullEmit
  Boxes <- NoBox
  Slow <- NoSlow
  TimedJoin = TRUE
  Calls <- NoCalls
  QueueLength = 1
  MaxPermits = 2
  MaxFaults = 0
  Background <- NoBackground
  Sizes <- TwoSizes
  Opened <- MainAndSignal
  MaxKeys = 3
INVARIANTS MenuTypeOK NoGhost NeverFrozen
PROPERTY MenuReturns
CHECK_DEADLOCK FALSE
