SPECIFICATION SignalSpec
CONSTANTS
  ForceFullEmit = ForceFullEmit
  Boxes <- NoBox
  Slow <- NoSlow
  TimedJoin = TRUE
  Calls <- NoCalls
  QueueLength = 1
  MaxPermits = 2
  MaxFaults = 0
  Background <- Shipped
  Sizes <- OneSize
  Opened <- Targeting
  MaxKeys = 2
  Pids <- TwoPids
INVARIANT ReachesTheNamed
CHECK_DEADLOCK FALSE
