SPECIFICATION Spec
CONSTANTS
  MaxThreads = 2
  MaxConns = 3
  MaxFds = 3
  MaxLosses = 2
INVARIANTS
  NetAssertsHold
  OneAttempt
PROPERTIES
  WaitingIsServed
  StopEnds
CHECK_DEADLOCK FALSE
