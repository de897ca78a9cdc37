SPECIFICATION Spec
CONSTANTS
  Addrs = {1}
  MaxTimers = 1
  MaxTime = 2
  MaxJumps = 0
  MaxQueue = 1
INVARIANT
  CancelNeverMissed
