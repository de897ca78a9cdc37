SPECIFICATION Spec
CONSTANTS
  Addrs = {1, 2}
  MaxTimers = 2
  MaxTime = 2
  MaxJumps = 1
  MaxQueue = 2
INVARIANTS
  NoDanglingTimer
  CancelIsFinal
PROPERTY
  TimersRun
