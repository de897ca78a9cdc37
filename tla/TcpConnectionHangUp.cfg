SPECIFICATION FairSpec
CONSTANTS
  Users = {}
  HighWaterMark = 2
  MaxBytes = 1
  MaxQueue = 1
INVARIANTS
  ClosesOnce
CHECK_DEADLOCK FALSE
