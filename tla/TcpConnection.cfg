SPECIFICATION FairSpec
CONSTANTS
  Users = {u}
  HighWaterMark = 2
  MaxBytes = 2
  MaxQueue = 2
INVARIANTS
  AssertsHold
  StreamIsWhole
  CallbacksPair
PROPERTIES
  ShutdownDrains
  ClosingEnds
CHECK_DEADLOCK FALSE
