SPECIFICATION FairLockSpec
CONSTANTS
  Readers = {r1}
  Writers = {w1, w2}
PROPERTIES
  WriterGetsLock
CHECK_DEADLOCK FALSE
