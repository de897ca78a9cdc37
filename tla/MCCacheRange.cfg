SPECIFICATION Spec
CONSTANTS
  k1 = k1
  Keys = {k1, k2, k3}
  Values = {v1, v2}
  Slots = {1, 2}
  SlotOf <- MCSlotOf
  Junk = Junk
  MaxSizes = {0, 1, 2, 3}
  ServerIds = {1, 2, 3}
  ids_ = {1, 2}
  serverId_ = 1
  maxSize_ = 1
  None = None
  IntBits = 32
  WordBits = 64
  SlotsNum = 128
  Ends = {0, 1, 31, 32, 64, 65}
  Counts = {0, 1, 2, 3}
  MaxCalls = 3
  Readers = {r1, r2, r3}
  Writers = {w1, w2}
INVARIANTS
  RangeIsSet
CHECK_DEADLOCK FALSE
