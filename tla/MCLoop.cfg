SPECIFICATION MCSpec
CONSTANTS
  Callers = {u, t1, t2}
  User = u
  IOChannels = {io1, io2}
  MaxFunctors = 5
INVARIANTS
  NoLostWakeup
  ObjectOutlivesLoop
PROPERTIES
  RunsInOrder
  LoopGoesOn
  StartAndDtorEnd
CHECK_DEADLOCK FALSE
