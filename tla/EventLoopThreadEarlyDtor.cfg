SPECIFICATION FairThreadSpec
CONSTANTS
  Callers = {u}
  User = u
  IOChannels = {io}
  MaxFunctors = 1
PROPERTIES
  DtorEnds
CHECK_DEADLOCK FALSE
