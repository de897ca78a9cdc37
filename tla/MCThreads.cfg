SPECIFICATION Spec
CONSTANTS
  NumThreads = {0, 2}
  MaxThreads = 2
  Producers = {p1, p2}
  maxQueueSize_ = 1
  MaxTasks = 3
  kLargeBuffer = 3
  LineSizes = {1, 3}
  MaxLines = 3
  KeptBuffers = 2
  rollSize_ = 2
  kRollPerSeconds_ = 2
  checkEveryN_ = 2
  flushInterval_ = 0
  MaxTime = 3
  NoBuffer = NoBuffer
  Fds = {0, 1, 2}
  Callbacks <- MCCallbacks
  Base = 2
  HoursPerDay = 24
  Starts <- MCStarts
  MaxWalk = 800
  Zones <- MCZones
  MaxZoneTime = 240
INVARIANTS NobodyOversleeps TasksTakenOnce LogIsWhole LogAssertsHold PollersWatchAlike TimesConvertBack
PROPERTIES PoolGoesOn LinesReachFile
CHECK_DEADLOCK FALSE
