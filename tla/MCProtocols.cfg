SPECIFICATION Spec
CONSTANTS
  kCheapPrepend = 2
  kInitialSize = 3
  ExtraBuf = 4
  ByteBase = 16
  IntLen = 2
  MaxContent = 6
  Lengths = {1, 3}
  MaxOps = 5
  tag_ <- MCTag
  kMaxMessageLen = 9
  AdlerBase = 13
  Callers = {c1, c2}
  ReadSizes = {1, 5}
  Strays <- MCStrays
  Requests <- MCRequests
  HttpReadSizes = {1, 4}
  MaxRequests = 2
  MaxTableCalls = 2
INVARIANTS BufferKeepsContent AnswersMatch ResponsesMatch
PROPERTIES CallsAreAnswered RequestsAnswered
CHECK_DEADLOCK FALSE
