\* Two frame workers, one unit of buffer for frames of up to two: short sends, full
\* buffers and pushes in between, with the peer's data and its close.
CONSTANTS
  Workers = {w1, w2}
  BufSize = 1
  Blocks = 2
  MaxLen = 2
  MaxCalls = 2
  MaxIn = 1
SPECIFICATION FairSpec
INVARIANTS Inv InOrder NothingLost BlocksOnce AttendedWhenAllowed
PROPERTIES RemovedWhenClosed
CHECK_DEADLOCK FALSE
