\* The peers may stop, and the server then waits: states without a successor are AtRest
\* (Settles).
CONSTANTS
  Conns = {1, 2, 3}
  None = 0
  Fds = {0, 1, 2}
  m_iWorkerCount = 2
  MaxBacks = 1
  Setups <- All
SPECIFICATION FairSpec
INVARIANTS Inv BacklogAccounted LeftoversExplained ReaderHasClient RemovesOwn
  AnsweredAtRest ReleasedAtRest PicturesAtRest
PROPERTIES Settles
CHECK_DEADLOCK FALSE
