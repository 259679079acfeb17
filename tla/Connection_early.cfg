\* The counterexample ends at rest.
CONSTANTS
  Conns = {1, 2}
  None = 0
  Fds = {0, 1}
  m_iWorkerCount = 2
  MaxBacks = 1
  Setups <- Early
SPECIFICATION FairSpec
INVARIANTS LoginAnswered
CHECK_DEADLOCK FALSE
