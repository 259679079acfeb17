\* When every task has been run the threads wait, or have exited after ShutDown.
CONSTANTS
  a = a
  b = b
  c = c
  Tasks = {a, b, c}
  Ids = {0, 1, 2}
  IdOf <- TaskIds
  m_iWorkerCount = 2
  MaxBatch = 2
  NoTask = NoTask
  Garbage = Garbage
SPECIFICATION FairSpec
INVARIANTS Inv AwakeWhenWork NeverGarbage WaitsOnlyIfMissed
PROPERTIES IsSerial TasksRun ShutDownEnds
CHECK_DEADLOCK FALSE
