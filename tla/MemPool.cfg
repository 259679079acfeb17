\* Two threads, one block to begin with, two blocks per extension, limit 2 (the first
\* count is CreatPool's own): up to five blocks, for a queue that holds two.  Both
\* threads may be between reservation and commit, so that one waits for the other.
CONSTANTS
  Threads = {t1, t2}
  b1 = b1  b2 = b2  b3 = b3  b4 = b4  b5 = b5
  Elems = {b1, b2, b3, b4, b5}
  NoElem = NoElem
  InitBlocks <- OneBlock
  GrowStep = 2
  GROW_COUNT_MAX = 2
  QUEUE_LEN = 3
  COUNTER_MOD = 32
  StartCount = 0
  MaxCount = 5
SPECIFICATION FairPoolSpec
INVARIANTS PoolInv BlocksAccounted SlotsApart CountersExplained
PROPERTIES PoolCallsReturn
