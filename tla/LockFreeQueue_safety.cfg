\* Three threads, three blocks, four slots.  The registers have 19 values and the
\* run begins at 17, so the counters wrap in mid-run and the slot sequence jumps
\* from 2 to 0 as it does at 2^32 with QUEUE_LEN slots.
CONSTANTS
  Threads = {t1, t2, t3}
  Elems = {e1, e2, e3}
  NoElem = NoElem
  QUEUE_LEN = 4
  COUNTER_MOD = 19
  StartCount = 17
  MaxCount = 22
SPECIFICATION Spec
SYMMETRY Symmetry
INVARIANTS Inv OnePlace SizeLagsByCalls
PROPERTIES IsFifo
