------------------------------- MODULE MemPool -------------------------------
(***************************************************************************)
(* CMemPool (src/MemPool.cpp): GetBlock, FreeBlock and ExtendPool, called   *)
(* by the receive, frame and send workers at once on a pool that CreatPool  *)
(* has filled.  The pool has no lock: its free blocks are in the lock-free  *)
(* queue, whose steps are those of LockFreeQueue, and GrowCount and         *)
(* m_BlockTotalCount are plain members, loaded and stored separately.       *)
(*                                                                          *)
(* The elements of the queue are the blocks, those still to be allocated by *)
(* new[] included; "outside" of LockFreeQueue are the blocks that are not   *)
(* in the queue and not in a call of it.                                    *)
(***************************************************************************)
EXTENDS LockFreeQueue, Sequences

CONSTANTS
  InitBlocks,      \* the blocks CreatPool pushed, in order
  GrowStep,        \* blocks that one extension adds
  GROW_COUNT_MAX   \* limit of GrowCount

ASSUME PoolAssumption ==
  /\ InitBlocks \in Seq(Elems)
  /\ \A i, j \in 1 .. Len(InitBlocks) : InitBlocks[i] = InitBlocks[j] => i = j
  /\ Len(InitBlocks) < QUEUE_LEN /\ Len(InitBlocks) < COUNTER_MOD  \* no Push was refused
  /\ StartCount + Len(InitBlocks) <= MaxCount
  /\ GrowStep \in Nat \ {0}
  /\ GROW_COUNT_MAX \in Nat \ {0}

VARIABLES
  created,             \* the blocks that exist
  held,                \* the blocks GetBlock gave out and nobody has freed
  lost,                \* the blocks a refused Push left to nobody
  GrowCount,
  m_BlockTotalCount,
  op,                  \* op[t]: where t is in GetBlock or FreeBlock
  reg,                 \* reg[t]: the value of a member that t has loaded
  left                 \* left[t]: blocks the loop of ExtendPool still has to push

queueVars == vars
growVars == <<GrowCount, m_BlockTotalCount, reg>>
blockVars == <<created, held, lost>>
poolVars == <<blockVars, growVars, op, left>>
allVars == <<queueVars, poolVars>>

Extending == {"ext_check", "ext_load", "ext_store", "ext_push", "ext_pushing"}
Ops == {"none", "get_size", "total_load", "total_store", "pop", "popping", "freeing"}
         \cup Extending

fresh == Elems \ created

\* Bound of the model: calls that may still extend the pool find blocks to add.
RoomToGrow ==
  \/ GrowCount >= GROW_COUNT_MAX /\ \A t \in Threads : op[t] \notin {"ext_load", "ext_store"}
  \/ GrowStep * (1 + Cardinality({t \in Threads : op[t] \in {"get_size"} \cup Extending}))
       <= Cardinality(fresh)

-----------------------------------------------------------------------------
\* CreatPool has run: it extended the pool once, before any worker was started.
PoolInit ==
  /\ m_Queue = [i \in Slots |->
                  IF \E k \in 1 .. Len(InitBlocks) : CountToIndex(StartCount + k - 1) = i
                  THEN InitBlocks[CHOOSE k \in 1 .. Len(InitBlocks) :
                                     CountToIndex(StartCount + k - 1) = i]
                  ELSE NoElem]
  /\ m_readIndex = StartCount
  /\ m_writeIndex = StartCount + Len(InitBlocks)
  /\ m_maximumReadIndex = m_writeIndex
  /\ m_size = Len(InitBlocks)
  /\ pc = [t \in Threads |-> "idle"]
  /\ data = [t \in Threads |-> NoElem]
  /\ count = [t \in Threads |-> 0]
  /\ created = {InitBlocks[k] : k \in 1 .. Len(InitBlocks)}
  /\ outside = Elems \ created
  /\ held = {}
  /\ lost = {}
  /\ GrowCount = 1
  /\ m_BlockTotalCount = Len(InitBlocks)
  /\ op = [t \in Threads |-> "none"]
  /\ reg = [t \in Threads |-> 0]
  /\ left = [t \in Threads |-> 0]

GoOn(t, label) == op' = [op EXCEPT ![t] = label]

\* A branch, which changes nothing else.
Branch(t, from, label) ==
  /\ op[t] = from
  /\ GoOn(t, label)
  /\ UNCHANGED <<queueVars, blockVars, growVars, left>>

-----------------------------------------------------------------------------
(* GetBlock                                                                 *)

GetBlock(t) == RoomToGrow /\ Branch(t, "none", "get_size")

\* m_size is unsigned, so "<= 0" asks for zero.
GetSize(t) == Branch(t, "get_size", IF m_size <= 0 THEN "ext_check" ELSE "pop")

\* Mutant: GetBlock ignores that ExtendPool failed.
ExtendRefuseIgnored(t) == GrowCount >= GROW_COUNT_MAX /\ Branch(t, "ext_check", "total_load")

\* The pool may not grow any more: GetBlock returns NULL.
ExtendRefuse(t) == GrowCount >= GROW_COUNT_MAX /\ Branch(t, "ext_check", "none")

ExtendAllowed(t) == GrowCount < GROW_COUNT_MAX /\ Branch(t, "ext_check", "ext_load")

GrowLoad(t) ==
  /\ op[t] = "ext_load"
  /\ reg' = [reg EXCEPT ![t] = GrowCount]
  /\ GoOn(t, "ext_store")
  /\ UNCHANGED <<queueVars, blockVars, GrowCount, m_BlockTotalCount, left>>

GrowStore(t) ==
  /\ op[t] = "ext_store"
  /\ GrowCount' = reg[t] + 1
  /\ reg' = [reg EXCEPT ![t] = 0]
  /\ left' = [left EXCEPT ![t] = GrowStep]
  /\ GoOn(t, "ext_push")
  /\ UNCHANGED <<queueVars, blockVars, m_BlockTotalCount>>

\* Mutant: the loop of ExtendPool runs once too often.
ExtendPushOneMore(t) ==
  LET block == CHOOSE b \in fresh : TRUE
  IN  /\ op[t] = "ext_push"
      /\ fresh # {}
      /\ PushCall(t, block)
      /\ created' = created \cup {block}
      /\ left' = [left EXCEPT ![t] = @ - 1]
      /\ GoOn(t, "ext_pushing")
      /\ UNCHANGED <<held, lost, growVars>>

\* new[] returns an address that is not in use, which one does not matter.
ExtendPush(t) ==
  LET block == CHOOSE b \in fresh : TRUE
  IN  /\ op[t] = "ext_push"
      /\ left[t] > 0
      /\ fresh # {}
      /\ PushCall(t, block)
      /\ created' = created \cup {block}
      /\ left' = [left EXCEPT ![t] = @ - 1]
      /\ GoOn(t, "ext_pushing")
      /\ UNCHANGED <<held, lost, growVars>>

ExtendPushed(t) ==
  /\ op[t] = "ext_pushing"
  /\ PushCount(t)
  /\ GoOn(t, "ext_push")
  /\ UNCHANGED <<blockVars, growVars, left>>

\* "push failed": logged, and the loop goes on without the block.
ExtendPushRefused(t) ==
  /\ op[t] = "ext_pushing"
  /\ PushRefuse(t)
  /\ lost' = lost \cup {data[t]}
  /\ GoOn(t, "ext_push")
  /\ UNCHANGED <<created, held, growVars, left>>

ExtendDone(t) == left[t] = 0 /\ Branch(t, "ext_push", "total_load")

TotalLoad(t) ==
  /\ op[t] = "total_load"
  /\ reg' = [reg EXCEPT ![t] = m_BlockTotalCount]
  /\ GoOn(t, "total_store")
  /\ UNCHANGED <<queueVars, blockVars, GrowCount, m_BlockTotalCount, left>>

TotalStore(t) ==
  /\ op[t] = "total_store"
  /\ m_BlockTotalCount' = reg[t] + GrowStep
  /\ reg' = [reg EXCEPT ![t] = 0]
  /\ GoOn(t, "pop")
  /\ UNCHANGED <<queueVars, blockVars, GrowCount, left>>

GetPop(t) ==
  /\ op[t] = "pop"
  /\ PopCall(t)
  /\ GoOn(t, "popping")
  /\ UNCHANGED <<blockVars, growVars, left>>

GetPopped(t) ==
  /\ op[t] = "popping"
  /\ PopCount(t)
  /\ held' = held \cup {data[t]}
  /\ GoOn(t, "none")
  /\ UNCHANGED <<created, lost, growVars, left>>

\* Mutant: GetBlock returns ret without looking at the result of Pop.
GetNullStale(t) ==
  /\ op[t] = "popping"
  /\ PopRefuse(t)
  /\ held' = held \cup ({data[t]} \ {NoElem})
  /\ GoOn(t, "none")
  /\ UNCHANGED <<created, lost, growVars, left>>

\* Pop returned false: GetBlock returns NULL, whatever Pop has left in ret.
GetNull(t) ==
  /\ op[t] = "popping"
  /\ PopRefuse(t)
  /\ GoOn(t, "none")
  /\ UNCHANGED <<blockVars, growVars, left>>

-----------------------------------------------------------------------------
(* FreeBlock                                                                *)

\* Any thread may free a block that GetBlock gave to any thread.  The bound leaves
\* counts for the blocks that the pool may still add.
FreeBlock(t, b) ==
  /\ op[t] = "none"
  /\ b \in held
  /\ m_writeIndex + Cardinality(ReservingThreads) + Cardinality(fresh) < MaxCount
  /\ PushCall(t, b)
  /\ held' = held \ {b}
  /\ GoOn(t, "freeing")
  /\ UNCHANGED <<created, lost, growVars, left>>

Freed(t) ==
  /\ op[t] = "freeing"
  /\ PushCount(t)
  /\ GoOn(t, "none")
  /\ UNCHANGED <<blockVars, growVars, left>>

\* FreeBlock returns false.  No caller keeps the block to try again: they log the
\* failure or ignore it.
FreeRefused(t) ==
  /\ op[t] = "freeing"
  /\ PushRefuse(t)
  /\ lost' = lost \cup {data[t]}
  /\ GoOn(t, "none")
  /\ UNCHANGED <<created, held, growVars, left>>

\* A step inside Push or Pop that neither begins nor ends the call.
QueueStep(t) ==
  /\ \/ PushReadWrite(t) \/ PushReadRead(t) \/ PushReserve(t) \/ PushStore(t)
     \/ PushCommit(t)
     \/ PopReadRead(t) \/ PopReadMaximum(t) \/ PopLoad(t) \/ PopTake(t)
  /\ UNCHANGED poolVars

-----------------------------------------------------------------------------
\* What a thread does on its own once GetBlock or FreeBlock has been called.
PoolStep(t) ==
  \/ GetSize(t) \/ ExtendRefuse(t) \/ ExtendAllowed(t) \/ GrowLoad(t) \/ GrowStore(t)
  \/ ExtendPush(t) \/ ExtendPushed(t) \/ ExtendPushRefused(t) \/ ExtendDone(t)
  \/ TotalLoad(t) \/ TotalStore(t) \/ GetPop(t) \/ GetPopped(t) \/ GetNull(t)
  \/ Freed(t) \/ FreeRefused(t) \/ QueueStep(t)

PoolNext ==
  \E t \in Threads :
     \/ GetBlock(t)
     \/ \E b \in Elems : FreeBlock(t, b)
     \/ PoolStep(t)

\* Everyone is idle: the bounds allow no further call, or nobody makes one.
PoolQuiet ==
  /\ \A t \in Threads : op[t] = "none"
  /\ UNCHANGED allVars

PoolSpec == PoolInit /\ [][PoolNext \/ PoolQuiet]_allVars

FairPoolSpec == PoolSpec /\ \A t \in Threads : WF_allVars(PoolStep(t))

-----------------------------------------------------------------------------
(* Properties                                                               *)

\* The members and locals of the pool have their types.
PoolTypeOK ==
  /\ created \subseteq Elems /\ held \subseteq Elems /\ lost \subseteq Elems
  /\ GrowCount \in Nat
  /\ m_BlockTotalCount \in Nat
  /\ op \in [Threads -> Ops]
  /\ reg \in [Threads -> Nat]
  /\ left \in [Threads -> 0 .. GrowStep]

\* A block that a caller holds is nowhere else, and no block disappears unless a
\* Push was refused: GetBlock never gives out a block twice, although Pop may write
\* to its result and then fail (lines 57-61), and blocks pass between threads.
Accounts ==
  /\ outside = fresh \cup held \cup lost
  /\ held \cap lost = {}
  /\ held \cup lost \subseteq created
BlocksAccounted == OnePlace /\ Accounts

\* The blocks of running extensions, one by one: those the loop still has to push, and
\* those it has pushed that m_BlockTotalCount does not count yet.
ToPush == {b \in Threads \X (1 .. GrowStep) : b[2] <= left[b[1]]}
ToCount ==
  {b \in Threads \X (1 .. GrowStep) :
     \/ op[b[1]] \in {"ext_push", "ext_pushing"} /\ b[2] > left[b[1]]
     \/ op[b[1]] \in {"total_load", "total_store"}}

\* Blocks that n, as a value of GrowCount, stands for (CreatPool's count for its own),
\* and the blocks that there will be when the running extensions are done.
BlocksOf(n) == Len(InitBlocks) + GrowStep * (n - 1)
Made == Cardinality(created) + Cardinality(ToPush)

\* The check of line 97 and the load and store of line 103 are separate, so counts of
\* extensions get lost, but none is made up: the pool does not stop growing early.
GrowthNotAbove == BlocksOf(GrowCount) <= Made

\* m_BlockTotalCount may miss blocks (an addition of line 53 is lost, or still to
\* be made), but never counts one that does not exist.
TotalNotAbove == m_BlockTotalCount + Cardinality(ToCount) <= Cardinality(created)

\* What is left of the two plain counters that any thread loads and stores.
CountersExplained == GrowthNotAbove /\ TotalNotAbove

-----------------------------------------------------------------------------
(* The inductive invariant: the queue's, the accounts, and what the threads  *)
(* have loaded                                                              *)

\* Only an extension has blocks to push.
LeftInLoop == \A t \in Threads : op[t] \notin {"ext_push", "ext_pushing"} => left[t] = 0

\* A count that a thread has loaded and will store is not above either.
Loaded ==
  \A t \in Threads :
     /\ op[t] = "ext_store" => BlocksOf(reg[t]) <= Made
     /\ op[t] = "total_store" => reg[t] + Cardinality(ToCount) <= Cardinality(created)

PoolInv ==
  /\ Inv
  /\ PoolTypeOK
  /\ Accounts
  /\ LeftInLoop
  /\ CountersExplained
  /\ Loaded

-----------------------------------------------------------------------------
(* Liveness                                                                 *)

\* A call of GetBlock or FreeBlock returns, with a block or without.
PoolCallsReturn == \A t \in Threads : []<>(op[t] = "none")
=============================================================================
