----------------------------- MODULE MemPoolProofs -----------------------------
(***************************************************************************)
(* PoolInv of MemPool is inductive, for any number of threads and blocks:   *)
(* the pool's steps are steps of the lock-free queue, whose invariant is    *)
(* proved in LockFreeQueueProofs, and keep the accounts of the blocks.      *)
(***************************************************************************)
EXTENDS MemPool, LockFreeQueueProofs, SequenceTheorems

USE QueueAssumption, PoolAssumption

-----------------------------------------------------------------------------
(* The queue under the pool                                                 *)

\* Every step of the pool is a step of the queue or leaves the queue alone.
LEMMA QueueSteps == [PoolNext \/ PoolQuiet]_allVars => [Next]_vars
<1> SUFFICES ASSUME PoolNext \/ PoolQuiet \/ UNCHANGED allVars
             PROVE  Next \/ UNCHANGED vars
  OBVIOUS
<1>1. CASE UNCHANGED allVars
  BY <1>1 DEF allVars, queueVars
<1>2. CASE PoolQuiet
  BY <1>2 DEF PoolQuiet, allVars, queueVars
<1>3. ASSUME NEW t \in Threads, GetBlock(t)
      PROVE  UNCHANGED vars
  BY <1>3 DEF GetBlock, Branch, queueVars
<1>4. ASSUME NEW t \in Threads, NEW b \in Elems, FreeBlock(t, b)
      PROVE  Next
  BY <1>4 DEF FreeBlock, Next
<1>5. ASSUME NEW t \in Threads, PoolStep(t)
      PROVE  Next \/ UNCHANGED vars
  <2>1. CASE GetSize(t) \/ ExtendRefuse(t) \/ ExtendAllowed(t) \/ ExtendDone(t)
    BY <2>1 DEF GetSize, ExtendRefuse, ExtendAllowed, ExtendDone, Branch, queueVars
  <2>2. CASE GrowLoad(t) \/ GrowStore(t) \/ TotalLoad(t) \/ TotalStore(t)
    BY <2>2 DEF GrowLoad, GrowStore, TotalLoad, TotalStore, queueVars
  <2>3. CASE ExtendPush(t)
    <3>1. PICK b \in Elems : PushCall(t, b)
      BY <2>3 DEF ExtendPush, fresh
    <3> QED
      BY <3>1 DEF Next
  <2>4. CASE ExtendPushed(t) \/ Freed(t)
    BY <2>4 DEF ExtendPushed, Freed, Next, PushStep
  <2>5. CASE ExtendPushRefused(t) \/ FreeRefused(t)
    BY <2>5 DEF ExtendPushRefused, FreeRefused, Next, PushStep
  <2>6. CASE GetPop(t)
    BY <2>6 DEF GetPop, Next
  <2>7. CASE GetPopped(t) \/ GetNull(t)
    BY <2>7 DEF GetPopped, GetNull, Next, PopStep
  <2>8. CASE QueueStep(t)
    BY <2>8 DEF QueueStep, Next, PushStep, PopStep
  <2> QED
    BY <1>5, <2>1, <2>2, <2>3, <2>4, <2>5, <2>6, <2>7, <2>8 DEF PoolStep
<1> QED
  BY <1>1, <1>2, <1>3, <1>4, <1>5 DEF PoolNext

\* CreatPool leaves the queue filled with the first blocks, one to a slot.
LEMMA FilledQueue == PoolInit => Inv
<1> SUFFICES ASSUME PoolInit PROVE Inv
  OBVIOUS
<1> DEFINE n == Len(InitBlocks)
           slot(k) == CountToIndex(StartCount + k - 1)
           filled(i) == \E k \in 1 .. n : slot(k) = i
           filler(i) == CHOOSE k \in 1 .. n : slot(k) = i
<1>1. n \in Nat /\ \A k \in 1 .. n : InitBlocks[k] \in Elems
  OBVIOUS
<1>2. /\ m_readIndex = StartCount /\ m_writeIndex = StartCount + n
      /\ m_maximumReadIndex = StartCount + n /\ m_size = n
      /\ pc = [t \in Threads |-> "idle"] /\ data = [t \in Threads |-> NoElem]
      /\ count = [t \in Threads |-> 0]
      /\ created = {InitBlocks[k] : k \in 1 .. n} /\ outside = Elems \ created
  BY DEF PoolInit
<1>3. m_Queue = [i \in Slots |-> IF filled(i) THEN InitBlocks[filler(i)] ELSE NoElem]
  BY DEF PoolInit
<1>4. \A i : filled(i) => filler(i) \in 1 .. n /\ slot(filler(i)) = i
  OBVIOUS
<1>5. n <= Cardinality(Elems)
  <2>1. InitBlocks \in Injection(1 .. n, Elems)
    BY DEF Injection, IsInjective
  <2>2. Cardinality(1 .. n) <= Cardinality(Elems)
    BY <2>1, FS_Injection
  <2> HIDE DEF n
  <2>3. Cardinality(1 .. n) = n
    BY <1>1, FS_Interval
  <2> QED
    BY <2>2, <2>3
<1> HIDE DEF n, filled, filler, slot
<1>6. TypeOK
  <2>1. m_Queue \in [Slots -> Elems \cup {NoElem}]
    BY <1>1, <1>3, <1>4
  <2>2. m_size \in 0 .. (COUNTER_MOD - 1)
    BY <1>1, <1>2 DEF n
  <2> QED
    BY <1>1, <1>2, <2>1, <2>2 DEF TypeOK, PCs
<1>7. Ordered
  <2>1. Cardinality(ReservingThreads) = 0
    <3>1. ReservingThreads = {}
      BY <1>2 DEF ReservingThreads, Reserving
    <3> QED
      BY <3>1, FS_EmptySet
  <2> QED
    BY <1>1, <1>2, <2>1 DEF Ordered, n
<1>8. Room
  BY <1>1, <1>2, <1>5, FS_CardinalityType DEF Room, Reserving, n
<1>9. SlotsApart
  BY <1>6, <1>7, <1>8, Apart
<1>10. \A k \in 1 .. n : ElemAt(StartCount + k - 1) = InitBlocks[k]
  <2> TAKE k \in 1 .. n
  <2>1. StartCount + k - 1 \in Nat /\ slot(k) \in Slots /\ filled(slot(k))
    <3>1. StartCount + k - 1 \in Nat
      BY <1>1
    <3>2. slot(k) \in Slots
      BY <3>1, IndexType DEF slot
    <3>3. filled(slot(k))
      BY DEF filled
    <3> QED
      BY <3>1, <3>2, <3>3
  <2> DEFINE j == filler(slot(k))
  <2>2. j \in 1 .. n /\ slot(j) = slot(k)
    BY <1>4, <2>1
  <2> HIDE DEF j
  <2>3. j = k
    <3>1. /\ StartCount + j - 1 \in m_readIndex .. (m_writeIndex - 1)
          /\ StartCount + k - 1 \in m_readIndex .. (m_writeIndex - 1)
      BY <1>1, <1>2, <2>2
    <3>2. StartCount + j - 1 = StartCount + k - 1
      BY <1>9, <2>2, <3>1 DEF SlotsApart, slot
    <3> QED
      BY <1>1, <2>2, <3>2
  <2> QED
    BY <1>3, <2>1, <2>3 DEF ElemAt, slot, j
<1>11. \A c \in Committed : c - StartCount + 1 \in 1 .. n /\ StartCount + (c - StartCount + 1) - 1 = c
  BY <1>1, <1>2 DEF Committed
<1>12. \A c \in Committed : ElemAt(c) = InitBlocks[c - StartCount + 1]
  BY <1>10, <1>11
<1>13. OneOwner /\ Stored /\ CarriedOnce /\ Snapshot
  BY <1>1, <1>2 DEF OneOwner, Stored, CarriedOnce, Carries, Snapshot, Reserving, Reserved
<1>14. CommittedOnce
  <2>1. \A c \in Committed : ElemAt(c) \in Elems \ outside
    BY <1>1, <1>2, <1>11, <1>12
  <2>2. \A c, d \in Committed : ElemAt(c) = ElemAt(d) => c = d
    <3> TAKE c, d \in Committed
    <3>1. InitBlocks[c - StartCount + 1] = InitBlocks[d - StartCount + 1] =>
            c - StartCount + 1 = d - StartCount + 1
      BY <1>11 DEF n
    <3> QED
      BY <1>11, <1>12, <3>1
  <2> QED
    BY <1>2, <2>1, <2>2 DEF CommittedOnce, Carries, Reserving, Reserved
<1>15. Somewhere
  <2> SUFFICES ASSUME NEW e \in created
               PROVE  \E c \in Committed : ElemAt(c) = e
    BY <1>2 DEF Somewhere
  <2>1. PICK k \in 1 .. n : e = InitBlocks[k]
    BY <1>2
  <2>2. StartCount + k - 1 \in Committed
    BY <1>1, <1>2 DEF Committed
  <2> QED
    BY <1>10, <2>1, <2>2
<1> QED
  BY <1>6, <1>7, <1>8, <1>13, <1>14, <1>15 DEF Inv

-----------------------------------------------------------------------------
(* Accounts                                                                 *)

\* Blocks change hands one at a time: what a call carries is in no account.
LEMMA AccountsStep ==
  ASSUME Inv, PoolTypeOK, Accounts, PoolNext
  PROVE  Accounts'
<1> USE DEF Accounts, fresh
<1>1. CASE UNCHANGED <<outside, blockVars>>
  BY <1>1 DEF blockVars
<1>2. ASSUME NEW t \in Threads, Carries(t)
      PROVE  data[t] \in Elems \ outside
  BY <1>2 DEF Inv, CarriedOnce
<1>3. ASSUME NEW t \in Threads, GetBlock(t)
      PROVE  Accounts'
  BY <1>1, <1>3 DEF GetBlock, Branch, queueVars, vars
<1>4. ASSUME NEW t \in Threads, NEW b \in Elems, FreeBlock(t, b)
      PROVE  Accounts'
  BY <1>4 DEF FreeBlock, PushCall
<1>5. ASSUME NEW t \in Threads, PoolStep(t)
      PROVE  Accounts'
  <2>1. CASE GetSize(t) \/ ExtendRefuse(t) \/ ExtendAllowed(t) \/ ExtendDone(t)
    BY <1>1, <2>1 DEF GetSize, ExtendRefuse, ExtendAllowed, ExtendDone, Branch, queueVars, vars
  <2>2. CASE GrowLoad(t) \/ GrowStore(t) \/ TotalLoad(t) \/ TotalStore(t)
    BY <1>1, <2>2 DEF GrowLoad, GrowStore, TotalLoad, TotalStore, queueVars, vars
  <2>3. CASE ExtendPush(t)
    <3>1. PICK b \in fresh : PushCall(t, b) /\ created' = created \cup {b} /\ UNCHANGED <<held, lost>>
      BY <2>3 DEF ExtendPush
    <3> QED
      BY <3>1 DEF PushCall, PoolTypeOK
  <2>4. CASE ExtendPushed(t) \/ Freed(t)
    BY <1>1, <2>4 DEF ExtendPushed, Freed, PushCount, Return
  <2>5. CASE ExtendPushRefused(t) \/ FreeRefused(t)
    <3>1. /\ outside' = outside \cup {data[t]} /\ lost' = lost \cup {data[t]}
          /\ UNCHANGED <<created, held>>
      BY <2>5 DEF ExtendPushRefused, FreeRefused, PushRefuse, Return
    <3>2. Carries(t)
      BY <2>5 DEF ExtendPushRefused, FreeRefused, PushRefuse, Carries, Reserving
    <3> QED
      BY <1>2, <3>1, <3>2
  <2>6. CASE GetPop(t)
    BY <1>1, <2>6 DEF GetPop, PopCall
  <2>7. CASE GetPopped(t)
    <3>1. /\ outside' = outside \cup {data[t]} /\ held' = held \cup {data[t]}
          /\ UNCHANGED <<created, lost>>
      BY <2>7 DEF GetPopped, PopCount, Return
    <3>2. Carries(t)
      BY <2>7 DEF GetPopped, PopCount, Carries
    <3> QED
      BY <1>2, <3>1, <3>2
  <2>8. CASE GetNull(t)
    BY <1>1, <2>8 DEF GetNull, PopRefuse, Return
  <2>9. CASE QueueStep(t)
    BY <1>1, <2>9 DEF QueueStep, poolVars, PushReadWrite, PushReadRead, PushReserve, PushStore, PushCommit,
                      PopReadRead, PopReadMaximum, PopLoad, PopTake
  <2> QED
    BY <1>5, <2>1, <2>2, <2>3, <2>4, <2>5, <2>6, <2>7, <2>8, <2>9 DEF PoolStep
<1> QED
  BY <1>3, <1>4, <1>5 DEF PoolNext

\* The members and locals of the pool keep their types.
LEMMA PoolTypeStep ==
  ASSUME Inv, PoolTypeOK, PoolNext
  PROVE  PoolTypeOK'
<1> USE DEF PoolTypeOK
<1>1. {"none", "get_size", "ext_check", "ext_load", "ext_store", "ext_push", "ext_pushing", "total_load",
       "total_store", "pop", "popping", "freeing"} = Ops
  BY DEF Ops, Extending
<1>2. ASSUME NEW t \in Threads, Carries(t)
      PROVE  data[t] \in Elems
  BY <1>2 DEF Inv, CarriedOnce
<1>3. ASSUME NEW t \in Threads, NEW label \in Ops, GoOn(t, label)
      PROVE  op' \in [Threads -> Ops]
  BY <1>3 DEF GoOn
<1>4. ASSUME NEW t \in Threads, NEW from, NEW label \in Ops, Branch(t, from, label)
      PROVE  PoolTypeOK'
  BY <1>3, <1>4 DEF Branch, blockVars, growVars
<1>5. ASSUME NEW t \in Threads, GetBlock(t)
      PROVE  PoolTypeOK'
  BY <1>1, <1>4, <1>5 DEF GetBlock
<1>6. ASSUME NEW t \in Threads, NEW b \in Elems, FreeBlock(t, b)
      PROVE  PoolTypeOK'
  BY <1>1, <1>3, <1>6 DEF FreeBlock, growVars
<1>7. ASSUME NEW t \in Threads, PoolStep(t)
      PROVE  PoolTypeOK'
  <2>1. CASE GetSize(t) \/ ExtendRefuse(t) \/ ExtendAllowed(t) \/ ExtendDone(t)
    BY <1>1, <1>4, <2>1 DEF GetSize, ExtendRefuse, ExtendAllowed, ExtendDone
  <2>2. CASE GrowLoad(t)
    BY <1>1, <1>3, <2>2 DEF GrowLoad, blockVars
  <2>3. CASE GrowStore(t)
    BY <1>1, <1>3, <2>3 DEF GrowStore, blockVars
  <2>4. CASE TotalLoad(t)
    BY <1>1, <1>3, <2>4 DEF TotalLoad, blockVars
  <2>5. CASE TotalStore(t)
    BY <1>1, <1>3, <2>5 DEF TotalStore, blockVars
  <2>6. CASE ExtendPush(t)
    <3>1. PICK b \in fresh : created' = created \cup {b}
      BY <2>6 DEF ExtendPush
    <3>2. b \in Elems /\ left[t] - 1 \in 0 .. GrowStep
      BY <2>6 DEF ExtendPush, fresh
    <3> QED
      BY <1>1, <1>3, <2>6, <3>1, <3>2 DEF ExtendPush, growVars
  <2>7. CASE ExtendPushed(t) \/ Freed(t)
    BY <1>1, <1>3, <2>7 DEF ExtendPushed, Freed, blockVars, growVars
  <2>8. CASE ExtendPushRefused(t) \/ FreeRefused(t)
    <3>1. Carries(t)
      BY <2>8 DEF ExtendPushRefused, FreeRefused, PushRefuse, Carries, Reserving
    <3> QED
      BY <1>1, <1>2, <1>3, <2>8, <3>1 DEF ExtendPushRefused, FreeRefused, growVars
  <2>9. CASE GetPop(t) \/ GetNull(t)
    BY <1>1, <1>3, <2>9 DEF GetPop, GetNull, blockVars, growVars
  <2>10. CASE GetPopped(t)
    <3>1. Carries(t)
      BY <2>10 DEF GetPopped, PopCount, Carries
    <3> QED
      BY <1>1, <1>2, <1>3, <2>10, <3>1 DEF GetPopped, growVars
  <2>11. CASE QueueStep(t)
    BY <2>11 DEF QueueStep, poolVars, blockVars, growVars
  <2> QED
    BY <1>7, <2>1, <2>2, <2>3, <2>4, <2>5, <2>6, <2>7, <2>8, <2>9, <2>10, <2>11 DEF PoolStep
<1> QED
  BY <1>5, <1>6, <1>7 DEF PoolNext

-----------------------------------------------------------------------------
(* The counters                                                             *)

LEMMA Numbers ==
  ASSUME NEW n \in Nat
  PROVE  IsFiniteSet(1 .. n) /\ Cardinality(1 .. n) = n
<1>1. IsFiniteSet(1 .. n)
  BY FS_Interval
<1>2. Cardinality(1 .. n) = IF 1 > n THEN 0 ELSE n - 1 + 1
  BY FS_Interval
<1> QED
  BY <1>1, <1>2

\* The sets that are counted are finite.
LEMMA Finite ==
  created \subseteq Elems =>
    /\ IsFiniteSet(created) /\ Cardinality(created) \in Nat
    /\ IsFiniteSet(ToPush) /\ Cardinality(ToPush) \in Nat
    /\ IsFiniteSet(ToCount) /\ Cardinality(ToCount) \in Nat
<1>1. IsFiniteSet(Threads \X (1 .. GrowStep))
  BY Numbers, FS_Product
<1>2. ToPush \subseteq Threads \X (1 .. GrowStep) /\ ToCount \subseteq Threads \X (1 .. GrowStep)
  BY DEF ToPush, ToCount
<1> QED
  BY <1>1, <1>2, FS_Subset, FS_CardinalityType

\* The blocks of one extension.
BlocksOfThread(t) == {t} \X (1 .. GrowStep)

LEMMA OneExtension ==
  ASSUME NEW t \in Threads
  PROVE  IsFiniteSet(BlocksOfThread(t)) /\ Cardinality(BlocksOfThread(t)) = GrowStep
<1>1. IsFiniteSet({t}) /\ Cardinality({t}) = 1
  BY FS_Singleton
<1>2. IsFiniteSet(BlocksOfThread(t)) /\ Cardinality(BlocksOfThread(t)) = Cardinality({t}) * Cardinality(1 .. GrowStep)
  BY <1>1, Numbers, FS_Product DEF BlocksOfThread
<1>3. 1 * GrowStep = GrowStep
  OBVIOUS
<1> QED
  BY <1>1, <1>2, <1>3, Numbers

LEMMA NextBlocks == \A n \in Nat : BlocksOf(n) \in Int /\ BlocksOf(n + 1) = BlocksOf(n) + GrowStep
<1> TAKE n \in Nat
<1>1. GrowStep * ((n + 1) - 1) = GrowStep * (n - 1) + GrowStep
  OBVIOUS
<1> QED
  BY <1>1 DEF BlocksOf

\* When the counters stay explained: the sums do not fall, and a counter is stored from
\* what its thread has loaded.
LEMMA CountersKept ==
  ASSUME PoolTypeOK, PoolTypeOK', CountersExplained, Loaded,
         Made' >= Made,
         Cardinality(created') - Cardinality(ToCount') >= Cardinality(created) - Cardinality(ToCount),
         \/ UNCHANGED GrowCount
         \/ \E t \in Threads : op[t] = "ext_store" /\ GrowCount' = reg[t] + 1 /\ Made' = Made + GrowStep,
         \/ UNCHANGED m_BlockTotalCount
         \/ \E t \in Threads :
              /\ op[t] = "total_store" /\ m_BlockTotalCount' = reg[t] + GrowStep
              /\ Cardinality(created') - Cardinality(ToCount') = Cardinality(created) - Cardinality(ToCount) + GrowStep,
         \A u \in Threads : op'[u] = "ext_store" =>
            (op[u] = "ext_store" /\ reg'[u] = reg[u]) \/ reg'[u] = GrowCount,
         \A u \in Threads : op'[u] = "total_store" =>
            (op[u] = "total_store" /\ reg'[u] = reg[u]) \/ reg'[u] = m_BlockTotalCount
  PROVE  CountersExplained' /\ Loaded'
<1>1. /\ Cardinality(created) \in Nat /\ Cardinality(created') \in Nat
      /\ Cardinality(ToPush) \in Nat /\ Cardinality(ToPush') \in Nat
      /\ Cardinality(ToCount) \in Nat /\ Cardinality(ToCount') \in Nat
  <2>1. created \subseteq Elems /\ created' \subseteq Elems
    BY DEF PoolTypeOK
  <2>2. Cardinality(created) \in Nat /\ Cardinality(ToPush) \in Nat /\ Cardinality(ToCount) \in Nat
    BY <2>1, Finite
  <2>3. (created \subseteq Elems => Cardinality(created) \in Nat /\ Cardinality(ToPush) \in Nat /\ Cardinality(ToCount) \in Nat)'
    BY Finite, PTL
  <2> QED
    BY <2>1, <2>2, <2>3
<1>2. Made \in Nat /\ Made' \in Nat
  BY SMTT(30), <1>1 DEF Made
<1>3. \A u \in Threads : reg[u] \in Nat /\ reg'[u] \in Nat
  BY DEF PoolTypeOK
<1>4. GrowCount \in Nat /\ GrowCount' \in Nat /\ m_BlockTotalCount \in Nat /\ m_BlockTotalCount' \in Nat
  BY DEF PoolTypeOK
<1>5. BlocksOf(GrowCount) <= Made /\ m_BlockTotalCount + Cardinality(ToCount) <= Cardinality(created)
  BY DEF CountersExplained, GrowthNotAbove, TotalNotAbove
<1>6. \A n \in Nat : BlocksOf(n) \in Int /\ (BlocksOf(n) <= Made => BlocksOf(n) <= Made')
  <2>1. Made' >= Made
    OBVIOUS
  <2>2. \A n \in Nat : BlocksOf(n) \in Int
    BY NextBlocks
  <2> QED
    BY ONLY <1>2, <2>1, <2>2
<1>7. BlocksOf(GrowCount') <= Made'
  <2>1. CASE UNCHANGED GrowCount
    BY <1>4, <1>5, <1>6, <2>1
  <2>2. CASE ~ UNCHANGED GrowCount
    <3>1. PICK t \in Threads : op[t] = "ext_store" /\ GrowCount' = reg[t] + 1 /\ Made' = Made + GrowStep
      BY <2>2
    <3>2. BlocksOf(reg[t]) <= Made /\ BlocksOf(reg[t]) \in Int
      BY <1>3, <1>6, <3>1 DEF Loaded
    <3>3. BlocksOf(GrowCount') = BlocksOf(reg[t]) + GrowStep
      BY <1>3, <3>1, NextBlocks
    <3> QED
      BY <1>2, <3>1, <3>2, <3>3
  <2> QED
    BY <2>1, <2>2
<1> DEFINE free == Cardinality(created) - Cardinality(ToCount)
           freeNext == Cardinality(created') - Cardinality(ToCount')
<1>8. /\ free \in Int /\ freeNext \in Int /\ freeNext >= free
      /\ \A n \in Nat : (n + Cardinality(ToCount) <= Cardinality(created)) = (n <= free)
      /\ \A n \in Nat : (n + Cardinality(ToCount') <= Cardinality(created')) = (n <= freeNext)
  <2>1. freeNext >= free
    OBVIOUS
  <2> QED
    BY ONLY <1>1, <2>1
<1>9. m_BlockTotalCount' + Cardinality(ToCount') <= Cardinality(created')
  <2>1. CASE UNCHANGED m_BlockTotalCount
    BY ONLY <1>4, <1>5, <1>8, <2>1
  <2>2. CASE ~ UNCHANGED m_BlockTotalCount
    <3>1. PICK t \in Threads :
             /\ op[t] = "total_store" /\ m_BlockTotalCount' = reg[t] + GrowStep
             /\ Cardinality(created') - Cardinality(ToCount') = Cardinality(created) - Cardinality(ToCount) + GrowStep
      BY <2>2
    <3>2. reg[t] + Cardinality(ToCount) <= Cardinality(created)
      BY <3>1 DEF Loaded
    <3>3. freeNext = free + GrowStep /\ reg[t] <= free
      BY <1>3, <1>8, <3>1, <3>2
    <3> HIDE DEF free, freeNext
    <3> QED
      BY <1>3, <1>8, <3>1, <3>3
  <2> QED
    BY <2>1, <2>2
<1>10. Loaded'
  <2> SUFFICES ASSUME NEW u \in Threads
               PROVE  /\ op'[u] = "ext_store" => BlocksOf(reg'[u]) <= Made'
                      /\ op'[u] = "total_store" => reg'[u] + Cardinality(ToCount') <= Cardinality(created')
    BY DEF Loaded, BlocksOf
  <2>1. ASSUME op'[u] = "ext_store"
        PROVE  BlocksOf(reg'[u]) <= Made'
    <3>1. (op[u] = "ext_store" /\ reg'[u] = reg[u]) \/ reg'[u] = GrowCount
      BY <2>1
    <3>2. BlocksOf(reg'[u]) <= Made
      BY <1>5, <3>1 DEF Loaded
    <3> QED
      BY <1>3, <1>6, <3>2
  <2>2. ASSUME op'[u] = "total_store"
        PROVE  reg'[u] + Cardinality(ToCount') <= Cardinality(created')
    <3>1. (op[u] = "total_store" /\ reg'[u] = reg[u]) \/ reg'[u] = m_BlockTotalCount
      BY <2>2
    <3>2. reg'[u] + Cardinality(ToCount) <= Cardinality(created)
      BY <1>5, <3>1 DEF Loaded
    <3> QED
      BY ONLY <1>3, <1>8, <3>2
  <2> QED
    BY <2>1, <2>2
<1> QED
  BY <1>7, <1>9, <1>10 DEF CountersExplained, GrowthNotAbove, TotalNotAbove, BlocksOf
-----------------------------------------------------------------------------
(* What each step does to the sums                                          *)

InLoop(o) == o \in {"ext_push", "ext_pushing"}
InTotal(o) == o \in {"total_load", "total_store"}

LEMMA Places ==
  ASSUME NEW b \in Threads \X (1 .. GrowStep)
  PROVE  /\ b[1] \in Threads /\ b[2] \in 1 .. GrowStep /\ b = <<b[1], b[2]>>
         /\ b \in ToPush <=> b[2] <= left[b[1]]
         /\ b \in ToCount <=> (InLoop(op[b[1]]) /\ b[2] > left[b[1]]) \/ InTotal(op[b[1]])
         /\ b \in ToPush' <=> b[2] <= left'[b[1]]
         /\ b \in ToCount' <=> (InLoop(op'[b[1]]) /\ b[2] > left'[b[1]]) \/ InTotal(op'[b[1]])
BY DEF ToPush, ToCount, InLoop, InTotal

LEMMA Within ==
  /\ ToPush \subseteq Threads \X (1 .. GrowStep) /\ ToPush' \subseteq Threads \X (1 .. GrowStep)
  /\ ToCount \subseteq Threads \X (1 .. GrowStep) /\ ToCount' \subseteq Threads \X (1 .. GrowStep)
BY DEF ToPush, ToCount

\* A step that leaves the thread where it is, or takes it out of a loop that is done.
LEMMA SameSums ==
  ASSUME UNCHANGED left,
         \A u \in Threads :
            \/ InLoop(op'[u]) = InLoop(op[u]) /\ InTotal(op'[u]) = InTotal(op[u])
            \/ left[u] = 0 /\ InLoop(op[u]) /\ InTotal(op'[u])
  PROVE  ToPush' = ToPush /\ ToCount' = ToCount
<1>1. ToPush' = ToPush
  BY Places, Within
<1>2. ASSUME NEW b \in Threads \X (1 .. GrowStep)
      PROVE  b \in ToCount' <=> b \in ToCount
  <2>1. CASE InLoop(op'[b[1]]) = InLoop(op[b[1]]) /\ InTotal(op'[b[1]]) = InTotal(op[b[1]])
    BY <2>1, Places
  <2>2. CASE left[b[1]] = 0 /\ InLoop(op[b[1]]) /\ InTotal(op'[b[1]])
    <3>1. b[2] > left[b[1]]
      BY <2>2, Places
    <3> QED
      BY <2>2, <3>1, Places
  <2> QED
    BY <2>1, <2>2, Places
<1> QED
  BY <1>1, <1>2, Within

\* One block of a loop is pushed.
LEMMA PushSums ==
  ASSUME NEW t \in Threads, NEW block \in fresh, PoolTypeOK,
         InLoop(op[t]), left[t] > 0,
         created' = created \cup {block}, left' = [left EXCEPT ![t] = @ - 1],
         \A u \in Threads : InLoop(op'[u]) = InLoop(op[u]) /\ InTotal(op'[u]) = InTotal(op[u])
  PROVE  /\ Cardinality(created') = Cardinality(created) + 1
         /\ Cardinality(ToPush') = Cardinality(ToPush) - 1
         /\ Cardinality(ToCount') = Cardinality(ToCount) + 1
<1> DEFINE last == <<t, left[t]>>
<1>1. /\ left \in [Threads -> 0 .. GrowStep] /\ left[t] \in 1 .. GrowStep
      /\ \A u \in Threads : left'[u] = IF u = t THEN left[u] - 1 ELSE left[u]
  BY DEF PoolTypeOK
<1>2. last \in Threads \X (1 .. GrowStep) /\ last[1] = t /\ last[2] = left[t]
  BY <1>1
<1>3. ASSUME NEW b \in Threads \X (1 .. GrowStep)
      PROVE  /\ b[2] <= left'[b[1]] <=> b[2] <= left[b[1]] /\ b # last
             /\ b[2] > left'[b[1]] <=> b[2] > left[b[1]] \/ b = last
             /\ b[1] = t => InLoop(op[b[1]])
  BY <1>1, Places
<1>4. InLoop(op[t]) /\ ~ InTotal(op[t])
  BY DEF InLoop, InTotal
<1>5. ToPush' = ToPush \ {last} /\ last \in ToPush
  BY <1>1, <1>2, <1>3, Places, Within
<1>6. ToCount' = ToCount \cup {last}
  <2>1. ASSUME NEW b \in Threads \X (1 .. GrowStep)
        PROVE  b \in ToCount' <=> b \in ToCount \/ b = last
    <3>1. b[1] \in Threads
      BY Places
    <3>2. b = last => InLoop(op[b[1]])
      BY <1>2
    <3> QED
      BY <1>3, <3>1, <3>2, Places
  <2> QED
    BY <1>2, <2>1, Within
<1>7. last \notin ToCount
  BY <1>1, <1>2, <1>4, Places
<1>8. IsFiniteSet(created) /\ IsFiniteSet(ToPush) /\ IsFiniteSet(ToCount)
  BY Finite DEF PoolTypeOK
<1>9. block \notin created
  BY DEF fresh
<1> HIDE DEF last
<1> QED
  BY <1>5, <1>6, <1>7, <1>8, <1>9, FS_AddElement, FS_RemoveElement, FS_CardinalityType

\* An extension begins.
LEMMA BeginSums ==
  ASSUME NEW t \in Threads, PoolTypeOK, left[t] = 0,
         ~ InLoop(op[t]), ~ InTotal(op[t]), InLoop(op'[t]),
         left' = [left EXCEPT ![t] = GrowStep],
         \A u \in Threads \ {t} : op'[u] = op[u]
  PROVE  /\ Cardinality(ToPush') = Cardinality(ToPush) + GrowStep
         /\ ToCount' = ToCount
<1>1. /\ left \in [Threads -> 0 .. GrowStep]
      /\ \A u \in Threads : left'[u] = IF u = t THEN GrowStep ELSE left[u]
  BY DEF PoolTypeOK
<1>2. ~ InTotal(op'[t])
  BY DEF InLoop, InTotal
<1>3. ToPush' = ToPush \cup BlocksOfThread(t)
  <2>1. ASSUME NEW b \in Threads \X (1 .. GrowStep)
        PROVE  b \in ToPush' <=> b \in ToPush \/ b \in BlocksOfThread(t)
    <3>1. b \in BlocksOfThread(t) <=> b[1] = t
      BY Places DEF BlocksOfThread
    <3> QED
      BY <1>1, <3>1, Places
  <2>2. BlocksOfThread(t) \subseteq Threads \X (1 .. GrowStep)
    BY DEF BlocksOfThread
  <2> QED
    BY <2>1, <2>2, Within
<1>4. ToPush \cap BlocksOfThread(t) = {}
  <2>1. ASSUME NEW b \in ToPush, b \in BlocksOfThread(t) PROVE FALSE
    <3>1. b \in Threads \X (1 .. GrowStep) /\ b[1] = t
      BY <2>1, Within DEF BlocksOfThread
    <3> QED
      BY <3>1, Places
  <2> QED
    BY <2>1
<1>5. ToCount' = ToCount
  <2>1. ASSUME NEW b \in Threads \X (1 .. GrowStep)
        PROVE  b \in ToCount' <=> b \in ToCount
    <3>1. CASE b[1] = t
      <4>1. b \notin ToCount
        BY <3>1, Places
      <4>2. ~ (b[2] > left'[b[1]])
        BY <1>1, <3>1, Places
      <4> QED
        BY <1>2, <3>1, <4>1, <4>2, Places
    <3>2. CASE b[1] # t
      BY <1>1, <3>2, Places
    <3> QED
      BY <3>1, <3>2
  <2> QED
    BY <2>1, Within
<1>6. IsFiniteSet(ToPush) /\ Cardinality(ToPush) \in Nat
  BY Finite DEF PoolTypeOK
<1>7. Cardinality(ToPush') = Cardinality(ToPush) + Cardinality(BlocksOfThread(t)) - Cardinality(ToPush \cap BlocksOfThread(t))
  BY <1>3, <1>6, OneExtension, FS_Union
<1>8. Cardinality(ToPush \cap BlocksOfThread(t)) = 0
  BY ONLY <1>4, FS_EmptySet
<1>9. Cardinality(BlocksOfThread(t)) = GrowStep
  BY OneExtension
<1>10. Cardinality(ToPush') = Cardinality(ToPush) + GrowStep
  BY ONLY <1>6, <1>7, <1>8, <1>9, GrowStep \in Nat
<1> QED
  BY <1>5, <1>10

\* The blocks of an extension are counted.
LEMMA CountSums ==
  ASSUME NEW t \in Threads, PoolTypeOK, InTotal(op[t]), ~ InLoop(op'[t]), ~ InTotal(op'[t]),
         UNCHANGED left, \A u \in Threads \ {t} : op'[u] = op[u]
  PROVE  ToPush' = ToPush /\ Cardinality(ToCount') = Cardinality(ToCount) - GrowStep
<1>1. ToPush' = ToPush
  BY Places, Within
<1>2. BlocksOfThread(t) \subseteq ToCount
  <2>1. ASSUME NEW b \in BlocksOfThread(t) PROVE b \in ToCount
    <3>1. b \in Threads \X (1 .. GrowStep) /\ b[1] = t
      BY DEF BlocksOfThread
    <3> QED
      BY <3>1, Places
  <2> QED
    BY <2>1
<1>3. ToCount' = ToCount \ BlocksOfThread(t)
  <2>1. ASSUME NEW b \in Threads \X (1 .. GrowStep)
        PROVE  b \in ToCount' <=> b \in ToCount /\ b \notin BlocksOfThread(t)
    <3>1. b \in BlocksOfThread(t) <=> b[1] = t
      BY Places DEF BlocksOfThread
    <3>2. CASE b[1] = t
      BY <3>1, <3>2, Places
    <3>3. CASE b[1] # t
      BY <3>1, <3>3, Places
    <3> QED
      BY <3>2, <3>3
  <2> QED
    BY <2>1, Within
<1>4. IsFiniteSet(ToCount)
  BY Finite DEF PoolTypeOK
<1>5. ToCount \cap BlocksOfThread(t) = BlocksOfThread(t)
  BY <1>2
<1>6. Cardinality(ToCount') = Cardinality(ToCount) - Cardinality(ToCount \cap BlocksOfThread(t))
  BY <1>3, <1>4, FS_Difference
<1> QED
  BY <1>1, <1>5, <1>6, OneExtension
-----------------------------------------------------------------------------
(* The steps keep the counters explained                                    *)

\* Only an extension has blocks to push.
LEMMA LeftStep ==
  ASSUME PoolTypeOK, LeftInLoop, PoolNext
  PROVE  LeftInLoop'
<1> USE DEF LeftInLoop, InLoop
<1>1. op \in [Threads -> Ops] /\ left \in [Threads -> 0 .. GrowStep]
  BY DEF PoolTypeOK
<1>2. ASSUME NEW t \in Threads, NEW label, GoOn(t, label)
      PROVE  \A u \in Threads : op'[u] = IF u = t THEN label ELSE op[u]
  BY <1>1, <1>2 DEF GoOn
<1>3. ASSUME NEW t \in Threads, NEW label, GoOn(t, label), UNCHANGED left,
             InLoop(label) \/ left[t] = 0
      PROVE  LeftInLoop'
  BY <1>2, <1>3
<1>4. ASSUME NEW t \in Threads, GetBlock(t)
      PROVE  LeftInLoop'
  BY <1>3, <1>4 DEF GetBlock, Branch
<1>5. ASSUME NEW t \in Threads, NEW b \in Elems, FreeBlock(t, b)
      PROVE  LeftInLoop'
  BY <1>3, <1>5 DEF FreeBlock
<1>6. ASSUME NEW t \in Threads, PoolStep(t)
      PROVE  LeftInLoop'
  <2>1. CASE GetSize(t) \/ ExtendRefuse(t) \/ ExtendAllowed(t) \/ ExtendDone(t)
    BY <1>3, <2>1 DEF GetSize, ExtendRefuse, ExtendAllowed, ExtendDone, Branch
  <2>2. CASE GrowLoad(t) \/ TotalLoad(t) \/ TotalStore(t)
    BY <1>3, <2>2 DEF GrowLoad, TotalLoad, TotalStore
  <2>3. CASE GrowStore(t)
    <3>1. \A u \in Threads : left'[u] = IF u = t THEN GrowStep ELSE left[u]
      BY <1>1, <2>3 DEF GrowStore
    <3> QED
      BY <1>2, <2>3, <3>1 DEF GrowStore
  <2>4. CASE ExtendPush(t)
    <3>1. \A u \in Threads : u # t => left'[u] = left[u]
      BY <1>1, <2>4 DEF ExtendPush
    <3> QED
      BY <1>2, <2>4, <3>1 DEF ExtendPush
  <2>5. CASE ExtendPushed(t) \/ ExtendPushRefused(t)
    BY <1>3, <2>5 DEF ExtendPushed, ExtendPushRefused
  <2>6. CASE GetPop(t) \/ GetPopped(t) \/ GetNull(t) \/ Freed(t) \/ FreeRefused(t)
    BY <1>3, <2>6 DEF GetPop, GetPopped, GetNull, Freed, FreeRefused
  <2>7. CASE QueueStep(t)
    BY <2>7 DEF QueueStep, poolVars
  <2> QED
    BY <1>6, <2>1, <2>2, <2>3, <2>4, <2>5, <2>6, <2>7 DEF PoolStep
<1> QED
  BY <1>4, <1>5, <1>6 DEF PoolNext

\* A step of the pool that changes no sum and stores no counter: what a thread loads for
\* its next store is the counter as it is.
LEMMA PlainStep ==
  ASSUME PoolTypeOK, PoolTypeOK', LeftInLoop, CountersExplained, Loaded,
         NEW t \in Threads, NEW label, GoOn(t, label),
         UNCHANGED <<created, left, GrowCount, m_BlockTotalCount>>,
         \/ InLoop(label) = InLoop(op[t]) /\ InTotal(label) = InTotal(op[t])
         \/ left[t] = 0 /\ InLoop(op[t]) /\ InTotal(label),
         \A u \in Threads \ {t} : reg'[u] = reg[u],
         label = "ext_store" => reg'[t] = GrowCount,
         label = "total_store" => reg'[t] = m_BlockTotalCount
  PROVE  CountersExplained' /\ Loaded'
<1>1. \A u \in Threads : op'[u] = IF u = t THEN label ELSE op[u]
  BY DEF PoolTypeOK, GoOn
<1>2. ToPush' = ToPush /\ ToCount' = ToCount
  BY <1>1, SameSums
<1>3. /\ Made \in Int
      /\ Cardinality(created) - Cardinality(ToCount) \in Int
  BY Finite DEF PoolTypeOK, Made
<1>4. Made' >= Made
  BY <1>2, <1>3 DEF Made
<1>5. Cardinality(created') - Cardinality(ToCount') >= Cardinality(created) - Cardinality(ToCount)
  BY <1>2, <1>3
<1>6. ASSUME NEW u \in Threads, op'[u] = "ext_store"
      PROVE  (op[u] = "ext_store" /\ reg'[u] = reg[u]) \/ reg'[u] = GrowCount
  BY <1>1, <1>6
<1>7. ASSUME NEW u \in Threads, op'[u] = "total_store"
      PROVE  (op[u] = "total_store" /\ reg'[u] = reg[u]) \/ reg'[u] = m_BlockTotalCount
  BY <1>1, <1>7
<1> QED
  BY <1>4, <1>5, <1>6, <1>7, CountersKept

LEMMA CountersStep ==
  ASSUME PoolTypeOK, PoolTypeOK', LeftInLoop, CountersExplained, Loaded, PoolNext
  PROVE  CountersExplained' /\ Loaded'
<1>1. /\ op \in [Threads -> Ops] /\ left \in [Threads -> 0 .. GrowStep] /\ reg \in [Threads -> Nat]
      /\ created \subseteq Elems /\ created' \subseteq Elems
  BY DEF PoolTypeOK
<1>2. ASSUME NEW t \in Threads, NEW from, NEW label, Branch(t, from, label),
             InLoop(label) = InLoop(from) /\ InTotal(label) = InTotal(from),
             label \notin {"ext_store", "total_store"}
      PROVE  CountersExplained' /\ Loaded'
  BY <1>2, PlainStep DEF Branch, blockVars, growVars
<1>3. ASSUME NEW t \in Threads, GetBlock(t)
      PROVE  CountersExplained' /\ Loaded'
  BY <1>2, <1>3 DEF GetBlock, InLoop, InTotal
<1>4. ASSUME NEW t \in Threads, NEW b \in Elems, FreeBlock(t, b)
      PROVE  CountersExplained' /\ Loaded'
  BY <1>4, PlainStep DEF FreeBlock, growVars, InLoop, InTotal
<1>5. ASSUME NEW t \in Threads, PoolStep(t)
      PROVE  CountersExplained' /\ Loaded'
  <2> DEFINE known == Cardinality(created) - Cardinality(ToCount)
             knownNext == Cardinality(created') - Cardinality(ToCount')
  <2>1. CASE GetSize(t) \/ ExtendRefuse(t) \/ ExtendAllowed(t)
    BY <1>2, <2>1 DEF GetSize, ExtendRefuse, ExtendAllowed, InLoop, InTotal
  <2>2. CASE ExtendDone(t)
    BY <2>2, PlainStep DEF ExtendDone, Branch, blockVars, growVars, InLoop, InTotal
  <2>3. CASE GrowLoad(t)
    <3>1. reg'[t] = GrowCount /\ \A u \in Threads \ {t} : reg'[u] = reg[u]
      BY <1>1, <2>3 DEF GrowLoad
    <3>2. InLoop("ext_store") = InLoop(op[t]) /\ InTotal("ext_store") = InTotal(op[t])
      BY <2>3 DEF GrowLoad, InLoop, InTotal
    <3>3. GoOn(t, "ext_store") /\ UNCHANGED <<created, left, GrowCount, m_BlockTotalCount>>
      BY <2>3 DEF GrowLoad, blockVars
    <3> QED
      BY <3>1, <3>2, <3>3, PlainStep
  <2>4. CASE TotalLoad(t)
    <3>1. reg'[t] = m_BlockTotalCount /\ \A u \in Threads \ {t} : reg'[u] = reg[u]
      BY <1>1, <2>4 DEF TotalLoad
    <3>2. InLoop("total_store") = InLoop(op[t]) /\ InTotal("total_store") = InTotal(op[t])
      BY <2>4 DEF TotalLoad, InLoop, InTotal
    <3>3. GoOn(t, "total_store") /\ UNCHANGED <<created, left, GrowCount, m_BlockTotalCount>>
      BY <2>4 DEF TotalLoad, blockVars
    <3> QED
      BY <3>1, <3>2, <3>3, PlainStep
  <2>5. CASE ExtendPushed(t) \/ ExtendPushRefused(t)
    BY <2>5, PlainStep DEF ExtendPushed, ExtendPushRefused, blockVars, growVars, InLoop, InTotal
  <2>6. CASE GetPop(t) \/ GetPopped(t) \/ GetNull(t)
    BY <2>6, PlainStep DEF GetPop, GetPopped, GetNull, blockVars, growVars, InLoop, InTotal
  <2>7. CASE Freed(t) \/ FreeRefused(t)
    BY <2>7, PlainStep DEF Freed, FreeRefused, blockVars, growVars, InLoop, InTotal
  <2>8. ASSUME NEW label, GoOn(t, label)
        PROVE  /\ op'[t] = label /\ \A u \in Threads \ {t} : op'[u] = op[u]
               /\ \A u \in Threads : op'[u] = IF u = t THEN label ELSE op[u]
    BY <1>1, <2>8 DEF GoOn
  <2>9. /\ Cardinality(created) \in Nat /\ Cardinality(ToPush) \in Nat /\ Cardinality(ToCount) \in Nat
    BY <1>1, Finite
  <2>10. CASE GrowStore(t)
    <3>1. /\ op[t] = "ext_store" /\ GrowCount' = reg[t] + 1 /\ GoOn(t, "ext_push")
          /\ UNCHANGED <<created, m_BlockTotalCount>>
          /\ left' = [left EXCEPT ![t] = GrowStep] /\ reg' = [reg EXCEPT ![t] = 0]
      BY <2>10 DEF GrowStore, blockVars
    <3>2. left[t] = 0
      BY <3>1 DEF LeftInLoop
    <3>3. op'[t] = "ext_push" /\ \A u \in Threads \ {t} : op'[u] = op[u]
      BY <2>8, <3>1
    <3>4. Cardinality(ToPush') = Cardinality(ToPush) + GrowStep /\ ToCount' = ToCount
      BY <3>1, <3>2, <3>3, BeginSums DEF InLoop, InTotal
    <3>5. Made' = Made + GrowStep /\ Made' >= Made /\ knownNext >= known
      BY <2>9, <3>1, <3>4 DEF Made
    <3>6. \A u \in Threads \ {t} : reg'[u] = reg[u]
      BY <1>1, <3>1
    <3>7. ASSUME NEW u \in Threads, op'[u] \in {"ext_store", "total_store"}
          PROVE  op'[u] = op[u] /\ reg'[u] = reg[u]
      BY <3>3, <3>6, <3>7
    <3> QED
      BY <3>1, <3>5, <3>7, CountersKept
  <2>11. CASE TotalStore(t)
    <3>1. /\ op[t] = "total_store" /\ m_BlockTotalCount' = reg[t] + GrowStep /\ GoOn(t, "pop")
          /\ UNCHANGED <<created, GrowCount, left>> /\ reg' = [reg EXCEPT ![t] = 0]
      BY <2>11 DEF TotalStore, blockVars
    <3>2. op'[t] = "pop" /\ \A u \in Threads \ {t} : op'[u] = op[u]
      BY <2>8, <3>1
    <3>3. ToPush' = ToPush /\ Cardinality(ToCount') = Cardinality(ToCount) - GrowStep
      BY <3>1, <3>2, CountSums DEF InLoop, InTotal
    <3>4. Made' >= Made /\ knownNext = known + GrowStep /\ knownNext >= known
      BY <2>9, <3>1, <3>3 DEF Made
    <3>5. \A u \in Threads \ {t} : reg'[u] = reg[u]
      BY <1>1, <3>1
    <3>6. ASSUME NEW u \in Threads, op'[u] \in {"ext_store", "total_store"}
          PROVE  op'[u] = op[u] /\ reg'[u] = reg[u]
      BY <3>2, <3>5, <3>6
    <3> QED
      BY <3>1, <3>4, <3>6, CountersKept
  <2>12. CASE ExtendPush(t)
    <3>1. PICK block \in fresh : created' = created \cup {block}
      BY <2>12 DEF ExtendPush
    <3>2. /\ op[t] = "ext_push" /\ left[t] > 0 /\ GoOn(t, "ext_pushing")
          /\ left' = [left EXCEPT ![t] = @ - 1]
          /\ UNCHANGED <<GrowCount, m_BlockTotalCount, reg>>
      BY <2>12 DEF ExtendPush, growVars
    <3>3. \A u \in Threads : op'[u] = IF u = t THEN "ext_pushing" ELSE op[u]
      BY <2>8, <3>2
    <3>4. \A u \in Threads : InLoop(op'[u]) = InLoop(op[u]) /\ InTotal(op'[u]) = InTotal(op[u])
      BY <3>2, <3>3 DEF InLoop, InTotal
    <3>5. /\ Cardinality(created') = Cardinality(created) + 1
          /\ Cardinality(ToPush') = Cardinality(ToPush) - 1
          /\ Cardinality(ToCount') = Cardinality(ToCount) + 1
      BY <3>1, <3>2, <3>4, PushSums DEF InLoop
    <3>6. Made' >= Made /\ knownNext >= known
      BY SMTT(30), <2>9, <3>5 DEF Made
    <3>7. ASSUME NEW u \in Threads, op'[u] \in {"ext_store", "total_store"}
          PROVE  op'[u] = op[u] /\ reg'[u] = reg[u]
      BY <3>2, <3>3, <3>7
    <3> QED
      BY <3>2, <3>6, <3>7, CountersKept
  <2>13. CASE QueueStep(t)
    <3>1. UNCHANGED <<created, left, op, reg, GrowCount, m_BlockTotalCount>>
      BY <2>13 DEF QueueStep, poolVars, blockVars, growVars
    <3>2. ToPush' = ToPush /\ ToCount' = ToCount
      BY <3>1, SameSums
    <3>3. Made' >= Made /\ knownNext >= known
      BY <2>9, <3>1, <3>2 DEF Made
    <3> QED
      BY <3>1, <3>3, CountersKept
  <2> QED
    BY <1>5, <2>1, <2>2, <2>3, <2>4, <2>5, <2>6, <2>7, <2>10, <2>11, <2>12, <2>13 DEF PoolStep
<1> QED
  BY <1>3, <1>4, <1>5 DEF PoolNext
-----------------------------------------------------------------------------
(* The invariant                                                            *)

\* CreatPool's blocks are all there are, and no extension runs.
LEMMA PoolInvInit == PoolInit => PoolInv
<1> SUFFICES ASSUME PoolInit PROVE PoolInv
  OBVIOUS
<1>1. Inv
  BY FilledQueue
<1>2. Len(InitBlocks) \in Nat /\ \A k \in 1 .. Len(InitBlocks) : InitBlocks[k] \in Elems
  OBVIOUS
<1>3. /\ created = {InitBlocks[k] : k \in 1 .. Len(InitBlocks)} /\ outside = Elems \ created
      /\ held = {} /\ lost = {} /\ GrowCount = 1 /\ m_BlockTotalCount = Len(InitBlocks)
      /\ op = [t \in Threads |-> "none"] /\ reg = [t \in Threads |-> 0] /\ left = [t \in Threads |-> 0]
  BY DEF PoolInit
<1>4. PoolTypeOK
  BY <1>2, <1>3 DEF PoolTypeOK, Ops
<1>5. Accounts
  BY <1>3 DEF Accounts, fresh
<1>6. LeftInLoop /\ Loaded
  BY <1>3 DEF LeftInLoop, Loaded
<1>7. Cardinality(ToPush) = 0 /\ Cardinality(ToCount) = 0
  <2>1. ToPush = {} /\ ToCount = {}
    BY <1>3, Places, Within DEF InLoop, InTotal
  <2> QED
    BY <2>1, FS_EmptySet
<1>8. Cardinality(created) = Len(InitBlocks)
  <2> DEFINE n == Len(InitBlocks)
             block == [k \in 1 .. n |-> InitBlocks[k]]
  <2>1. block \in Bijection(1 .. n, created)
    BY <1>2, <1>3 DEF Bijection, Injection, Surjection, IsInjective
  <2>2. IsFiniteSet(1 .. n) /\ Cardinality(1 .. n) = n
    <3> HIDE DEF n
    <3>1. n \in Nat
      BY <1>2 DEF n
    <3> QED
      BY <3>1, Numbers
  <2>3. Cardinality(1 .. n) = Cardinality(created)
    <3> HIDE DEF n, block
    <3>1. ExistsBijection(1 .. n, created)
      BY <2>1 DEF ExistsBijection
    <3> QED
      BY <2>2, <3>1, FS_Bijection
  <2> QED
    BY <2>2, <2>3
<1>9. CountersExplained
  <2>1. BlocksOf(1) = Len(InitBlocks)
    BY <1>2 DEF BlocksOf
  <2> QED
    <3> DEFINE n == Len(InitBlocks)
    <3>0. n \in Nat /\ GrowCount = 1 /\ m_BlockTotalCount = n /\ Cardinality(created) = n
      BY <1>2, <1>3, <1>8
    <3> HIDE DEF n
    <3>1. Made = n /\ GrowCount = 1
      BY ONLY <3>0, <1>7 DEF Made
    <3>2. m_BlockTotalCount + Cardinality(ToCount) <= Cardinality(created)
      BY ONLY <3>0, <1>7
    <3>3. BlocksOf(GrowCount) <= Made
      BY <2>1, <3>0, <3>1 DEF n
    <3> QED
      BY <3>2, <3>3 DEF CountersExplained, GrowthNotAbove, TotalNotAbove
<1> QED
  BY <1>1, <1>4, <1>5, <1>6, <1>9 DEF PoolInv

LEMMA PoolInvStep == PoolInv /\ [PoolNext \/ PoolQuiet]_allVars => PoolInv'
<1> SUFFICES ASSUME PoolInv, [PoolNext \/ PoolQuiet]_allVars
             PROVE  PoolInv'
  OBVIOUS
<1>1. Inv /\ PoolTypeOK /\ Accounts /\ LeftInLoop /\ CountersExplained /\ Loaded
  BY DEF PoolInv
<1>2. Inv'
  BY <1>1, QueueSteps, InvStep
<1>3. CASE PoolNext
  BY <1>1, <1>2, <1>3, AccountsStep, PoolTypeStep, LeftStep, CountersStep DEF PoolInv
<1>4. CASE UNCHANGED allVars
  <2>1. UNCHANGED <<created, held, lost, GrowCount, m_BlockTotalCount, op, reg, left, outside>>
    BY <1>4 DEF allVars, poolVars, queueVars, blockVars, growVars, vars
  <2>2. PoolTypeOK' /\ Accounts' /\ LeftInLoop'
    BY <1>1, <2>1 DEF PoolTypeOK, Accounts, fresh, LeftInLoop
  <2>3. CountersExplained' /\ Loaded'
    BY <1>1, <2>1 DEF CountersExplained, GrowthNotAbove, TotalNotAbove, Loaded, Made, ToPush, ToCount
  <2> QED
    BY <1>2, <2>2, <2>3 DEF PoolInv
<1> QED
  BY <1>3, <1>4 DEF PoolQuiet

\* PoolInv holds always: the pool keeps the discipline of the queue that its free blocks
\* are in, its accounts, and what its threads have loaded of the two plain counters.
THEOREM PoolInvHolds == PoolSpec => []PoolInv
BY PoolInvInit, PoolInvStep, PTL DEF PoolSpec

\* GetBlock never gives out a block that somebody holds or that is in the queue, and only a
\* refused Push loses one.
THEOREM BlocksStayAccounted == PoolSpec => []BlocksAccounted
<1>1. PoolInv => BlocksAccounted
  BY InvOnePlace DEF PoolInv, BlocksAccounted
<1> QED
  BY <1>1, PoolInvHolds, PTL

\* The lost updates of GrowCount and m_BlockTotalCount go one way only: neither stands for a
\* block that has not been made.
THEOREM CountersStayExplained == PoolSpec => []CountersExplained
<1>1. PoolInv => CountersExplained
  BY DEF PoolInv
<1> QED
  BY <1>1, PoolInvHolds, PTL

\* The positions in use of the ring that holds the free blocks have slots of their own,
\* also when the extensions push at the same time as FreeBlock.
THEOREM PoolSlotsApart == PoolSpec => []SlotsApart
<1>1. PoolInv => SlotsApart
  BY Apart DEF PoolInv, Inv
<1> QED
  BY <1>1, PoolInvHolds, PTL
=============================================================================
