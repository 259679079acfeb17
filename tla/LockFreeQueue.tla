---------------------------- MODULE LockFreeQueue ----------------------------
(***************************************************************************)
(* CLockFreeQueue (inc/LockFreeQueue.h): the array queue in which CMemPool  *)
(* keeps its free blocks.  Any thread may call Push and Pop; one action is  *)
(* one access to a shared member (the build is -O0, so accesses happen in   *)
(* the order of the statements).                                            *)
(*                                                                          *)
(* The four members are uint32_t.  The three positions are kept here as the *)
(* number of increments since the constructor ran, and CountToIndex takes   *)
(* the value the register would hold; a compare-and-swap on them differs    *)
(* from the 32-bit one only when exactly COUNTER_MOD increments happen      *)
(* between a load and its CAS.  m_size is kept as the register is.          *)
(***************************************************************************)
EXTENDS Integers, FiniteSets

CONSTANTS
  Threads,      \* the threads that share the queue
  Elems,        \* the elements that circulate: the blocks of the pool
  NoElem,       \* content of a slot nothing was stored in, an empty variable
  QUEUE_LEN,    \* number of slots in use (m_QueueLen)
  COUNTER_MOD,  \* number of values of the counters' type, 2^32
  StartCount,   \* pushes, all popped again, that happened before we look
  MaxCount      \* bound of the model: no push is begun beyond this count

\* The slot of a count, as the code computes it from the wrapped register.
CountToIndex(c) == (c % COUNTER_MOD) % QUEUE_LEN

\* Few elements: as many counts in a row as there are elements have distinct
\* slots.  True of the program: 20 * 1024 * 1024 slots, at most 512000 blocks, and
\* where the registers wrap the slots jump back by 2^32 % QUEUE_LEN = 16777216.
FewElems ==
  \A c \in 0 .. MaxCount, d \in 1 .. (Cardinality(Elems) - 1) :
     c + d <= MaxCount => CountToIndex(c + d) # CountToIndex(c)

\* No jump: the slots are used in turn.  True of any number of elements as long as
\* the registers have not wrapped.
NoJump ==
  \A c \in 0 .. MaxCount, d \in 1 .. QUEUE_LEN :
     c + d <= MaxCount => (CountToIndex(c + d) = CountToIndex(c) <=> d = QUEUE_LEN)

ASSUME QueueAssumption ==
  /\ NoElem \notin Elems
  /\ IsFiniteSet(Threads)
  /\ IsFiniteSet(Elems)
  /\ QUEUE_LEN \in Nat \ {0}
  /\ COUNTER_MOD \in Nat \ {0}
  /\ StartCount \in Nat
  /\ MaxCount \in Nat
  /\ StartCount <= MaxCount
  /\ FewElems \/ NoJump

VARIABLES
  m_Queue,             \* the slots
  m_writeIndex,        \* next count a Push reserves
  m_maximumReadIndex,  \* counts below it are committed
  m_readIndex,         \* counts below it are popped
  m_size,              \* the separate element counter, a uint32_t
  pc,                  \* pc[t]: where t is in Push or Pop, or "idle"
  data,                \* data[t]: parameter of Push, result of Pop
  count,               \* count[t]: currentWriteIndex in Push, currentReadIndex in Pop
  outside              \* the elements in the hands of the callers

vars == <<m_Queue, m_writeIndex, m_maximumReadIndex, m_readIndex, m_size,
          pc, data, count, outside>>

indices == <<m_writeIndex, m_maximumReadIndex, m_readIndex>>

Slots == 0 .. (QUEUE_LEN - 1)

Reserving == {"push_read_w", "push_read_r", "push_cas"}
Reserved == {"push_store", "push_commit"}
Popping == {"pop_read_r", "pop_read_m", "pop_load", "pop_cas"}
PCs == {"idle", "push_count", "pop_count"} \cup Reserving \cup Reserved \cup Popping

-----------------------------------------------------------------------------
Init ==
  /\ m_Queue = [i \in Slots |-> NoElem]
  /\ m_writeIndex = StartCount
  /\ m_maximumReadIndex = StartCount
  /\ m_readIndex = StartCount
  /\ m_size = 0
  /\ pc = [t \in Threads |-> "idle"]
  /\ data = [t \in Threads |-> NoElem]
  /\ count = [t \in Threads |-> 0]
  /\ outside = Elems

\* The pushes that have not reserved a count yet.
ReservingThreads == {t \in Threads : pc[t] \in Reserving}

Goto(t, label) == pc' = [pc EXCEPT ![t] = label]

\* A call returns: the thread's local variables go out of scope, and given is
\* what the caller holds from now on.
Return(t, given) ==
  /\ Goto(t, "idle")
  /\ data' = [data EXCEPT ![t] = NoElem]
  /\ count' = [count EXCEPT ![t] = 0]
  /\ outside' = outside \cup given

-----------------------------------------------------------------------------
(* Push                                                                     *)

\* A caller gives an element it holds to Push.  The bound counts the calls that
\* have yet to reserve a count, so no later step needs it.
PushCall(t, e) ==
  /\ pc[t] = "idle"
  /\ e \in outside
  /\ m_writeIndex + Cardinality(ReservingThreads) < MaxCount
  /\ Goto(t, "push_read_w")
  /\ data' = [data EXCEPT ![t] = e]
  /\ outside' = outside \ {e}
  /\ UNCHANGED <<m_Queue, indices, m_size, count>>

PushReadWrite(t) ==
  /\ pc[t] = "push_read_w"
  /\ count' = [count EXCEPT ![t] = m_writeIndex]
  /\ Goto(t, "push_read_r")
  /\ UNCHANGED <<m_Queue, indices, m_size, data, outside>>

\* Mutant: counts are compared instead of slots.
LooksFullByCount(t) == count[t] + 1 = m_readIndex

\* The test that ends Push with false; it compares slots, not counts.
LooksFull(t) == CountToIndex(count[t] + 1) = CountToIndex(m_readIndex)

PushRefuse(t) ==
  /\ pc[t] = "push_read_r"
  /\ LooksFull(t)
  /\ Return(t, {data[t]})
  /\ UNCHANGED <<m_Queue, indices, m_size>>

PushReadRead(t) ==
  /\ pc[t] = "push_read_r"
  /\ ~LooksFull(t)
  /\ Goto(t, "push_cas")
  /\ UNCHANGED <<m_Queue, indices, m_size, data, count, outside>>

PushReserve(t) ==
  /\ pc[t] = "push_cas"
  /\ IF m_writeIndex = count[t]
       THEN /\ m_writeIndex' = m_writeIndex + 1
            /\ Goto(t, "push_store")
       ELSE /\ Goto(t, "push_read_w")
            /\ UNCHANGED m_writeIndex
  /\ UNCHANGED <<m_Queue, m_maximumReadIndex, m_readIndex, m_size, data, count, outside>>

PushStore(t) ==
  /\ pc[t] = "push_store"
  /\ m_Queue' = [m_Queue EXCEPT ![CountToIndex(count[t])] = data[t]]
  /\ Goto(t, "push_commit")
  /\ UNCHANGED <<indices, m_size, data, count, outside>>

\* Mutant: commits are not made in the order of the reservations.
PushCommitAny(t) ==
  /\ pc[t] = "push_commit"
  /\ m_maximumReadIndex' = m_maximumReadIndex + 1
  /\ Goto(t, "push_count")
  /\ UNCHANGED <<m_Queue, m_writeIndex, m_readIndex, m_size, data, count, outside>>

\* Mutant: the loop also waits until no later count is reserved.
PushCommitLast(t) ==
  /\ pc[t] = "push_commit"
  /\ m_maximumReadIndex = count[t] /\ m_writeIndex = count[t] + 1
  /\ m_maximumReadIndex' = m_maximumReadIndex + 1
  /\ Goto(t, "push_count")
  /\ UNCHANGED <<m_Queue, m_writeIndex, m_readIndex, m_size, data, count, outside>>

\* The CAS loop on m_maximumReadIndex waits, with sched_yield, for the pushes
\* that reserved earlier counts.
PushCommit(t) ==
  /\ pc[t] = "push_commit"
  /\ m_maximumReadIndex = count[t]
  /\ m_maximumReadIndex' = m_maximumReadIndex + 1
  /\ Goto(t, "push_count")
  /\ UNCHANGED <<m_Queue, m_writeIndex, m_readIndex, m_size, data, count, outside>>

PushCount(t) ==
  /\ pc[t] = "push_count"
  /\ m_size' = (m_size + 1) % COUNTER_MOD
  /\ Return(t, {})
  /\ UNCHANGED <<m_Queue, indices>>

-----------------------------------------------------------------------------
(* Pop                                                                      *)

PopCall(t) ==
  /\ pc[t] = "idle"
  /\ Goto(t, "pop_read_r")
  /\ UNCHANGED <<m_Queue, indices, m_size, data, count, outside>>

PopReadRead(t) ==
  /\ pc[t] = "pop_read_r"
  /\ count' = [count EXCEPT ![t] = m_readIndex]
  /\ Goto(t, "pop_read_m")
  /\ UNCHANGED <<m_Queue, indices, m_size, data, outside>>

\* The test that ends Pop with false; a round of Pop that lost the CAS may have
\* left an element in data, which the caller must not use.
LooksEmpty(t) == CountToIndex(count[t]) = CountToIndex(m_maximumReadIndex)

PopRefuse(t) ==
  /\ pc[t] = "pop_read_m"
  /\ LooksEmpty(t)
  /\ Return(t, {})
  /\ UNCHANGED <<m_Queue, indices, m_size>>

PopReadMaximum(t) ==
  /\ pc[t] = "pop_read_m"
  /\ ~LooksEmpty(t)
  /\ Goto(t, "pop_load")
  /\ UNCHANGED <<m_Queue, indices, m_size, data, count, outside>>

PopLoad(t) ==
  /\ pc[t] = "pop_load"
  /\ data' = [data EXCEPT ![t] = m_Queue[CountToIndex(count[t])]]
  /\ Goto(t, "pop_cas")
  /\ UNCHANGED <<m_Queue, indices, m_size, count, outside>>

\* Mutant: a plain store takes the place of the CAS.
PopTakeBlind(t) ==
  /\ pc[t] = "pop_cas"
  /\ m_readIndex' = count[t] + 1
  /\ Goto(t, "pop_count")
  /\ UNCHANGED <<m_Queue, m_writeIndex, m_maximumReadIndex, m_size, data, count, outside>>

PopTake(t) ==
  /\ pc[t] = "pop_cas"
  /\ IF m_readIndex = count[t]
       THEN /\ m_readIndex' = m_readIndex + 1
            /\ Goto(t, "pop_count")
       ELSE /\ Goto(t, "pop_read_r")
            /\ UNCHANGED m_readIndex
  /\ UNCHANGED <<m_Queue, m_writeIndex, m_maximumReadIndex, m_size, data, count, outside>>

\* Mutant: the path that succeeds forgets AtomicSub.
PopCountMissing(t) ==
  /\ pc[t] = "pop_count"
  /\ Return(t, {data[t]})
  /\ UNCHANGED <<m_Queue, indices, m_size>>

PopCount(t) ==
  /\ pc[t] = "pop_count"
  /\ m_size' = (m_size - 1) % COUNTER_MOD
  /\ Return(t, {data[t]})
  /\ UNCHANGED <<m_Queue, indices>>

-----------------------------------------------------------------------------
PushStep(t) ==
  \/ PushReadWrite(t) \/ PushRefuse(t) \/ PushReadRead(t) \/ PushReserve(t)
  \/ PushStore(t) \/ PushCommit(t) \/ PushCount(t)

PopStep(t) ==
  \/ PopReadRead(t) \/ PopRefuse(t) \/ PopReadMaximum(t) \/ PopLoad(t)
  \/ PopTake(t) \/ PopCount(t)

Next ==
  \E t \in Threads :
     \/ \E e \in Elems : PushCall(t, e)
     \/ PopCall(t)
     \/ PushStep(t)
     \/ PopStep(t)

Spec == Init /\ [][Next]_vars

-----------------------------------------------------------------------------
(* Properties                                                               *)

\* Every member and local variable has its type.
TypeOK ==
  /\ m_Queue \in [Slots -> Elems \cup {NoElem}]
  /\ m_writeIndex \in Nat
  /\ m_maximumReadIndex \in Nat
  /\ m_readIndex \in Nat
  /\ m_size \in 0 .. (COUNTER_MOD - 1)
  /\ pc \in [Threads -> PCs]
  /\ data \in [Threads -> Elems \cup {NoElem}]
  /\ count \in [Threads -> Nat]
  /\ outside \subseteq Elems

\* The counts whose element is committed and not popped yet.
Committed == m_readIndex .. (m_maximumReadIndex - 1)

ElemAt(c) == m_Queue[CountToIndex(c)]

\* t's call carries the element data[t]: Push until its commit, Pop from its CAS.
Carries(t) == pc[t] \in Reserving \cup Reserved \cup {"pop_count"}

\* No interleaving of Push and Pop loses a block or hands one block to two
\* callers: each block is in exactly one place, the callers' hands, the call of
\* one thread, or one committed slot (lines 56-134).
OnePlace ==
  \A e \in Elems :
     Cardinality({t \in Threads : Carries(t) /\ data[t] = e})
     + Cardinality({c \in Committed : ElemAt(c) = e})
     + (IF e \in outside THEN 1 ELSE 0) = 1

\* No slot is reserved again before its element was popped (the test of line 66,
\* or the small number of elements): the counts in use have distinct slots.
SlotsApart ==
  \A c1, c2 \in m_readIndex .. (m_writeIndex - 1) :
     CountToIndex(c1) = CountToIndex(c2) => c1 = c2

\* m_size lags behind the content by exactly the calls that moved an element and
\* have not counted it yet (lines 89 and 122 run after the CAS); taken modulo the
\* register it may pass below zero.
SizeLagsByCalls ==
  m_size = (m_maximumReadIndex - m_readIndex
              - Cardinality({t \in Threads : pc[t] = "push_count"})
              + Cardinality({t \in Threads : pc[t] = "pop_count"})) % COUNTER_MOD

-----------------------------------------------------------------------------
(* The inductive invariant, part by part                                    *)

\* The three counters never pass each other, and the bound of the model holds.
Ordered ==
  /\ m_readIndex <= m_maximumReadIndex
  /\ m_maximumReadIndex <= m_writeIndex
  /\ m_writeIndex + Cardinality(ReservingThreads) <= MaxCount

\* The counts between commit and reservation each belong to one pushing thread.
OneOwner ==
  /\ \A t \in Threads : pc[t] \in Reserved =>
        count[t] \in m_maximumReadIndex .. (m_writeIndex - 1)
  /\ \A t, u \in Threads :
        pc[t] \in Reserved /\ pc[u] \in Reserved /\ count[t] = count[u] => t = u
  /\ \A c \in m_maximumReadIndex .. (m_writeIndex - 1) :
        \E t \in Threads : pc[t] \in Reserved /\ count[t] = c

\* A push that is ready to commit has stored its element in its slot.
Stored == \A t \in Threads : pc[t] = "push_commit" => ElemAt(count[t]) = data[t]

\* Elements are in one place: not outside and carried, or carried twice ...
CarriedOnce ==
  /\ \A t \in Threads : Carries(t) => data[t] \in Elems \ outside
  /\ \A t, u \in Threads : Carries(t) /\ Carries(u) /\ data[t] = data[u] => t = u

\* ... nor committed and elsewhere, or committed twice.
CommittedOnce ==
  /\ \A c \in Committed : ElemAt(c) \in Elems \ outside
  /\ \A c, d \in Committed : ElemAt(c) = ElemAt(d) => c = d
  /\ \A c \in Committed, t \in Threads : Carries(t) => ElemAt(c) # data[t]

\* No element is lost.
Somewhere ==
  \A e \in Elems :
     \/ e \in outside
     \/ \E t \in Threads : Carries(t) /\ data[t] = e
     \/ \E c \in Committed : ElemAt(c) = e

\* What a Push or Pop knows: a write index it loaded is not ahead of the member; a
\* read index it loaded is not either, and while it is up to date the count is
\* committed and the element loaded from its slot is still there.
Snapshot ==
  \A t \in Threads :
     /\ pc[t] \in {"push_read_r", "push_cas"} => count[t] <= m_writeIndex
     /\ pc[t] \in {"pop_read_m", "pop_load", "pop_cas"} => count[t] <= m_readIndex
     /\ pc[t] \in {"pop_load", "pop_cas"} /\ count[t] = m_readIndex =>
           m_readIndex < m_maximumReadIndex
     /\ pc[t] = "pop_cas" /\ count[t] = m_readIndex => data[t] = ElemAt(m_readIndex)

\* Why slots are apart: no more counts are in use than there are elements; and,
\* when slots are used in turn, one fewer than there are slots, which the test of
\* line 66 guarantees to the push whose CAS succeeds.
Room ==
  /\ m_writeIndex - m_readIndex <= Cardinality(Elems)
  /\ NoJump =>
       /\ m_writeIndex - m_readIndex < QUEUE_LEN
       /\ \A t \in Threads :
            pc[t] = "push_cas" /\ count[t] = m_writeIndex =>
              m_writeIndex + 1 - m_readIndex < QUEUE_LEN

Inv ==
  /\ TypeOK
  /\ Ordered
  /\ OneOwner
  /\ Stored
  /\ CarriedOnce
  /\ CommittedOnce
  /\ Somewhere
  /\ Snapshot
  /\ Room

-----------------------------------------------------------------------------
(* Properties of behaviours                                                 *)

\* The comment of line 68, "the queue is full", on the path that returns false:
\* Push gives up only when all slots but one hold a reserved count.
FullWhenRefused ==
  [][\A t \in Threads :
        PushRefuse(t) => CountToIndex(m_writeIndex + 1) = CountToIndex(m_readIndex)]_vars

\* The queue read as the abstract one: the committed elements, oldest first, the
\* calls, and the elements that they carry.
queueBar == [i \in 1 .. (m_maximumReadIndex - m_readIndex) |-> ElemAt(m_readIndex + i - 1)]
CallAt(label) ==
  CASE label = "idle" -> "none"
    [] label \in Reserving \cup Reserved -> "push"
    [] label = "push_count" -> "pushed"
    [] label \in Popping -> "pop"
    [] label = "pop_count" -> "popped"
callBar == [t \in Threads |-> CallAt(pc[t])]
handBar == [t \in Threads |-> IF Carries(t) THEN data[t] ELSE NoElem]

Fifo == INSTANCE FifoQueue WITH queue <- queueBar, call <- callBar, hand <- handBar, outside <- outside

\* Push takes effect at its commit (line 81) and Pop at its CAS (line 120): the
\* queue is a FIFO queue whose calls are atomic or refused.
IsFifo == Fifo!Spec
=============================================================================
