-------------------------- MODULE LockFreeQueueProofs --------------------------
(***************************************************************************)
(* Inv of LockFreeQueue is inductive, for any number of threads, elements   *)
(* and slots that satisfy QueueAssumption, and implies the properties.      *)
(*                                                                          *)
(* The queue implements FifoQueue: Push takes effect when it commits its    *)
(* count (line 81), Pop when its CAS succeeds (line 120), and every other   *)
(* step of a call is a step of the caller alone.                            *)
(***************************************************************************)
EXTENDS LockFreeQueue, FiniteSetTheorems, SequenceTheorems, TLAPS

USE QueueAssumption

-----------------------------------------------------------------------------
(* Arithmetic and sets                                                      *)

\* Every count has a slot.
LEMMA IndexType == \A c \in Nat : CountToIndex(c) \in Slots
<1> TAKE c \in Nat
<1>1. c % COUNTER_MOD \in Nat
  OBVIOUS
<1> QED
  BY <1>1 DEF CountToIndex, Slots

\* The pushes that have yet to reserve are finitely many.
LEMMA ReservingFinite ==
  /\ IsFiniteSet(ReservingThreads)
  /\ Cardinality(ReservingThreads) \in Nat
<1>1. ReservingThreads \subseteq Threads
  BY DEF ReservingThreads
<1>2. IsFiniteSet(ReservingThreads)
  BY <1>1, FS_Subset
<1> QED
  BY <1>2, FS_CardinalityType

\* A thread that moves to another place changes their number accordingly.
LEMMA ReservingMoves ==
  ASSUME TypeOK, NEW t \in Threads, NEW label \in PCs, Goto(t, label)
  PROVE  /\ IsFiniteSet(ReservingThreads')
         /\ Cardinality(ReservingThreads') \in Nat
         /\ (pc[t] \in Reserving <=> label \in Reserving) =>
              Cardinality(ReservingThreads') = Cardinality(ReservingThreads)
         /\ pc[t] \in Reserving /\ label \notin Reserving =>
              /\ Cardinality(ReservingThreads') = Cardinality(ReservingThreads) - 1
              /\ Cardinality(ReservingThreads) > 0
         /\ pc[t] \notin Reserving /\ label \in Reserving =>
              Cardinality(ReservingThreads') = Cardinality(ReservingThreads) + 1
<1>1. CASE pc[t] \in Reserving <=> label \in Reserving
  <2>1. ReservingThreads' = ReservingThreads
    BY <1>1 DEF TypeOK, Goto, ReservingThreads
  <2> QED
    BY <1>1, <2>1, ReservingFinite
<1>2. CASE pc[t] \in Reserving /\ label \notin Reserving
  <2>1. ReservingThreads' = ReservingThreads \ {t} /\ t \in ReservingThreads
    BY <1>2 DEF TypeOK, Goto, ReservingThreads
  <2>2. /\ IsFiniteSet(ReservingThreads \ {t})
        /\ Cardinality(ReservingThreads \ {t}) = Cardinality(ReservingThreads) - 1
    BY <2>1, ReservingFinite, FS_RemoveElement
  <2>3. Cardinality(ReservingThreads \ {t}) \in Nat
    BY <2>2, FS_CardinalityType
  <2> QED
    BY <1>2, <2>1, <2>2, <2>3, ReservingFinite
<1>3. CASE pc[t] \notin Reserving /\ label \in Reserving
  <2>1. ReservingThreads' = ReservingThreads \cup {t} /\ t \notin ReservingThreads
    BY <1>3 DEF TypeOK, Goto, ReservingThreads
  <2>2. /\ IsFiniteSet(ReservingThreads \cup {t})
        /\ Cardinality(ReservingThreads \cup {t}) = Cardinality(ReservingThreads) + 1
    BY <2>1, ReservingFinite, FS_AddElement
  <2> QED
    BY <1>3, <2>1, <2>2, ReservingFinite
<1> QED
  BY <1>1, <1>2, <1>3

\* The counts in use have distinct slots.
LEMMA Apart ==
  ASSUME TypeOK, Ordered, Room
  PROVE  SlotsApart
<1>1. m_writeIndex <= MaxCount
  BY ReservingFinite DEF Ordered, TypeOK
<1>2. ASSUME NEW c1 \in m_readIndex .. (m_writeIndex - 1),
             NEW c2 \in m_readIndex .. (m_writeIndex - 1), c1 < c2
      PROVE  CountToIndex(c1) # CountToIndex(c2)
  <2> DEFINE d == c2 - c1
  <2>1. /\ c1 \in 0 .. MaxCount
        /\ d \in Int /\ d >= 1
        /\ c1 + d = c2
        /\ c1 + d <= MaxCount
        /\ d < m_writeIndex - m_readIndex
    BY <1>1, <1>2 DEF TypeOK
  <2>2. CASE FewElems
    <3>1. d \in 1 .. (Cardinality(Elems) - 1)
      BY <2>1, FS_CardinalityType DEF Room, TypeOK
    <3> QED
      BY <2>1, <2>2, <3>1 DEF FewElems
  <2>3. CASE NoJump
    <3>1. d \in 1 .. QUEUE_LEN /\ d # QUEUE_LEN
      BY <2>1, <2>3 DEF Room, TypeOK
    <3> QED
      BY <2>1, <2>3, <3>1 DEF NoJump
  <2> QED
    BY <2>2, <2>3
<1> QED
  BY <1>2 DEF SlotsApart, TypeOK

-----------------------------------------------------------------------------
(* Type correctness                                                         *)

\* The members and local variables keep their types; what a call gives back is an
\* element because what a call carries is one.
LEMMA TypeStep == TypeOK /\ CarriedOnce /\ [Next]_vars => TypeOK'
<1> SUFFICES ASSUME TypeOK, CarriedOnce, [Next]_vars PROVE TypeOK'
  OBVIOUS
<1> USE DEF TypeOK, PCs, Reserving, Reserved, Popping, Goto, Return, indices
<1>1. CASE UNCHANGED vars
  BY <1>1 DEF vars
<1>2. ASSUME NEW t \in Threads, NEW e \in Elems, PushCall(t, e)
      PROVE  TypeOK'
  BY <1>2 DEF PushCall
<1>3. ASSUME NEW t \in Threads, PopCall(t)
      PROVE  TypeOK'
  BY <1>3 DEF PopCall
<1>4. ASSUME NEW t \in Threads, PushStep(t)
      PROVE  TypeOK'
  <2>1. CASE PushReadWrite(t)
    BY <2>1 DEF PushReadWrite
  <2>2. CASE PushRefuse(t)
    BY <2>2 DEF PushRefuse, CarriedOnce, Carries
  <2>3. CASE PushReadRead(t)
    BY <2>3 DEF PushReadRead
  <2>4. CASE PushReserve(t)
    BY <2>4 DEF PushReserve
  <2>5. CASE PushStore(t)
    BY <2>5, IndexType DEF PushStore
  <2>6. CASE PushCommit(t)
    BY <2>6 DEF PushCommit
  <2>7. CASE PushCount(t)
    BY <2>7 DEF PushCount
  <2> QED
    BY <1>4, <2>1, <2>2, <2>3, <2>4, <2>5, <2>6, <2>7 DEF PushStep
<1>5. ASSUME NEW t \in Threads, PopStep(t)
      PROVE  TypeOK'
  <2>1. CASE PopReadRead(t)
    BY <2>1 DEF PopReadRead
  <2>2. CASE PopRefuse(t)
    BY <2>2 DEF PopRefuse
  <2>3. CASE PopReadMaximum(t)
    BY <2>3 DEF PopReadMaximum
  <2>4. CASE PopLoad(t)
    BY <2>4, IndexType DEF PopLoad
  <2>5. CASE PopTake(t)
    BY <2>5 DEF PopTake
  <2>6. CASE PopCount(t)
    BY <2>6 DEF PopCount, CarriedOnce, Carries
  <2> QED
    BY <1>5, <2>1, <2>2, <2>3, <2>4, <2>5, <2>6 DEF PopStep
<1> QED
  BY <1>1, <1>2, <1>3, <1>4, <1>5 DEF Next

-----------------------------------------------------------------------------
(* Induction: every action preserves Inv                                    *)

\* The counts in use and a push that is about to reserve one more hold different
\* elements, so there are at most as many counts as elements.
LEMMA OneElementPerCount ==
  ASSUME Inv, NEW t \in Threads, pc[t] = "push_cas"
  PROVE  m_writeIndex + 1 - m_readIndex <= Cardinality(Elems)
<1> USE DEF Inv, TypeOK
<1> DEFINE Owner(c) == CHOOSE u \in Threads : pc[u] \in Reserved /\ count[u] = c
           holds == [c \in m_readIndex .. m_writeIndex |->
                       IF c < m_maximumReadIndex THEN ElemAt(c)
                       ELSE IF c < m_writeIndex THEN data[Owner(c)]
                       ELSE data[t]]
<1>1. \A c \in m_maximumReadIndex .. (m_writeIndex - 1) :
         /\ Owner(c) \in Threads
         /\ pc[Owner(c)] \in Reserved
         /\ count[Owner(c)] = c
  BY DEF OneOwner
<1> HIDE DEF Owner
<1>2. \A c \in m_maximumReadIndex .. (m_writeIndex - 1) : Carries(Owner(c)) /\ Owner(c) # t
  BY <1>1 DEF Carries, Reserved
<1>3. Carries(t)
  BY DEF Carries, Reserving
<1>4. \A c \in m_readIndex .. m_writeIndex :
         \/ c \in Committed
         \/ c \in m_maximumReadIndex .. (m_writeIndex - 1)
         \/ c = m_writeIndex
  BY DEF Committed, Ordered
<1>5. /\ \A c \in Committed : holds[c] = ElemAt(c) /\ c \in m_readIndex .. m_writeIndex
      /\ \A c \in m_maximumReadIndex .. (m_writeIndex - 1) : holds[c] = data[Owner(c)]
      /\ holds[m_writeIndex] = data[t]
  BY DEF Committed, Ordered
<1>6. holds \in [m_readIndex .. m_writeIndex -> Elems]
  <2>1. \A c \in m_readIndex .. m_writeIndex : holds[c] \in Elems
    BY <1>1, <1>2, <1>3, <1>4, <1>5 DEF CarriedOnce, CommittedOnce
  <2> QED
    BY <2>1
<1> HIDE DEF holds
<1>7. ASSUME NEW c \in m_readIndex .. m_writeIndex, NEW d \in m_readIndex .. m_writeIndex,
             holds[c] = holds[d]
      PROVE  c = d
  <2>1. CASE c \in Committed
    BY <1>1, <1>2, <1>3, <1>4, <1>5, <1>7, <2>1 DEF CommittedOnce
  <2>2. CASE c \in m_maximumReadIndex .. (m_writeIndex - 1)
    BY <1>1, <1>2, <1>3, <1>4, <1>5, <1>7, <2>2 DEF CommittedOnce, CarriedOnce
  <2>3. CASE c = m_writeIndex
    BY <1>1, <1>2, <1>3, <1>4, <1>5, <1>7, <2>3 DEF CommittedOnce, CarriedOnce
  <2> QED
    BY <1>4, <2>1, <2>2, <2>3
<1>8. holds \in Injection(m_readIndex .. m_writeIndex, Elems)
  BY <1>6, <1>7 DEF Injection, IsInjective
<1>9. Cardinality(m_readIndex .. m_writeIndex) <= Cardinality(Elems)
  BY <1>8, FS_Injection
<1>10. Cardinality(m_readIndex .. m_writeIndex) = m_writeIndex - m_readIndex + 1
  BY SMTT(30), FS_Interval DEF Ordered
<1> QED
  BY <1>9, <1>10, FS_CardinalityType

\* A call begins with an element taken from the callers' hands.
LEMMA PushCallStep ==
  ASSUME Inv, TypeOK', NEW t \in Threads, NEW e \in Elems, PushCall(t, e)
  PROVE  Inv'
<1> USE DEF Inv, TypeOK, Goto, Return, indices, Carries, Committed, ElemAt, PCs,
            Reserving, Reserved, Popping
<1>1. Ordered'
  <2>1. Cardinality(ReservingThreads') = Cardinality(ReservingThreads) + 1
    BY ReservingMoves DEF PushCall
  <2> QED
    BY <2>1, ReservingFinite DEF PushCall, Ordered
<1>2. OneOwner' /\ Stored' /\ CarriedOnce' /\ CommittedOnce' /\ Somewhere' /\ Snapshot' /\ Room'
  BY DEF PushCall, OneOwner, Stored, CarriedOnce, CommittedOnce, Somewhere, Snapshot, Room
<1> QED
  BY <1>1, <1>2

\* A push loads m_writeIndex.
LEMMA PushReadWriteStep ==
  ASSUME Inv, TypeOK', NEW t \in Threads, PushReadWrite(t)
  PROVE  Inv'
<1> USE DEF Inv, TypeOK, Goto, Return, indices, Carries, Committed, ElemAt, PCs,
            Reserving, Reserved, Popping
<1>1. Ordered'
  BY ReservingMoves DEF PushReadWrite, Ordered
<1>2. OneOwner' /\ Stored' /\ CarriedOnce' /\ CommittedOnce' /\ Somewhere' /\ Snapshot' /\ Room'
  BY DEF PushReadWrite, OneOwner, Stored, CarriedOnce, CommittedOnce, Somewhere, Snapshot, Room
<1> QED
  BY <1>1, <1>2

\* A refused push gives its element back.
LEMMA PushRefuseStep ==
  ASSUME Inv, TypeOK', NEW t \in Threads, PushRefuse(t)
  PROVE  Inv'
<1> USE DEF Inv, TypeOK, Goto, Return, indices, Carries, Committed, ElemAt, PCs,
            Reserving, Reserved, Popping
<1>1. Ordered'
  <2>1. Cardinality(ReservingThreads') = Cardinality(ReservingThreads) - 1
    BY ReservingMoves DEF PushRefuse
  <2> QED
    BY <2>1, ReservingFinite DEF PushRefuse, Ordered
<1>2. OneOwner' /\ Stored' /\ CarriedOnce' /\ CommittedOnce' /\ Somewhere' /\ Snapshot' /\ Room'
  BY DEF PushRefuse, OneOwner, Stored, CarriedOnce, CommittedOnce, Somewhere, Snapshot, Room
<1> QED
  BY <1>1, <1>2

\* A push that was not refused knows that one more count fits.
LEMMA PushReadReadStep ==
  ASSUME Inv, TypeOK', NEW t \in Threads, PushReadRead(t)
  PROVE  Inv'
<1> USE DEF Inv, TypeOK, Goto, Return, indices, Carries, Committed, ElemAt, PCs,
            Reserving, Reserved, Popping
<1>1. Ordered'
  BY ReservingMoves DEF PushReadRead, Ordered
<1>2. OneOwner' /\ Stored' /\ CarriedOnce' /\ CommittedOnce' /\ Somewhere' /\ Snapshot'
  BY DEF PushReadRead, OneOwner, Stored, CarriedOnce, CommittedOnce, Somewhere, Snapshot
<1>3. Room'
  <2>1. ASSUME NoJump, count[t] = m_writeIndex
        PROVE  m_writeIndex + 1 - m_readIndex < QUEUE_LEN
    <3>1. m_writeIndex + 1 <= MaxCount
      <4>1. Cardinality(ReservingThreads) # 0
        <5>1. t \in ReservingThreads
          BY DEF PushReadRead, ReservingThreads
        <5>2. IsFiniteSet(ReservingThreads)
          BY ReservingFinite
        <5> HIDE DEF ReservingThreads, Inv
        <5> QED
          BY <5>1, <5>2, FS_EmptySet
      <4> QED
        BY <4>1, ReservingFinite DEF Ordered
    <3>2. m_writeIndex + 1 - m_readIndex <= QUEUE_LEN
      BY <2>1 DEF Room
    <3>3. ASSUME m_readIndex + QUEUE_LEN = m_writeIndex + 1
          PROVE  FALSE
      <4>1. m_readIndex \in 0 .. MaxCount
        BY <3>1 DEF Ordered
      <4>2. CountToIndex(m_readIndex + QUEUE_LEN) = CountToIndex(m_readIndex)
        BY <2>1, <3>1, <3>3, <4>1 DEF NoJump
      <4> QED
        BY <2>1, <3>3, <4>2 DEF PushReadRead, LooksFull
    <3> QED
      BY <3>2, <3>3
  <2> QED
    BY <2>1 DEF PushReadRead, Room
<1> QED
  BY <1>1, <1>2, <1>3

\* A push whose CAS succeeds owns a new count; one whose CAS fails begins again.
LEMMA PushReserveStep ==
  ASSUME Inv, TypeOK', NEW t \in Threads, PushReserve(t)
  PROVE  Inv'
<1> USE DEF Inv, TypeOK, Goto, Return, indices, Carries, Committed, ElemAt, PCs,
            Reserving, Reserved, Popping
<1>1. Ordered'
  <2>1. CASE m_writeIndex = count[t]
    <3>1. Cardinality(ReservingThreads') = Cardinality(ReservingThreads) - 1
      BY <2>1, ReservingMoves DEF PushReserve
    <3> QED
      BY <2>1, <3>1, ReservingFinite DEF PushReserve, Ordered
  <2>2. CASE m_writeIndex # count[t]
    <3>1. Cardinality(ReservingThreads') = Cardinality(ReservingThreads)
      BY <2>2, ReservingMoves DEF PushReserve
    <3> QED
      BY <2>2, <3>1, ReservingFinite DEF PushReserve, Ordered
  <2> QED
    BY <2>1, <2>2
<1>2. Stored' /\ CarriedOnce' /\ CommittedOnce' /\ Somewhere' /\ Snapshot'
  BY DEF PushReserve, Stored, CarriedOnce, CommittedOnce, Somewhere, Snapshot
<1>3. OneOwner'
  <2>1. CASE m_writeIndex = count[t]
    BY <2>1 DEF PushReserve, OneOwner, Ordered
  <2>2. CASE m_writeIndex # count[t]
    BY <2>2 DEF PushReserve, OneOwner
  <2> QED
    BY <2>1, <2>2
<1>4. Room'
  <2>1. CASE m_writeIndex = count[t]
    <3>1. m_writeIndex + 1 - m_readIndex <= Cardinality(Elems)
      BY <2>1, OneElementPerCount DEF PushReserve
    <3>2. Cardinality(Elems) \in Nat
      BY FS_CardinalityType
    <3> QED
      BY <2>1, <3>1, <3>2 DEF PushReserve, Room, Snapshot
  <2>2. CASE m_writeIndex # count[t]
    BY <2>2 DEF PushReserve, Room
  <2> QED
    BY <2>1, <2>2
<1> QED
  BY <1>1, <1>2, <1>3, <1>4

\* A push stores into the slot of its own count, which no other count in use has.
LEMMA PushStoreStep ==
  ASSUME Inv, TypeOK', NEW t \in Threads, PushStore(t)
  PROVE  Inv'
<1> USE DEF Inv, TypeOK, Goto, Return, indices, Carries, Committed, ElemAt, PCs,
            Reserving, Reserved, Popping
<1>1. Ordered'
  BY ReservingMoves DEF PushStore, Ordered
<1>2. OneOwner' /\ CarriedOnce' /\ Room'
  BY DEF PushStore, OneOwner, CarriedOnce, Room
<1>3. /\ count[t] \in m_readIndex .. (m_writeIndex - 1)
      /\ count[t] \notin Committed
  BY DEF PushStore, OneOwner, Ordered
<1>4. \A c \in m_readIndex .. (m_writeIndex - 1) : c # count[t] => ElemAt(c)' = ElemAt(c)
  BY <1>3, Apart, IndexType DEF SlotsApart, PushStore
<1>5. Committed' = Committed /\ \A c \in Committed : ElemAt(c)' = ElemAt(c)
  BY <1>3, <1>4 DEF PushStore, Ordered
<1>6. Stored'
  <2>1. ElemAt(count[t])' = data[t]
    BY <1>3, IndexType DEF PushStore
  <2>2. ASSUME NEW u \in Threads, u # t, pc[u] = "push_commit"
        PROVE  ElemAt(count[u])' = data[u]
    <3>1. count[u] \in m_readIndex .. (m_writeIndex - 1) /\ count[u] # count[t]
      BY <2>2 DEF PushStore, OneOwner, Ordered
    <3> QED
      BY <1>4, <2>2, <3>1 DEF PushStore, Stored
  <2> QED
    BY <2>1, <2>2 DEF PushStore, Stored
<1>7. CommittedOnce'
  <2> HIDE DEF Committed, ElemAt
  <2> QED
    BY <1>5 DEF PushStore, CommittedOnce
<1>8. Somewhere'
  <2> HIDE DEF Committed, ElemAt
  <2> QED
    BY <1>5 DEF PushStore, Somewhere
<1>9. Snapshot'
  BY <1>5 DEF PushStore, Snapshot
<1> QED
  BY <1>1, <1>2, <1>6, <1>7, <1>8, <1>9

\* The count that is committed is the next one, and its element is stored.
LEMMA PushCommitStep ==
  ASSUME Inv, TypeOK', NEW t \in Threads, PushCommit(t)
  PROVE  Inv'
<1> USE DEF Inv, TypeOK, Goto, Return, indices, Carries, Committed, ElemAt, PCs,
            Reserving, Reserved, Popping
<1>1. Ordered'
  <2>1. Cardinality(ReservingThreads') = Cardinality(ReservingThreads)
    BY ReservingMoves DEF PushCommit
  <2>2. count[t] <= m_writeIndex - 1
    BY DEF PushCommit, OneOwner
  <2> QED
    BY <2>1, <2>2, ReservingFinite DEF PushCommit, Ordered
<1>2. OneOwner' /\ Stored' /\ CarriedOnce' /\ Snapshot' /\ Room'
  BY DEF PushCommit, OneOwner, Stored, CarriedOnce, Snapshot, Room
<1>3. /\ Committed' = Committed \cup {m_maximumReadIndex}
      /\ ElemAt(m_maximumReadIndex) = data[t]
      /\ \A c \in Committed' : ElemAt(c)' = ElemAt(c)
  BY DEF PushCommit, Stored, Ordered
<1>4. CommittedOnce'
  <2> HIDE DEF Committed, ElemAt
  <2> QED
    BY <1>3 DEF PushCommit, CommittedOnce, CarriedOnce
<1>5. Somewhere'
  <2> HIDE DEF Committed, ElemAt
  <2> QED
    BY <1>3 DEF PushCommit, Somewhere
<1> QED
  BY <1>1, <1>2, <1>4, <1>5

\* A push that counts its element has nothing left to do with it.
LEMMA PushCountStep ==
  ASSUME Inv, TypeOK', NEW t \in Threads, PushCount(t)
  PROVE  Inv'
<1> USE DEF Inv, TypeOK, Goto, Return, indices, Carries, Committed, ElemAt, PCs,
            Reserving, Reserved, Popping
<1>1. Ordered'
  BY ReservingMoves DEF PushCount, Ordered
<1>2. OneOwner' /\ Stored' /\ CarriedOnce' /\ CommittedOnce' /\ Somewhere' /\ Snapshot' /\ Room'
  BY DEF PushCount, OneOwner, Stored, CarriedOnce, CommittedOnce, Somewhere, Snapshot, Room
<1> QED
  BY <1>1, <1>2

\* A call of Pop begins.
LEMMA PopCallStep ==
  ASSUME Inv, TypeOK', NEW t \in Threads, PopCall(t)
  PROVE  Inv'
<1> USE DEF Inv, TypeOK, Goto, Return, indices, Carries, Committed, ElemAt, PCs,
            Reserving, Reserved, Popping
<1>1. Ordered'
  BY ReservingMoves DEF PopCall, Ordered
<1>2. OneOwner' /\ Stored' /\ CarriedOnce' /\ CommittedOnce' /\ Somewhere' /\ Snapshot' /\ Room'
  BY DEF PopCall, OneOwner, Stored, CarriedOnce, CommittedOnce, Somewhere, Snapshot, Room
<1> QED
  BY <1>1, <1>2

\* A pop loads m_readIndex.
LEMMA PopReadReadStep ==
  ASSUME Inv, TypeOK', NEW t \in Threads, PopReadRead(t)
  PROVE  Inv'
<1> USE DEF Inv, TypeOK, Goto, Return, indices, Carries, Committed, ElemAt, PCs,
            Reserving, Reserved, Popping
<1>1. Ordered'
  BY ReservingMoves DEF PopReadRead, Ordered
<1>2. OneOwner' /\ Stored' /\ CarriedOnce' /\ CommittedOnce' /\ Somewhere' /\ Snapshot' /\ Room'
  BY DEF PopReadRead, OneOwner, Stored, CarriedOnce, CommittedOnce, Somewhere, Snapshot, Room
<1> QED
  BY <1>1, <1>2

\* A refused pop returns without an element.
LEMMA PopRefuseStep ==
  ASSUME Inv, TypeOK', NEW t \in Threads, PopRefuse(t)
  PROVE  Inv'
<1> USE DEF Inv, TypeOK, Goto, Return, indices, Carries, Committed, ElemAt, PCs,
            Reserving, Reserved, Popping
<1>1. Ordered'
  BY ReservingMoves DEF PopRefuse, Ordered
<1>2. OneOwner' /\ Stored' /\ CarriedOnce' /\ CommittedOnce' /\ Somewhere' /\ Snapshot' /\ Room'
  BY DEF PopRefuse, OneOwner, Stored, CarriedOnce, CommittedOnce, Somewhere, Snapshot, Room
<1> QED
  BY <1>1, <1>2

\* A pop that was not refused knows that its count, if still current, is committed.
LEMMA PopReadMaximumStep ==
  ASSUME Inv, TypeOK', NEW t \in Threads, PopReadMaximum(t)
  PROVE  Inv'
<1> USE DEF Inv, TypeOK, Goto, Return, indices, Carries, Committed, ElemAt, PCs,
            Reserving, Reserved, Popping
<1>1. Ordered'
  BY ReservingMoves DEF PopReadMaximum, Ordered
<1>2. OneOwner' /\ Stored' /\ CarriedOnce' /\ CommittedOnce' /\ Somewhere' /\ Room'
  BY DEF PopReadMaximum, OneOwner, Stored, CarriedOnce, CommittedOnce, Somewhere, Room
<1>3. Snapshot'
  BY DEF PopReadMaximum, LooksEmpty, Snapshot, Ordered
<1> QED
  BY <1>1, <1>2, <1>3

\* A pop loads the element of its count, committed if the count is still current.
LEMMA PopLoadStep ==
  ASSUME Inv, TypeOK', NEW t \in Threads, PopLoad(t)
  PROVE  Inv'
<1> USE DEF Inv, TypeOK, Goto, Return, indices, Carries, Committed, ElemAt, PCs,
            Reserving, Reserved, Popping
<1>1. Ordered'
  BY ReservingMoves DEF PopLoad, Ordered
<1>2. OneOwner' /\ Stored' /\ CarriedOnce' /\ CommittedOnce' /\ Somewhere' /\ Snapshot' /\ Room'
  BY DEF PopLoad, OneOwner, Stored, CarriedOnce, CommittedOnce, Somewhere, Snapshot, Room
<1> QED
  BY <1>1, <1>2

\* A pop whose CAS succeeds carries the element of the count it passed.
LEMMA PopTakeStep ==
  ASSUME Inv, TypeOK', NEW t \in Threads, PopTake(t)
  PROVE  Inv'
<1> USE DEF Inv, TypeOK, Goto, Return, indices, Carries, Committed, ElemAt, PCs,
            Reserving, Reserved, Popping
<1>1. Ordered'
  BY ReservingMoves, ReservingFinite DEF PopTake, Ordered, Snapshot
<1>2. OneOwner' /\ Stored' /\ Snapshot'
  BY DEF PopTake, OneOwner, Stored, Snapshot
<1>3. CASE m_readIndex = count[t]
  <2>1. /\ m_readIndex \in Committed
        /\ Committed' = Committed \ {m_readIndex}
        /\ ElemAt(m_readIndex) = data[t]
        /\ \A c \in Committed : ElemAt(c)' = ElemAt(c)
    BY <1>3 DEF PopTake, Snapshot
  <2> HIDE DEF Committed, ElemAt
  <2>2. CarriedOnce'
    BY <1>3, <2>1 DEF PopTake, CarriedOnce, CommittedOnce
  <2>3. CommittedOnce'
    BY <1>3, <2>1 DEF PopTake, CommittedOnce
  <2>4. Somewhere'
    BY <1>3, <2>1 DEF PopTake, Somewhere
  <2>5. Room'
    BY <1>3, FS_CardinalityType DEF PopTake, Room
  <2> QED
    BY <1>1, <1>2, <2>2, <2>3, <2>4, <2>5
<1>4. CASE m_readIndex # count[t]
  BY <1>1, <1>2, <1>4 DEF PopTake, CarriedOnce, CommittedOnce, Somewhere, Room
<1> QED
  BY <1>3, <1>4

\* A pop that counts its element gives it to the caller.
LEMMA PopCountStep ==
  ASSUME Inv, TypeOK', NEW t \in Threads, PopCount(t)
  PROVE  Inv'
<1> USE DEF Inv, TypeOK, Goto, Return, indices, Carries, Committed, ElemAt, PCs,
            Reserving, Reserved, Popping
<1>1. Ordered'
  BY ReservingMoves DEF PopCount, Ordered
<1>2. OneOwner' /\ Stored' /\ CarriedOnce' /\ CommittedOnce' /\ Somewhere' /\ Snapshot' /\ Room'
  BY DEF PopCount, OneOwner, Stored, CarriedOnce, CommittedOnce, Somewhere, Snapshot, Room
<1> QED
  BY <1>1, <1>2

-----------------------------------------------------------------------------
(* The theorems                                                             *)

\* The initial state satisfies the invariant.
LEMMA InvInit == Init => Inv
<1> SUFFICES ASSUME Init PROVE Inv
  OBVIOUS
<1> USE DEF Init
<1>1. TypeOK
  BY DEF TypeOK, PCs
<1>2. Ordered
  <2>1. ReservingThreads = {}
    BY DEF ReservingThreads, Reserving
  <2>2. Cardinality(ReservingThreads) = 0
    BY <2>1, FS_EmptySet
  <2> QED
    BY <2>2 DEF Ordered
<1>3. Room
  BY FS_CardinalityType DEF Room
<1>4. OneOwner /\ Stored /\ Snapshot
  BY DEF OneOwner, Stored, Snapshot, Reserved
<1>5. CarriedOnce /\ CommittedOnce /\ Somewhere
  BY DEF CarriedOnce, CommittedOnce, Somewhere, Carries, Committed, Reserving, Reserved
<1> QED
  BY <1>1, <1>2, <1>3, <1>4, <1>5 DEF Inv

\* Every step preserves it.
LEMMA InvStep == Inv /\ [Next]_vars => Inv'
<1> SUFFICES ASSUME Inv, [Next]_vars PROVE Inv'
  OBVIOUS
<1>1. TypeOK'
  BY TypeStep DEF Inv
<1>2. CASE UNCHANGED vars
  BY <1>2 DEF vars, Inv, TypeOK, Ordered, ReservingThreads, OneOwner, Stored, CarriedOnce,
              CommittedOnce, Somewhere, Snapshot, Room, Committed, ElemAt, Carries
<1>3. ASSUME NEW t \in Threads, NEW e \in Elems, PushCall(t, e)
      PROVE  Inv'
  BY <1>1, <1>3, PushCallStep
<1>4. ASSUME NEW t \in Threads, PopCall(t)
      PROVE  Inv'
  BY <1>1, <1>4, PopCallStep
<1>5. ASSUME NEW t \in Threads, PushStep(t)
      PROVE  Inv'
  BY <1>1, <1>5, PushReadWriteStep, PushRefuseStep, PushReadReadStep, PushReserveStep,
     PushStoreStep, PushCommitStep, PushCountStep DEF PushStep
<1>6. ASSUME NEW t \in Threads, PopStep(t)
      PROVE  Inv'
  BY <1>1, <1>6, PopReadReadStep, PopRefuseStep, PopReadMaximumStep, PopLoadStep,
     PopTakeStep, PopCountStep DEF PopStep
<1> QED
  BY <1>2, <1>3, <1>4, <1>5, <1>6 DEF Next

\* The inductive invariant holds of every reachable state of the queue.
THEOREM InvHolds == Spec => []Inv
  BY InvInit, InvStep, PTL DEF Spec

\* Type correctness of the members and of the locals of Push and Pop.
THEOREM TypeCorrect == Spec => []TypeOK
<1>1. Inv => TypeOK
  BY DEF Inv
<1> QED
  BY <1>1, InvHolds, PTL

\* A slot is never reserved again while its previous count is in use (line 66, or
\* the small number of blocks).
THEOREM NoSlotReused == Spec => []SlotsApart
<1>1. Inv => SlotsApart
  BY Apart DEF Inv
<1> QED
  BY <1>1, InvHolds, PTL

\* Inv counts no element twice and misses none.
LEMMA InvOnePlace == Inv => OnePlace
<1> SUFFICES ASSUME Inv, NEW e \in Elems
             PROVE  Cardinality({t \in Threads : Carries(t) /\ data[t] = e})
                    + Cardinality({c \in Committed : ElemAt(c) = e})
                    + (IF e \in outside THEN 1 ELSE 0) = 1
  BY DEF OnePlace
<1> USE DEF Inv
<1> DEFINE carriers == {t \in Threads : Carries(t) /\ data[t] = e}
           places == {c \in Committed : ElemAt(c) = e}
<1>1. CASE e \in outside
  <2>1. carriers = {} /\ places = {}
    BY <1>1 DEF CarriedOnce, CommittedOnce
  <2> QED
    BY <1>1, <2>1, FS_EmptySet
<1>2. ASSUME NEW t \in Threads, Carries(t), data[t] = e
      PROVE  Cardinality(carriers) + Cardinality(places) + (IF e \in outside THEN 1 ELSE 0) = 1
  <2>1. carriers = {t} /\ places = {} /\ e \notin outside
    BY <1>2 DEF CarriedOnce, CommittedOnce
  <2>2. Cardinality(carriers) = 1 /\ Cardinality(places) = 0
    BY <2>1, FS_EmptySet, FS_Singleton, Zenon
  <2> HIDE DEF carriers, places
  <2> QED
    BY <2>1, <2>2
<1>3. ASSUME NEW c \in Committed, ElemAt(c) = e
      PROVE  Cardinality(carriers) + Cardinality(places) + (IF e \in outside THEN 1 ELSE 0) = 1
  <2>1. carriers = {} /\ places = {c} /\ e \notin outside
    BY <1>3 DEF CarriedOnce, CommittedOnce
  <2>2. Cardinality(carriers) = 0 /\ Cardinality(places) = 1
    BY <2>1, FS_EmptySet, FS_Singleton, Zenon
  <2> HIDE DEF carriers, places
  <2> QED
    BY <2>1, <2>2
<1> QED
  BY <1>1, <1>2, <1>3 DEF Somewhere

\* No interleaving of Push and Pop loses a block or gives one block to two callers
\* (lines 56-134), whatever the number of threads.
THEOREM NoBlockLostOrDoubled == Spec => []OnePlace
  BY InvOnePlace, InvHolds, PTL
-----------------------------------------------------------------------------
(* The element counter                                                      *)

\* A register that counts up or down holds the count modulo its size.
LEMMA ModUnique ==
  ASSUME NEW M \in Nat \ {0}, NEW k \in Int, NEW r \in 0 .. M - 1
  PROVE  (M * k + r) % M = r
OBVIOUS

LEMMA ModSteps ==
  ASSUME NEW M \in Nat \ {0}, NEW x \in Int
  PROVE  /\ ((x % M) + 1) % M = (x + 1) % M
         /\ ((x % M) - 1) % M = (x - 1) % M
<1> DEFINE q == x \div M
           r == x % M
<1>1. q \in Int /\ r \in 0 .. M - 1 /\ x = M * q + r
  OBVIOUS
<1> HIDE DEF q, r
<1>2. M * (q + 1) = M * q + M /\ M * (q - 1) = M * q - M
  BY <1>1
<1>3. (x + 1) % M = IF r + 1 < M THEN r + 1 ELSE 0
  <2>1. CASE r + 1 < M
    <3>1. x + 1 = M * q + (r + 1) /\ r + 1 \in 0 .. M - 1
      BY <1>1, <2>1
    <3> QED
      BY <1>1, <2>1, <3>1, ModUnique
  <2>2. CASE r + 1 = M
    <3>1. x + 1 = M * (q + 1) + 0
      BY <1>1, <1>2, <2>2
    <3> QED
      BY <1>1, <2>2, <3>1, ModUnique
  <2> QED
    BY <1>1, <2>1, <2>2
<1>4. (x - 1) % M = IF r > 0 THEN r - 1 ELSE M - 1
  <2>1. CASE r > 0
    <3>1. x - 1 = M * q + (r - 1) /\ r - 1 \in 0 .. M - 1
      BY <1>1, <2>1
    <3> QED
      BY <1>1, <2>1, <3>1, ModUnique
  <2>2. CASE r = 0
    <3>1. x - 1 = M * (q - 1) + (M - 1) /\ q - 1 \in Int /\ M - 1 \in 0 .. M - 1
      BY <1>1, <1>2, <2>2
    <3>2. \A k \in Int, s \in 0 .. M - 1 : (M * k + s) % M = s
      BY ModUnique
    <3>3. (M * (q - 1) + (M - 1)) % M = M - 1
      BY <3>1, <3>2, Zenon
    <3> QED
      BY <2>2, <3>1, <3>3
  <2> QED
    BY <1>1, <2>1, <2>2
<1>5. (r + 1) % M = IF r + 1 < M THEN r + 1 ELSE 0
  <2>1. M * 0 + (r + 1) = r + 1 /\ M * 1 + 0 = M
    BY <1>1
  <2> QED
    BY <1>1, <2>1, ModUnique
<1>6. (r - 1) % M = IF r > 0 THEN r - 1 ELSE M - 1
  <2>1. M * 0 + (r - 1) = r - 1 /\ M * (0 - 1) + (M - 1) = 0 - 1
    BY <1>1
  <2>2. CASE r > 0
    BY <1>1, <2>1, <2>2, ModUnique
  <2>3. CASE r = 0
    BY <1>1, <2>1, <2>3, ModUnique
  <2> QED
    BY <1>1, <2>2, <2>3
<1> QED
  BY <1>3, <1>4, <1>5, <1>6 DEF r

\* The threads that are at one place, and how a step changes their number.
At(label) == {u \in Threads : pc[u] = label}

LEMMA AtMoves ==
  ASSUME TypeOK, NEW t \in Threads, NEW to \in PCs, Goto(t, to), NEW label \in PCs
  PROVE  /\ Cardinality(At(label)) \in Nat
         /\ pc[t] # label /\ to # label => Cardinality(At(label)') = Cardinality(At(label))
         /\ pc[t] = label /\ to # label => Cardinality(At(label)') = Cardinality(At(label)) - 1
         /\ pc[t] # label /\ to = label => Cardinality(At(label)') = Cardinality(At(label)) + 1
<1>1. IsFiniteSet(At(label)) /\ Cardinality(At(label)) \in Nat
  <2>1. At(label) \subseteq Threads
    BY DEF At
  <2> QED
    BY <2>1, FS_Subset, FS_CardinalityType
<1>2. ASSUME pc[t] # label, to # label
      PROVE  Cardinality(At(label)') = Cardinality(At(label))
  <2>1. At(label)' = At(label)
    BY <1>2 DEF At, Goto, TypeOK
  <2> QED
    BY <2>1
<1>3. ASSUME pc[t] = label, to # label
      PROVE  Cardinality(At(label)') = Cardinality(At(label)) - 1
  <2>1. At(label)' = At(label) \ {t} /\ t \in At(label)
    BY <1>3 DEF At, Goto, TypeOK
  <2> QED
    BY ZenonT(40), <1>1, <2>1, FS_RemoveElement
<1>4. ASSUME pc[t] # label, to = label
      PROVE  Cardinality(At(label)') = Cardinality(At(label)) + 1
  <2>1. At(label)' = At(label) \cup {t} /\ t \notin At(label)
    BY <1>4 DEF At, Goto, TypeOK
  <2> QED
    BY <1>1, <2>1, FS_AddElement
<1> QED
  BY <1>1, <1>2, <1>3, <1>4

\* What m_size would be if it were not bounded by its register.
Size == m_maximumReadIndex - m_readIndex - Cardinality(At("push_count")) + Cardinality(At("pop_count"))

\* A commit and a CAS of Pop change the content and the calls that have not counted
\* it alike; the two counting steps change m_size and the number of these calls.
LEMMA SizeStep == Inv /\ m_size = Size % COUNTER_MOD /\ [Next]_vars => (m_size = Size % COUNTER_MOD)'
<1> SUFFICES ASSUME Inv, m_size = Size % COUNTER_MOD, [Next]_vars
             PROVE  m_size' = Size' % COUNTER_MOD
  OBVIOUS
<1> TypeOK
  BY DEF Inv
<1>1. {"push_count", "pop_count", "idle", "push_read_w", "push_read_r", "push_cas", "push_store",
       "push_commit", "pop_read_r", "pop_read_m", "pop_load", "pop_cas"} \subseteq PCs
  BY DEF PCs, Reserving, Reserved, Popping
<1>2. Size \in Int
  <2>1. \A label : At(label) \subseteq Threads
    BY DEF At
  <2>2. \A label : Cardinality(At(label)) \in Nat
    BY <2>1, FS_Subset, FS_CardinalityType
  <2> QED
    BY <2>2 DEF Size, TypeOK
<1>3. CASE m_size' = m_size /\ Size' = Size
  BY <1>3
<1>4. CASE UNCHANGED vars
  BY <1>3, <1>4 DEF vars, Size, At
<1>5. ASSUME NEW t \in Threads, NEW to \in PCs, Goto(t, to),
             pc[t] \notin {"push_count", "pop_count"}, to \notin {"push_count", "pop_count"},
             UNCHANGED <<m_size, m_maximumReadIndex, m_readIndex>>
      PROVE  m_size' = Size' % COUNTER_MOD
  <2>1. /\ Cardinality(At("push_count")') = Cardinality(At("push_count"))
        /\ Cardinality(At("pop_count")') = Cardinality(At("pop_count"))
    BY <1>1, <1>5, AtMoves
  <2> QED
    BY <1>3, <1>5, <2>1 DEF Size
<1>6. ASSUME NEW t \in Threads, NEW e \in Elems, PushCall(t, e)
      PROVE  m_size' = Size' % COUNTER_MOD
  BY <1>1, <1>5, <1>6 DEF PushCall, indices
<1>7. ASSUME NEW t \in Threads, PopCall(t)
      PROVE  m_size' = Size' % COUNTER_MOD
  BY <1>1, <1>5, <1>7 DEF PopCall, indices
<1>8. ASSUME NEW t \in Threads, PushReadWrite(t) \/ PushReadRead(t) \/ PushStore(t)
      PROVE  m_size' = Size' % COUNTER_MOD
  BY <1>1, <1>5, <1>8 DEF PushReadWrite, PushReadRead, PushStore, indices
<1>9. ASSUME NEW t \in Threads, PushRefuse(t) \/ PopRefuse(t)
      PROVE  m_size' = Size' % COUNTER_MOD
  BY <1>1, <1>5, <1>9 DEF PushRefuse, PopRefuse, Return, indices
<1>10. ASSUME NEW t \in Threads, PushReserve(t)
       PROVE  m_size' = Size' % COUNTER_MOD
  BY <1>1, <1>5, <1>10 DEF PushReserve
<1>11. ASSUME NEW t \in Threads, PushCommit(t)
       PROVE  m_size' = Size' % COUNTER_MOD
  <2>1. /\ Cardinality(At("push_count")') = Cardinality(At("push_count")) + 1
        /\ Cardinality(At("pop_count")') = Cardinality(At("pop_count"))
        /\ Cardinality(At("push_count")) \in Nat /\ Cardinality(At("pop_count")) \in Nat
    BY <1>1, <1>11, AtMoves DEF PushCommit
  <2> QED
    BY <1>3, <1>11, <2>1 DEF PushCommit, Size, TypeOK
<1>12. ASSUME NEW t \in Threads, PushCount(t)
       PROVE  m_size' = Size' % COUNTER_MOD
  <2>1. /\ Cardinality(At("push_count")') = Cardinality(At("push_count")) - 1
        /\ Cardinality(At("pop_count")') = Cardinality(At("pop_count"))
        /\ Cardinality(At("push_count")) \in Nat /\ Cardinality(At("pop_count")) \in Nat
    BY <1>1, <1>12, AtMoves DEF PushCount, Return
  <2>2. Size' = Size + 1
    BY <1>12, <2>1 DEF PushCount, Size, TypeOK, indices
  <2>3. m_size' = (m_size + 1) % COUNTER_MOD
    BY <1>12 DEF PushCount
  <2> QED
    BY <1>2, <2>2, <2>3, ModSteps
<1>13. ASSUME NEW t \in Threads, PopReadRead(t) \/ PopReadMaximum(t) \/ PopLoad(t)
       PROVE  m_size' = Size' % COUNTER_MOD
  BY <1>1, <1>5, <1>13 DEF PopReadRead, PopReadMaximum, PopLoad, indices
<1>14. ASSUME NEW t \in Threads, PopTake(t)
       PROVE  m_size' = Size' % COUNTER_MOD
  <2>1. CASE m_readIndex = count[t]
    <3>1. /\ Cardinality(At("push_count")') = Cardinality(At("push_count"))
          /\ Cardinality(At("pop_count")') = Cardinality(At("pop_count")) + 1
          /\ Cardinality(At("push_count")) \in Nat /\ Cardinality(At("pop_count")) \in Nat
      BY <1>1, <1>14, <2>1, AtMoves DEF PopTake
    <3> QED
      BY <1>3, <1>14, <2>1, <3>1 DEF PopTake, Size, TypeOK
  <2>2. CASE m_readIndex # count[t]
    BY <1>1, <1>5, <1>14, <2>2 DEF PopTake
  <2> QED
    BY <2>1, <2>2
<1>15. ASSUME NEW t \in Threads, PopCount(t)
       PROVE  m_size' = Size' % COUNTER_MOD
  <2>1. /\ Cardinality(At("push_count")') = Cardinality(At("push_count"))
        /\ Cardinality(At("pop_count")') = Cardinality(At("pop_count")) - 1
        /\ Cardinality(At("push_count")) \in Nat /\ Cardinality(At("pop_count")) \in Nat
    BY <1>1, <1>15, AtMoves DEF PopCount, Return
  <2>2. Size' = Size - 1
    BY <1>15, <2>1 DEF PopCount, Size, TypeOK, indices
  <2>3. m_size' = (m_size - 1) % COUNTER_MOD
    BY <1>15 DEF PopCount
  <2> QED
    BY <1>2, <2>2, <2>3, ModSteps
<1> QED
  BY <1>4, <1>6, <1>7, <1>8, <1>9, <1>10, <1>11, <1>12, <1>13, <1>14, <1>15
  DEF Next, PushStep, PopStep

\* m_size differs from the content by exactly the calls that moved an element and have
\* not counted it (lines 89 and 122), however many pushes and pops wrap the register.
THEOREM SizeLags == Spec => []SizeLagsByCalls
<1>1. Init => m_size = Size % COUNTER_MOD
  <2> SUFFICES ASSUME Init PROVE m_size = Size % COUNTER_MOD
    OBVIOUS
  <2>1. At("push_count") = {} /\ At("pop_count") = {}
    BY DEF Init, At
  <2>2. Size = 0
    BY <2>1, FS_EmptySet DEF Init, Size
  <2>3. 0 % COUNTER_MOD = 0
    BY ModUnique
  <2> QED
    BY <2>2, <2>3 DEF Init
<1>2. Inv /\ m_size = Size % COUNTER_MOD /\ [Next]_vars => (m_size = Size % COUNTER_MOD)'
  BY SizeStep
<1>3. m_size = Size % COUNTER_MOD => SizeLagsByCalls
  BY DEF Size, At, SizeLagsByCalls
<1> QED
  BY <1>1, <1>2, <1>3, InvHolds, PTL DEF Spec

-----------------------------------------------------------------------------
(* The three parts of the refinement mapping, step by step                  *)

\* The committed elements are a sequence.
LEMMA QueueBarType ==
  ASSUME Inv
  PROVE  queueBar \in Seq(Elems) /\ Len(queueBar) = m_maximumReadIndex - m_readIndex
<1> DEFINE n == m_maximumReadIndex - m_readIndex
<1>1. n \in Nat
  BY DEF Inv, TypeOK, Ordered
<1>2. \A i \in 1 .. n : ElemAt(m_readIndex + i - 1) \in Elems
  <2> TAKE i \in 1 .. n
  <2>1. m_readIndex + i - 1 \in Committed
    BY <1>1 DEF Committed, Inv, TypeOK
  <2> QED
    BY <2>1 DEF Inv, CommittedOnce
<1>3. queueBar = [i \in 1 .. n |-> ElemAt(m_readIndex + i - 1)]
  BY DEF queueBar
<1> HIDE DEF n
<1>4. queueBar \in [1 .. n -> Elems]
  BY <1>2, <1>3
<1>5. queueBar \in Seq(Elems) /\ Len(queueBar) = n
  BY <1>1, <1>4
<1> QED
  BY <1>5 DEF n

\* Where the calls are follows pc.
LEMMA CallMoves ==
  ASSUME TypeOK, NEW t \in Threads, NEW label \in PCs, Goto(t, label)
  PROVE  callBar' = [callBar EXCEPT ![t] = CallAt(label)]
BY DEF callBar, Goto, TypeOK

\* Only the thread that steps changes what its call carries.
LEMMA HandMoves ==
  ASSUME TypeOK, NEW t \in Threads, NEW label \in PCs, Goto(t, label),
         NEW d, data' = [data EXCEPT ![t] = d]
  PROVE  handBar' = [handBar EXCEPT ![t] =
                       IF label \in Reserving \cup Reserved \cup {"pop_count"} THEN d ELSE NoElem]
<1>1. \A u \in Threads : u # t => pc'[u] = pc[u] /\ data'[u] = data[u]
  BY DEF Goto, TypeOK
<1>2. pc'[t] = label /\ data'[t] = d
  BY DEF Goto, TypeOK
<1> QED
  BY <1>1, <1>2 DEF handBar, Carries

\* A step that leaves the data alone changes it if it begins or ends to carry.
LEMMA HandStays ==
  ASSUME TypeOK, NEW t \in Threads, NEW label \in PCs, Goto(t, label), UNCHANGED data
  PROVE  handBar' = [handBar EXCEPT ![t] =
                       IF label \in Reserving \cup Reserved \cup {"pop_count"} THEN data[t] ELSE NoElem]
<1>1. data' = [data EXCEPT ![t] = data[t]]
  BY DEF TypeOK
<1> QED
  BY <1>1, HandMoves

\* The queue is unchanged while the committed counts and their slots are.
LEMMA QueueStays ==
  ASSUME UNCHANGED <<m_maximumReadIndex, m_readIndex>>,
         \A c \in Committed : ElemAt(c)' = ElemAt(c), TypeOK
  PROVE  queueBar' = queueBar
<1>1. \A i \in 1 .. (m_maximumReadIndex - m_readIndex) : m_readIndex + i - 1 \in Committed
  BY DEF Committed, TypeOK
<1>2. \A i \in 1 .. (m_maximumReadIndex - m_readIndex) :
         ElemAt(m_readIndex + i - 1)' = ElemAt(m_readIndex + i - 1)
  BY <1>1
<1> QED
  BY <1>2 DEF queueBar, ElemAt

LEMMA QueueUntouched ==
  ASSUME UNCHANGED <<m_maximumReadIndex, m_readIndex, m_Queue>>
  PROVE  queueBar' = queueBar
BY DEF queueBar, ElemAt

-----------------------------------------------------------------------------
(* Steps                                                                    *)

\* The stages of a call, place by place.
PushPlaces == {"push_read_w", "push_read_r", "push_cas", "push_store", "push_commit"}
PopPlaces == {"pop_read_r", "pop_read_m", "pop_load", "pop_cas"}

LEMMA Labels ==
  /\ PCs = PushPlaces \cup PopPlaces \cup {"idle", "push_count", "pop_count"}
  /\ Reserving \cup Reserved = PushPlaces /\ Popping = PopPlaces
  /\ CallAt("idle") = "none" /\ CallAt("push_count") = "pushed" /\ CallAt("pop_count") = "popped"
  /\ \A label \in PushPlaces : CallAt(label) = "push"
  /\ \A label \in PopPlaces : CallAt(label) = "pop"
<1>1. /\ PCs = PushPlaces \cup PopPlaces \cup {"idle", "push_count", "pop_count"}
      /\ Reserving \cup Reserved = PushPlaces /\ Popping = PopPlaces
  BY DEF PCs, Reserving, Reserved, Popping, PushPlaces, PopPlaces
<1>2. CallAt("idle") = "none" /\ CallAt("push_count") = "pushed" /\ CallAt("pop_count") = "popped"
  BY DEF Reserving, Reserved, Popping, CallAt
<1>3. \A label \in PushPlaces : CallAt(label) = "push"
  BY DEF Reserving, Reserved, Popping, CallAt, PushPlaces
<1>4. \A label \in PopPlaces : CallAt(label) = "pop"
  BY DEF Reserving, Reserved, Popping, CallAt, PopPlaces
<1> QED
  BY <1>1, <1>2, <1>3, <1>4

\* Both parts stay as they are while a call stays at its stage.
LEMMA SameStage ==
  ASSUME Inv, NEW t \in Threads, NEW label \in PCs, Goto(t, label), CallAt(label) = CallAt(pc[t]),
         UNCHANGED data \/ (pc[t] \in Popping /\ label \in Popping /\ \E d : data' = [data EXCEPT ![t] = d])
  PROVE  UNCHANGED <<callBar, handBar>>
<1> TypeOK
  BY DEF Inv
<1>1. callBar' = callBar
  BY CallMoves DEF callBar
<1>2. CASE UNCHANGED data
  <2>1. (label \in Reserving \cup Reserved \cup {"pop_count"}) <=> Carries(t)
    BY DEF CallAt, Carries, TypeOK, PCs, Reserving, Reserved, Popping
  <2> QED
    BY ZenonT(40), <1>1, <1>2, <2>1, HandStays DEF handBar
<1>3. CASE pc[t] \in Popping /\ label \in Popping /\ \E d : data' = [data EXCEPT ![t] = d]
  <2>1. handBar' = [handBar EXCEPT ![t] = NoElem]
    BY <1>3, HandMoves DEF Popping, Reserving, Reserved
  <2>2. handBar[t] = NoElem
    BY <1>3 DEF handBar, Carries, Popping, Reserving, Reserved
  <2> QED
    BY <1>1, <2>1, <2>2 DEF handBar
<1> QED
  BY <1>2, <1>3
\* A call begins with an element in hand ...
LEMMA CallPushStep ==
  ASSUME Inv, NEW t \in Threads, NEW e \in Elems, PushCall(t, e)
  PROVE  Fifo!CallPush(t, e)
<1> TypeOK
  BY DEF Inv
<1>1. "push_read_w" \in PCs /\ "push_read_w" \in Reserving
  BY DEF PCs, Reserving
<1>2. callBar[t] = "none" /\ callBar' = [callBar EXCEPT ![t] = "push"]
  BY <1>1, Labels, CallMoves DEF PushCall, callBar
<1>3. handBar' = [handBar EXCEPT ![t] = e]
  BY <1>1, HandMoves DEF PushCall
<1>4. queueBar' = queueBar
  BY QueueUntouched DEF PushCall, indices
<1> QED
  BY <1>2, <1>3, <1>4 DEF PushCall, Fifo!CallPush

\* ... or without one.
LEMMA CallPopStep ==
  ASSUME Inv, NEW t \in Threads, PopCall(t)
  PROVE  Fifo!CallPop(t)
<1> TypeOK
  BY DEF Inv
<1>1. "pop_read_r" \in PCs /\ "pop_read_r" \in Popping /\ "pop_read_r" \notin Reserving \cup Reserved \cup {"pop_count"}
  BY DEF PCs, Popping, Reserving, Reserved
<1>2. callBar[t] = "none" /\ callBar' = [callBar EXCEPT ![t] = "pop"]
  BY <1>1, Labels, CallMoves DEF PopCall, callBar
<1>3. handBar' = [handBar EXCEPT ![t] = NoElem]
  BY <1>1, HandStays DEF PopCall
<1>4. handBar[t] = NoElem
  BY DEF PopCall, handBar, Carries, Reserving, Reserved
<1>5. handBar' = handBar
  BY <1>3, <1>4 DEF handBar
<1>6. queueBar' = queueBar
  BY QueueUntouched DEF PopCall, indices
<1> QED
  BY <1>2, <1>5, <1>6 DEF PopCall, Fifo!CallPop

\* The commit appends the element: the slot of the count that is committed holds it.
LEMMA EnqueueStep ==
  ASSUME Inv, TypeOK', NEW t \in Threads, PushCommit(t)
  PROVE  Fifo!Enqueue(t)
<1> TypeOK
  BY DEF Inv
<1> DEFINE n == m_maximumReadIndex - m_readIndex
<1>1. "push_count" \in PCs /\ "push_count" \notin Reserving \cup Reserved \cup {"pop_count"}
      /\ "push_commit" \in Reserving \cup Reserved
  BY DEF PCs, Reserving, Reserved
<1>2. callBar[t] = "push" /\ callBar' = [callBar EXCEPT ![t] = "pushed"]
  BY <1>1, Labels, CallMoves DEF PushCommit, callBar
<1>3. handBar[t] = data[t] /\ data[t] \in Elems
  BY <1>1 DEF PushCommit, handBar, Carries, Inv, CarriedOnce
<1>4. handBar' = [handBar EXCEPT ![t] = NoElem]
  BY <1>1, HandStays DEF PushCommit
<1>5. ElemAt(m_maximumReadIndex) = data[t]
  BY DEF PushCommit, Inv, Stored
<1>6. queueBar' = Append(queueBar, handBar[t])
  <2>1. n \in Nat
    BY DEF Inv, Ordered, TypeOK
  <2>2. queueBar' = [i \in 1 .. n + 1 |-> ElemAt(m_readIndex + i - 1)]
    <3>1. m_maximumReadIndex' - m_readIndex' = n + 1 /\ m_readIndex' = m_readIndex /\ m_Queue' = m_Queue
      BY DEF PushCommit, TypeOK
    <3> HIDE DEF n
    <3> QED
      BY <3>1 DEF queueBar, ElemAt
  <2>3. queueBar \in Seq(Elems) /\ Len(queueBar) = n
    BY QueueBarType
  <2>4. ElemAt(m_readIndex + (n + 1) - 1) = data[t]
    BY <1>5, <2>1 DEF TypeOK
  <2> HIDE DEF n
  <2>5. \A i \in 1 .. n : queueBar[i] = ElemAt(m_readIndex + i - 1)
    BY DEF queueBar, n
  <2>6. /\ Append(queueBar, data[t]) \in Seq(Elems)
        /\ Len(Append(queueBar, data[t])) = n + 1
        /\ \A i \in 1 .. n : Append(queueBar, data[t])[i] = ElemAt(m_readIndex + i - 1)
        /\ Append(queueBar, data[t])[n + 1] = data[t]
    BY <1>3, <2>3, <2>5, AppendProperties
  <2> QED
    BY <1>3, <2>1, <2>2, <2>4, <2>6
<1> QED
  BY <1>2, <1>4, <1>6 DEF PushCommit, Fifo!Enqueue

\* The CAS takes the oldest element: the slot of m_readIndex still holds it.
LEMMA DequeueStep ==
  ASSUME Inv, NEW t \in Threads, PopTake(t), m_readIndex = count[t]
  PROVE  Fifo!Dequeue(t)
<1> TypeOK
  BY DEF Inv
<1> DEFINE n == m_maximumReadIndex - m_readIndex
<1>1. /\ "pop_count" \in PCs /\ "pop_cas" \in Popping
      /\ "pop_cas" \notin Reserving \cup Reserved \cup {"pop_count"}
  BY DEF PCs, Reserving, Reserved, Popping
<1>2. callBar[t] = "pop" /\ callBar' = [callBar EXCEPT ![t] = "popped"]
  BY <1>1, Labels, CallMoves DEF PopTake, callBar
<1>3. handBar' = [handBar EXCEPT ![t] = data[t]]
  BY <1>1, HandStays DEF PopTake
<1>4. n \in Nat /\ n >= 1 /\ data[t] = ElemAt(m_readIndex)
  BY DEF PopTake, Inv, Snapshot, Ordered, TypeOK
<1>5. queueBar \in Seq(Elems) /\ Len(queueBar) = n
  BY QueueBarType
<1>6. queueBar' = [i \in 1 .. n - 1 |-> ElemAt(m_readIndex + 1 + i - 1)]
  <2>1. m_maximumReadIndex' - m_readIndex' = n - 1 /\ m_readIndex' = m_readIndex + 1 /\ m_Queue' = m_Queue
    BY DEF PopTake, TypeOK
  <2> HIDE DEF n
  <2> QED
    BY <2>1 DEF queueBar, ElemAt
<1> HIDE DEF n
<1>7. \A i \in 1 .. n : queueBar[i] = ElemAt(m_readIndex + i - 1)
  BY DEF queueBar, n
<1>8. queueBar # <<>> /\ Head(queueBar) = data[t]
  <2>1. queueBar # <<>>
    BY <1>4, <1>5
  <2>2. Head(queueBar) = queueBar[1]
    BY <1>5, <2>1
  <2>3. queueBar[1] = ElemAt(m_readIndex + 1 - 1)
    BY <1>4, <1>7
  <2>4. m_readIndex + 1 - 1 = m_readIndex
    BY DEF TypeOK
  <2> QED
    BY <1>4, <2>1, <2>2, <2>3, <2>4
<1>9. queueBar' = Tail(queueBar)
  <2>1. /\ Tail(queueBar) \in Seq(Elems) /\ Len(Tail(queueBar)) = n - 1
        /\ \A i \in 1 .. n - 1 : Tail(queueBar)[i] = queueBar[i + 1]
    BY <1>4, <1>5, <1>8, HeadTailProperties
  <2>2. \A i \in 1 .. n - 1 : Tail(queueBar)[i] = ElemAt(m_readIndex + 1 + i - 1)
    <3> TAKE i \in 1 .. n - 1
    <3>1. i + 1 \in 1 .. n /\ m_readIndex + (i + 1) - 1 = m_readIndex + 1 + i - 1
      BY <1>4 DEF TypeOK
    <3>2. queueBar[i + 1] = ElemAt(m_readIndex + (i + 1) - 1)
      BY <1>7, <3>1
    <3> QED
      BY <2>1, <3>1, <3>2
  <2>3. Tail(queueBar) = [i \in 1 .. n - 1 |-> Tail(queueBar)[i]]
    <3> DEFINE rest == Tail(queueBar)
    <3>1. rest \in [1 .. Len(rest) -> Elems]
      BY <2>1, LenProperties
    <3> HIDE DEF rest
    <3>2. rest = [i \in 1 .. Len(rest) |-> rest[i]]
      BY <3>1
    <3> QED
      BY <2>1, <3>2 DEF rest
  <2> QED
    BY <1>6, <2>2, <2>3, Zenon
<1> QED
  BY <1>2, <1>3, <1>8, <1>9 DEF PopTake, Fifo!Dequeue

\* A call that returns gives back what it carries.
LEMMA ReturnStep ==
  ASSUME Inv, NEW t \in Threads, pc[t] \in PCs \ {"idle"},
         NEW given, given = (IF Carries(t) THEN {data[t]} ELSE {}), Return(t, given),
         UNCHANGED <<m_Queue, indices>>
  PROVE  Fifo!Return(t)
<1> TypeOK
  BY DEF Inv
<1>1. "idle" \in PCs /\ "idle" \notin Reserving \cup Reserved \cup {"pop_count"}
  BY DEF PCs, Reserving, Reserved
<1>2. callBar[t] # "none" /\ callBar' = [callBar EXCEPT ![t] = "none"]
  <2>1. callBar' = [callBar EXCEPT ![t] = "none"]
    BY <1>1, Labels, CallMoves DEF Return
  <2>2. CallAt(pc[t]) # "none"
    BY DEF CallAt, PCs, Reserving, Reserved, Popping
  <2> QED
    BY <2>1, <2>2 DEF callBar
<1>3. handBar' = [handBar EXCEPT ![t] = NoElem]
  BY <1>1, HandMoves DEF Return
<1>4. {handBar[t]} \ {NoElem} = given
  <2>1. CASE Carries(t)
    <3>1. handBar[t] = data[t] /\ data[t] # NoElem
      BY <2>1, QueueAssumption DEF handBar, Inv, CarriedOnce
    <3> QED
      BY <2>1, <3>1
  <2>2. CASE ~Carries(t)
    BY <2>2 DEF handBar
  <2> QED
    BY <2>1, <2>2
<1>5. queueBar' = queueBar
  BY QueueUntouched DEF indices
<1> QED
  BY <1>2, <1>3, <1>4, <1>5 DEF Return, Fifo!Return

\* Storing into the slot of a reserved count does not touch a committed one.
LEMMA StoreStep ==
  ASSUME Inv, NEW t \in Threads, PushStore(t)
  PROVE  UNCHANGED Fifo!vars
<1> TypeOK
  BY DEF Inv
<1>1. "push_commit" \in PCs /\ CallAt("push_commit") = "push" /\ CallAt("push_store") = "push"
  BY Labels DEF PushPlaces
<1>2. UNCHANGED <<callBar, handBar>>
  BY <1>1, SameStage DEF PushStore
<1>3. \A c \in Committed : ElemAt(c)' = ElemAt(c)
  <2>1. count[t] \in m_readIndex .. (m_writeIndex - 1) /\ count[t] \notin Committed
    BY DEF PushStore, Inv, OneOwner, Ordered, TypeOK, Committed, Reserved
  <2>2. \A c \in Committed : c \in m_readIndex .. (m_writeIndex - 1) /\ c \in Nat
    BY DEF Committed, Inv, Ordered, TypeOK
  <2>3. SlotsApart
    BY Apart DEF Inv
  <2>4. \A c \in Committed : CountToIndex(c) # CountToIndex(count[t]) /\ CountToIndex(c) \in Slots
    BY <2>1, <2>2, <2>3, IndexType DEF SlotsApart
  <2> QED
    BY <2>4 DEF PushStore, ElemAt, TypeOK
<1>4. queueBar' = queueBar
  BY <1>3, QueueStays DEF PushStore, indices
<1> QED
  BY <1>2, <1>4 DEF PushStore, Fifo!vars

-----------------------------------------------------------------------------
\* Every step of the queue is a step of the abstract queue or leaves it alone.
LEMMA RefinementStep == Inv /\ TypeOK' /\ [Next]_vars => [Fifo!Next]_(Fifo!vars)
<1> SUFFICES ASSUME Inv, TypeOK', [Next]_vars PROVE Fifo!Next \/ UNCHANGED Fifo!vars
  OBVIOUS
<1> TypeOK
  BY DEF Inv
<1>1. CASE UNCHANGED vars
  BY <1>1 DEF vars, Fifo!vars, queueBar, callBar, handBar, ElemAt, Carries
<1>2. ASSUME NEW t \in Threads, NEW e \in Elems, PushCall(t, e)
      PROVE  Fifo!Next
  BY <1>2, CallPushStep DEF Fifo!Next
<1>3. ASSUME NEW t \in Threads, PopCall(t)
      PROVE  Fifo!Next
  BY <1>3, CallPopStep DEF Fifo!Next
<1>4. ASSUME NEW t \in Threads, NEW label \in PCs, Goto(t, label), CallAt(label) = CallAt(pc[t]),
             UNCHANGED data \/ (pc[t] \in Popping /\ label \in Popping /\ \E d : data' = [data EXCEPT ![t] = d]),
             UNCHANGED <<m_Queue, m_maximumReadIndex, m_readIndex, outside>>
      PROVE  UNCHANGED Fifo!vars
  <2>1. UNCHANGED <<callBar, handBar>>
    BY <1>4, SameStage
  <2>2. queueBar' = queueBar
    BY <1>4, QueueUntouched
  <2> QED
    BY <1>4, <2>1, <2>2 DEF Fifo!vars
<1>5. ASSUME NEW t \in Threads, PushStep(t)
      PROVE  Fifo!Next \/ UNCHANGED Fifo!vars
  <2>1. CASE PushReadWrite(t)
    BY <1>4, <2>1, Labels DEF PushReadWrite, PushPlaces, indices
  <2>2. CASE PushReadRead(t)
    BY <1>4, <2>2, Labels DEF PushReadRead, PushPlaces, indices
  <2>3. CASE PushReserve(t)
    BY <1>4, <2>3, Labels DEF PushReserve, PushPlaces
  <2>4. CASE PushRefuse(t)
    <3>1. Fifo!Return(t)
      BY <2>4, ReturnStep DEF PushRefuse, Carries, PCs, Reserving
    <3> QED
      BY <3>1 DEF Fifo!Next
  <2>5. CASE PushCommit(t)
    BY <2>5, EnqueueStep DEF Fifo!Next
  <2>6. CASE PushCount(t)
    <3>1. Fifo!Return(t)
      BY <2>6, ReturnStep DEF PushCount, Carries, PCs, Reserving, Reserved
    <3> QED
      BY <3>1 DEF Fifo!Next
  <2>7. CASE PushStore(t)
    BY <2>7, StoreStep
  <2> QED
    BY <1>5, <2>1, <2>2, <2>3, <2>4, <2>5, <2>6, <2>7 DEF PushStep
<1>6. ASSUME NEW t \in Threads, PopStep(t)
      PROVE  Fifo!Next \/ UNCHANGED Fifo!vars
  <2>1. CASE PopReadRead(t)
    BY <1>4, <2>1 DEF PopReadRead, CallAt, PCs, Popping, Reserving, Reserved, indices
  <2>2. CASE PopReadMaximum(t)
    BY <1>4, <2>2 DEF PopReadMaximum, CallAt, PCs, Popping, Reserving, Reserved, indices
  <2>3. CASE PopLoad(t)
    BY <1>4, <2>3 DEF PopLoad, CallAt, PCs, Popping, Reserving, Reserved, indices
  <2>4. CASE PopRefuse(t)
    <3>1. Fifo!Return(t)
      BY <2>4, ReturnStep DEF PopRefuse, Carries, PCs, Popping, Reserving, Reserved
    <3> QED
      BY <3>1 DEF Fifo!Next
  <2>5. CASE PopTake(t) /\ m_readIndex = count[t]
    BY <2>5, DequeueStep DEF Fifo!Next
  <2>6. CASE PopTake(t) /\ m_readIndex # count[t]
    BY <1>4, <2>6 DEF PopTake, CallAt, PCs, Popping, Reserving, Reserved
  <2>7. CASE PopCount(t)
    <3>1. Fifo!Return(t)
      BY <2>7, ReturnStep DEF PopCount, Carries, PCs
    <3> QED
      BY <3>1 DEF Fifo!Next
  <2> QED
    BY <1>6, <2>1, <2>2, <2>3, <2>4, <2>5, <2>6, <2>7 DEF PopStep
<1> QED
  BY <1>1, <1>2, <1>3, <1>5, <1>6 DEF Next

LEMMA RefinementInit == Init => Fifo!Init
<1> SUFFICES ASSUME Init PROVE Fifo!Init
  OBVIOUS
<1>1. queueBar = <<>>
  <2>1. Len(queueBar) = 0 /\ queueBar \in Seq(Elems)
    BY QueueAssumption, InvInit, QueueBarType DEF Init
  <2> QED
    BY <2>1
<1>2. callBar = [t \in Threads |-> "none"] /\ handBar = [t \in Threads |-> NoElem]
  BY Labels DEF Init, callBar, handBar, Carries, Reserving, Reserved
<1> QED
  BY <1>1, <1>2 DEF Init, Fifo!Init

\* CLockFreeQueue is a FIFO queue whose calls take effect at one moment or are refused,
\* for any number of threads, elements and slots.
THEOREM QueueIsFifo == Spec => IsFifo
<1>1. Inv => TypeOK
  BY DEF Inv
<1> QED
  BY <1>1, RefinementInit, RefinementStep, InvHolds, PTL DEF Spec, IsFifo, Fifo!Spec
=============================================================================
