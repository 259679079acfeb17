--------------------------- MODULE FlowControlProofs ---------------------------
(***************************************************************************)
(* The safety properties of FlowControl for all limits that satisfy         *)
(* FlowAssumption and any number of frames.  Inv is inductive: its parts    *)
(* LockOwner and InProgress say what holds in the middle of a ModifyRead,   *)
(* where FlagsAgree and DisabledHasWork claim nothing.                      *)
(***************************************************************************)
EXTENDS FlowControl, TLAPS

\* The initial state satisfies the invariant.
LEMMA InvInit == Init => Inv
<1> SUFFICES ASSUME Init PROVE Inv
  OBVIOUS
<1> USE FlowAssumption DEF Init
<1>1. TypeOK
  <2>1. sent \in 0 .. MaxFrames
    BY SMT DEF FlowAssumption
  <2>2. unread \in Nat /\ tasks \in Nat /\ chunk \in Nat /\ saved \in Nat /\ frames \in Nat /\ FrameCount \in Int
    BY SMT
  <2>3. interest \in BOOLEAN /\ ready \in BOOLEAN /\ ClientRead \in BOOLEAN /\ SocketRead \in BOOLEAN
    BY Zenon
  <2> QED
    BY <2>1, <2>2, <2>3 DEF TypeOK
<1>2. LockOwner /\ InProgress
  BY DEF LockOwner, InProgress
<1>3. CountIsOutstanding /\ DisabledHasWork /\ FlagsAgree /\ NoStrandedData
  BY DEF CountIsOutstanding, DisabledHasWork, FlagsAgree, NoStrandedData, Outstanding
<1> QED
  BY <1>1, <1>2, <1>3 DEF Inv

\* Variables keep their types under every step.
LEMMA TypeStep == Inv /\ [Next]_vars => TypeOK'
<1> SUFFICES ASSUME Inv, [Next]_vars PROVE TypeOK'
  OBVIOUS
<1> USE FlowAssumption DEF Inv, TypeOK, kernel, flags
<1>1. CASE UNCHANGED vars
  BY <1>1 DEF vars
<1>2. CASE Send \/ EpollWait
  <2>1. sent' \in 0 .. MaxFrames
    BY <1>2, SMT DEF Send, EpollWait, FlowAssumption
  <2>2. ready' \in BOOLEAN
    BY <1>2, Zenon DEF Send, EpollWait
  <2> QED
    BY <1>2, <2>1, <2>2 DEF Send, EpollWait
<1>3. CASE RecvWorker
  <2>1. CASE RecvTake \/ ReadNothing \/ SaveFrame \/ DropFrame \/ Restructed
    BY <2>1 DEF RecvTake, ReadNothing, SaveFrame, DropFrame, Restructed
  <2>2. CASE Read
    BY <2>2 DEF Read
  <2>3. CASE IncreaseFrameCount
    BY <2>3 DEF IncreaseFrameCount, IncreaseThen
  <2>4. CASE DisableFlag \/ DisableCtl \/ DisableDone
    BY <2>4 DEF DisableFlag, DisableCtl, DisableDone, CtlMod
  <2> QED
    BY <1>3, <2>1, <2>2, <2>3, <2>4 DEF RecvWorker
<1>4. CASE FrameWorker
  <2>1. CASE ProcessFrame \/ DecreaseFrameCount
    BY <2>1 DEF ProcessFrame, DecreaseFrameCount, DecreaseBelow
  <2>2. CASE EnableFlag \/ EnableCtl \/ EnableDone
    BY <2>2 DEF EnableFlag, EnableCtl, EnableWith, EnableDone, CtlMod
  <2> QED
    BY <1>4, <2>1, <2>2 DEF FrameWorker
<1>5. CASE Quiet
  BY <1>5 DEF Quiet, vars
<1> QED
  BY <1>1, <1>2, <1>3, <1>4, <1>5 DEF Next

\* The peer and the epoll thread.
LEMMA EnvironmentStep ==
  ASSUME Inv, TypeOK', Send \/ EpollWait
  PROVE  Inv'
<1> USE FlowAssumption
        DEF Inv, TypeOK, kernel, flags, CtlMod, LockOwner, InProgress, CountIsOutstanding,
            DisabledHasWork, FlagsAgree, NoStrandedData, Outstanding
<1>1. CASE Send
  BY <1>1 DEF Send
<1>2. CASE EpollWait
  BY <1>2 DEF EpollWait
<1> QED
  BY <1>1, <1>2

\* The receive worker: reading is disabled only above the high limit, under the lock.
LEMMA RecvStep ==
  ASSUME Inv, TypeOK', RecvWorker
  PROVE  Inv'
<1> USE FlowAssumption
        DEF Inv, TypeOK, kernel, flags, CtlMod, LockOwner, InProgress, CountIsOutstanding,
            DisabledHasWork, FlagsAgree, NoStrandedData, Outstanding
<1>1. CASE RecvTake
  BY <1>1 DEF RecvTake
<1>2. CASE Read
  BY <1>2 DEF Read
<1>3. CASE ReadNothing
  BY <1>3 DEF ReadNothing
<1>4. CASE SaveFrame
  BY <1>4 DEF SaveFrame
<1>5. CASE DropFrame
  BY <1>5 DEF DropFrame
<1>6. CASE Restructed
  BY <1>6 DEF Restructed
<1>7. CASE IncreaseFrameCount
  BY <1>7 DEF IncreaseFrameCount, IncreaseThen
<1>8. CASE DisableFlag
  BY <1>8 DEF DisableFlag
<1>9. CASE DisableCtl
  BY <1>9 DEF DisableCtl
<1>10. CASE DisableDone
  BY <1>10 DEF DisableDone
<1> QED
  BY <1>1, <1>2, <1>3, <1>4, <1>5, <1>6, <1>7, <1>8, <1>9, <1>10 DEF RecvWorker

\* The frame worker: a decrement below the low limit takes the lock and enables.
LEMMA FrameStep ==
  ASSUME Inv, TypeOK', FrameWorker
  PROVE  Inv'
<1> USE FlowAssumption
        DEF Inv, TypeOK, kernel, flags, CtlMod, LockOwner, InProgress, CountIsOutstanding,
            DisabledHasWork, FlagsAgree, NoStrandedData, Outstanding
<1>1. CASE ProcessFrame
  BY <1>1 DEF ProcessFrame
<1>2. CASE DecreaseFrameCount
  BY <1>2 DEF DecreaseFrameCount, DecreaseBelow
<1>3. CASE EnableFlag
  BY <1>3 DEF EnableFlag
<1>4. CASE EnableCtl
  BY <1>4 DEF EnableCtl, EnableWith
<1>5. CASE EnableDone
  BY <1>5 DEF EnableDone
<1> QED
  BY <1>1, <1>2, <1>3, <1>4, <1>5 DEF FrameWorker

\* Every step preserves the invariant.
LEMMA InvStep == Inv /\ [Next]_vars => Inv'
<1> SUFFICES ASSUME Inv, [Next]_vars PROVE Inv'
  OBVIOUS
<1>1. TypeOK'
  BY TypeStep
<1>2. CASE UNCHANGED vars \/ Quiet
  BY <1>2 DEF vars, Quiet, Inv, TypeOK, LockOwner, InProgress, CountIsOutstanding,
              DisabledHasWork, FlagsAgree, NoStrandedData, Outstanding
<1>3. CASE Send \/ EpollWait
  BY <1>1, <1>3, EnvironmentStep
<1>4. CASE RecvWorker
  BY <1>1, <1>4, RecvStep
<1>5. CASE FrameWorker
  BY <1>1, <1>5, FrameStep
<1> QED
  BY <1>2, <1>3, <1>4, <1>5 DEF Next

\* The inductive invariant holds of every reachable state.
THEOREM InvHolds == Spec => []Inv
  BY InvInit, InvStep, PTL DEF Spec

\* While reading is disabled, enough frames are on their way to enable it again:
\* the two limits, tested by different threads, cannot leave a socket disabled
\* with nothing to do (lines 138 and 158 of RecvDataProc.cpp).
THEOREM NeverStuckDisabled == Spec => []DisabledHasWork
<1>1. Inv => DisabledHasWork
  BY DEF Inv
<1> QED
  BY <1>1, InvHolds, PTL

\* The flags of ClientInfo and SocketInformation agree with epoll whenever
\* ClientMapLock is free.
THEOREM FlagsAlwaysAgree == Spec => []FlagsAgree
<1>1. Inv => FlagsAgree
  BY DEF Inv
<1> QED
  BY <1>1, InvHolds, PTL

\* FrameCount is exact up to the frames that are queued and not counted yet.
THEOREM CountExact == Spec => []CountIsOutstanding
<1>1. Inv => CountIsOutstanding
  BY DEF Inv
<1> QED
  BY <1>1, InvHolds, PTL

\* Data that may be read is always about to be seen by somebody.
THEOREM NothingStranded == Spec => []NoStrandedData
<1>1. Inv => NoStrandedData
  BY DEF Inv
<1> QED
  BY <1>1, InvHolds, PTL
=============================================================================
