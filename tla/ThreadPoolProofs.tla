--------------------------- MODULE ThreadPoolProofs ---------------------------
(***************************************************************************)
(* Inv of ThreadPool is inductive, for any number of workers, tasks and ids, *)
(* and every step of the pool is a step of SerialExecutor or none.           *)
(***************************************************************************)
EXTENDS ThreadPool, SequenceTheorems, TLAPS

USE ThreadPoolAssumption

-----------------------------------------------------------------------------
(* Lemmas about the operators                                               *)

\* Every id has a worker.
LEMMA WorkerOfType == \A id \in Ids : WorkerOf(id) \in Workers
  BY DEF WorkerOf, Workers

\* What AddTask and AddTaskBatch add are sequences of tasks that the worker of the id
\* is to run.
LEMMA AddsArePuts ==
  ASSUME (\E t \in Tasks : AddTask(t)) \/ (\E id \in Ids : AddTaskBatch(id)), TypeOK
  PROVE  \E id \in Ids : \E batch \in Seq({t \in Tasks : IdOf[t] = id}) : Put(id, batch)
<1>1. ASSUME NEW t \in Tasks, AddTask(t)
      PROVE  \E id \in Ids : \E batch \in Seq({u \in Tasks : IdOf[u] = id}) : Put(id, batch)
  <2>1. IdOf[t] \in Ids
    OBVIOUS
  <2>2. <<t>> \in Seq({u \in Tasks : IdOf[u] = IdOf[t]})
    OBVIOUS
  <2> QED
    BY <1>1, <2>1, <2>2 DEF AddTask
<1>2. ASSUME NEW id \in Ids, AddTaskBatch(id)
      PROVE  \E i \in Ids : \E batch \in Seq({u \in Tasks : IdOf[u] = i}) : Put(i, batch)
  <2>1. PICK n \in 0 .. MaxBatch : \E batch \in [1 .. n -> {t \in fresh : IdOf[t] = id}] : Put(id, batch)
    BY <1>2 DEF AddTaskBatch
  <2>2. PICK batch \in [1 .. n -> {t \in fresh : IdOf[t] = id}] : Put(id, batch)
    BY <2>1
  <2>3. batch \in [1 .. n -> {t \in Tasks : IdOf[t] = id}]
    BY DEF TypeOK
  <2>4. batch \in Seq({t \in Tasks : IdOf[t] = id})
    BY <2>3, SeqDef
  <2> QED
    BY <2>2, <2>4
<1> QED
  BY <1>1, <1>2

-----------------------------------------------------------------------------
(* Induction: every action preserves Inv                                    *)

\* The initial state satisfies the invariant.
LEMMA InvInit == Init => Inv
<1> SUFFICES ASSUME Init PROVE Inv
  OBVIOUS
<1> USE DEF Init, Workers
<1>1. TypeOK
  BY DEF TypeOK
<1>2. NotStarted /\ LockKeepsList /\ GarbageOnlyDown /\ InLane
  BY DEF NotStarted, LockKeepsList, GarbageOnlyDown, InLane
<1>3. AwakeWhenWork /\ NeverGarbage /\ WaitsOnlyIfMissed
  BY DEF AwakeWhenWork, NeverGarbage, WaitsOnlyIfMissed
<1> QED
  BY <1>1, <1>2, <1>3 DEF Inv

\* A worker is started, with a thread or without.
LEMMA InitPoolStep == Inv /\ InitPool => Inv'
<1> SUFFICES ASSUME Inv, InitPool PROVE Inv'
  OBVIOUS
<1> USE DEF Inv, TypeOK
<1> DEFINE v == started
<1>1. /\ v \in Workers /\ thread[v] = "none" /\ started' = v + 1
      /\ started' \in 0 .. m_iWorkerCount
      /\ \/ thread' = [thread EXCEPT ![v] = "get"] /\ UNCHANGED RuningFlag
         \/ RuningFlag' = [RuningFlag EXCEPT ![v] = FALSE] /\ UNCHANGED thread
      /\ UNCHANGED <<fresh, TaskList, signals, workTask, down, missed>>
  BY DEF InitPool, Workers, NotStarted
<1>2. NotStarted'
  BY SMTT(30), <1>1 DEF NotStarted, Workers
<1> HIDE DEF v
<1>3. TypeOK'
  BY <1>1
<1>4. LockKeepsList' /\ GarbageOnlyDown' /\ InLane' /\ AwakeWhenWork' /\ NeverGarbage'
  BY ZenonT(40), <1>1 DEF LockKeepsList, GarbageOnlyDown, InLane, AwakeWhenWork, NeverGarbage
<1>5. WaitsOnlyIfMissed'
  BY <1>1 DEF WaitsOnlyIfMissed
<1> QED
  BY <1>2, <1>3, <1>4, <1>5

\* Tasks are added while the thread does not have the lock, and a signal is to come.
LEMMA PutStep ==
  ASSUME Inv, NEW id \in Ids, NEW batch \in Seq({t \in Tasks : IdOf[t] = id}), Put(id, batch)
  PROVE  Inv'
<1> DEFINE w == WorkerOf(id)
<1> USE DEF Inv, TypeOK, Put, PutAnd
<1>1. w \in Workers
  BY WorkerOfType
<1>2. TaskList[w] \o batch \in Seq(Tasks)
  <2>1. batch \in Seq(Tasks)
    BY SeqMonotonic
  <2> QED
    BY <1>1, <2>1, ConcatProperties
<1>3. /\ TaskList' = [TaskList EXCEPT ![w] = TaskList[w] \o batch]
      /\ signals' = [signals EXCEPT ![w] = signals[w] + 1]
      /\ ~Locked(w)
  OBVIOUS
<1> HIDE DEF w
<1>4. TypeOK'
  <2>1. TaskList' \in [Workers -> Seq(Tasks)]
    <3> HIDE DEF Inv, Put
    <3> QED
      BY <1>2, <1>3 DEF Inv
  <2>2. signals' \in [Workers -> Nat]
    <3> HIDE DEF Inv, Put
    <3> QED
      BY <1>1, <1>3 DEF Inv
  <2>3. fresh' \subseteq Tasks
    OBVIOUS
  <2> QED
    BY <2>1, <2>2, <2>3
<1>5. NotStarted' /\ GarbageOnlyDown' /\ NeverGarbage' /\ WaitsOnlyIfMissed'
  BY DEF NotStarted, GarbageOnlyDown, NeverGarbage, WaitsOnlyIfMissed
<1>6. LockKeepsList' /\ AwakeWhenWork'
  BY <1>1, <1>2, <1>3 DEF LockKeepsList, AwakeWhenWork, Locked
<1>7. InLane'
  <2>1. batch \in Seq(OwnTasks(w))
    <3>1. {t \in Tasks : IdOf[t] = id} \subseteq OwnTasks(w)
      BY DEF OwnTasks, w
    <3> QED
      BY <3>1, SeqMonotonic
  <2>2. TaskList[w] \o batch \in Seq(OwnTasks(w))
    BY <1>1, <2>1, ConcatProperties DEF InLane
  <2> HIDE DEF Put
  <2> QED
    BY <1>1, <1>3, <2>2 DEF InLane, Put, PutAnd
<1> QED
  BY <1>4, <1>5, <1>6, <1>7

\* A signal wakes the thread if it waits, and has nothing to do otherwise.
LEMMA SignalStep ==
  ASSUME Inv, NEW w \in Workers, Signal(w)
  PROVE  Inv'
<1> USE DEF Inv, TypeOK, Signal
<1>1. TypeOK'
  OBVIOUS
<1>2. NotStarted' /\ LockKeepsList' /\ GarbageOnlyDown' /\ InLane'
  BY DEF NotStarted, LockKeepsList, GarbageOnlyDown, InLane
<1>3. AwakeWhenWork' /\ NeverGarbage' /\ WaitsOnlyIfMissed'
  BY DEF AwakeWhenWork, NeverGarbage, WaitsOnlyIfMissed
<1> QED
  BY <1>1, <1>2, <1>3

\* The steps of the thread that change nothing but its place.
LEMMA BranchStep ==
  ASSUME Inv, NEW w \in Workers, Test(w) \/ Wait(w) \/ SpuriousWake(w) \/ Check(w)
  PROVE  Inv'
<1> USE DEF Inv, TypeOK, Test, Wait, SpuriousWake, Check, Branch, Goto
<1>1. TypeOK'
  BY ZenonT(40)
<1>2. NotStarted' /\ LockKeepsList' /\ GarbageOnlyDown' /\ InLane'
  BY DEF NotStarted, LockKeepsList, GarbageOnlyDown, InLane
<1>3. AwakeWhenWork' /\ NeverGarbage'
  BY DEF AwakeWhenWork, NeverGarbage, LockKeepsList, GarbageOnlyDown
<1>4. WaitsOnlyIfMissed'
  BY DEF WaitsOnlyIfMissed
<1> QED
  BY <1>1, <1>2, <1>3, <1>4

\* The thread leaves GetTask, with the first task or with garbage.
LEMMA LeaveStep ==
  ASSUME Inv, NEW w \in Workers, Leave(w)
  PROVE  Inv'
<1> USE DEF Inv, TypeOK, Leave, Goto
<1>1. RuningFlag[w] => /\ TaskList[w] # <<>>
                       /\ Head(TaskList[w]) \in Tasks
                       /\ Tail(TaskList[w]) \in Seq(Tasks)
  BY HeadTailProperties DEF LockKeepsList
<1>2. TypeOK'
  <2>1. CASE RuningFlag[w]
    <3>1. TaskList' \in [Workers -> Seq(Tasks)]
      BY ZenonT(40), <1>1, <2>1
    <3>2. workTask' \in [Workers -> Tasks \cup {Garbage, NoTask}]
      BY ZenonT(40), <1>1, <2>1
    <3>3. \A u \in Workers : (workTask[u] = NoTask <=> thread[u] \notin {"check", "process", "exited"})'
      BY <1>1, <2>1
    <3> QED
      BY <3>1, <3>2, <3>3
  <2>2. CASE ~RuningFlag[w]
    BY <2>2
  <2> QED
    BY <2>1, <2>2
<1>3. NotStarted' /\ LockKeepsList' /\ GarbageOnlyDown'
  BY <1>1 DEF NotStarted, LockKeepsList, GarbageOnlyDown
<1>4. AwakeWhenWork' /\ NeverGarbage' /\ WaitsOnlyIfMissed'
  BY <1>1 DEF AwakeWhenWork, NeverGarbage, WaitsOnlyIfMissed
<1>5. InLane'
  <2>1. RuningFlag[w] => Head(TaskList[w]) \in OwnTasks(w) /\ Tail(TaskList[w]) \in Seq(OwnTasks(w))
    BY <1>1, HeadTailProperties DEF InLane
  <2>2. CASE RuningFlag[w]
    <3>1. \A u \in Workers : TaskList'[u] \in Seq(OwnTasks(u))
      BY <2>1, <2>2 DEF InLane
    <3>2. \A u \in Workers : workTask'[u] \in Tasks => workTask'[u] \in OwnTasks(u)
      BY <2>1, <2>2 DEF InLane
    <3> QED
      BY <3>1, <3>2 DEF InLane, OwnTasks
  <2>3. CASE ~RuningFlag[w]
    BY <2>3 DEF InLane
  <2> QED
    BY <2>2, <2>3
<1> QED
  BY <1>2, <1>3, <1>4, <1>5

\* A task ends.
LEMMA ProcessTaskStep ==
  ASSUME Inv, NEW w \in Workers, ProcessTask(w)
  PROVE  Inv'
<1> USE DEF Inv, TypeOK, ProcessTask, Goto
<1>1. TypeOK'
  OBVIOUS
<1>2. NotStarted' /\ LockKeepsList' /\ GarbageOnlyDown' /\ InLane'
  BY DEF NotStarted, LockKeepsList, GarbageOnlyDown, InLane
<1>3. AwakeWhenWork' /\ NeverGarbage' /\ WaitsOnlyIfMissed'
  BY DEF AwakeWhenWork, NeverGarbage, WaitsOnlyIfMissed
<1> QED
  BY <1>1, <1>2, <1>3

\* ShutDown begins, and goes on after a join.
LEMMA JoinStep == Inv /\ (ShutDown \/ Join) => Inv'
<1> SUFFICES ASSUME Inv, ShutDown \/ Join PROVE Inv'
  OBVIOUS
<1> USE DEF Inv, TypeOK
<1>1. /\ down' \in [at : {"no", "flag", "broadcast", "join", "done"}, w : Workers]
      /\ down.at # "broadcast" /\ down'.at # "broadcast"
      /\ UNCHANGED <<started, fresh, TaskList, RuningFlag, signals, thread, workTask, missed>>
  <2>1. 0 \in Workers
    BY DEF Workers
  <2> QED
    BY <2>1 DEF ShutDown, Join
<1>2. TypeOK' /\ NotStarted' /\ LockKeepsList' /\ GarbageOnlyDown' /\ InLane' /\ AwakeWhenWork' /\ NeverGarbage'
  BY <1>1 DEF NotStarted, LockKeepsList, GarbageOnlyDown, InLane, AwakeWhenWork, NeverGarbage
<1>3. WaitsOnlyIfMissed'
  BY <1>1 DEF WaitsOnlyIfMissed
<1> QED
  BY <1>2, <1>3

\* ShutDown clears a flag, which is not set again; the broadcast is still to come.
LEMMA ClearFlagStep == Inv /\ ClearFlag => Inv'
<1> SUFFICES ASSUME Inv, ClearFlag PROVE Inv'
  OBVIOUS
<1> USE DEF Inv, TypeOK
<1> DEFINE v == down.w
<1>1. /\ v \in Workers
      /\ RuningFlag' = [RuningFlag EXCEPT ![v] = FALSE]
      /\ down.at = "flag"
      /\ down' = [at |-> "broadcast", w |-> v]
      /\ UNCHANGED <<started, fresh, TaskList, signals, thread, workTask, missed>>
  BY DEF ClearFlag
<1> HIDE DEF v
<1>2. TypeOK'
  BY <1>1
<1>3. NotStarted' /\ LockKeepsList' /\ GarbageOnlyDown' /\ InLane' /\ AwakeWhenWork' /\ NeverGarbage'
  BY <1>1 DEF NotStarted, LockKeepsList, GarbageOnlyDown, InLane, AwakeWhenWork, NeverGarbage
<1>4. WaitsOnlyIfMissed'
  BY <1>1 DEF WaitsOnlyIfMissed
<1> QED
  BY <1>2, <1>3, <1>4

\* The broadcast misses a thread only between its test and its wait.
LEMMA BroadcastStep == Inv /\ Broadcast => Inv'
<1> SUFFICES ASSUME Inv, Broadcast PROVE Inv'
  OBVIOUS
<1> USE DEF Inv, TypeOK
<1> DEFINE v == down.w
<1>1. /\ v \in Workers
      /\ thread' = [thread EXCEPT ![v] = IF thread[v] = "waiting" THEN "get" ELSE thread[v]]
      /\ missed' = missed \cup (IF thread[v] = "towait" THEN {v} ELSE {})
      /\ down.at = "broadcast"
      /\ down = [at |-> "broadcast", w |-> v]
      /\ down' = [at |-> "join", w |-> v]
      /\ UNCHANGED <<started, fresh, TaskList, RuningFlag, signals, workTask>>
  BY DEF Broadcast
<1> HIDE DEF v
<1>2. TypeOK'
  BY <1>1
<1>3. NotStarted' /\ LockKeepsList' /\ GarbageOnlyDown' /\ InLane' /\ AwakeWhenWork' /\ NeverGarbage'
  BY <1>1 DEF NotStarted, LockKeepsList, GarbageOnlyDown, InLane, AwakeWhenWork, NeverGarbage
<1>4. WaitsOnlyIfMissed'
  BY <1>1 DEF WaitsOnlyIfMissed
<1> QED
  BY <1>2, <1>3, <1>4

\* Every step preserves the invariant.
LEMMA InvStep == Inv /\ [Next]_vars => Inv'
<1> SUFFICES ASSUME Inv, [Next]_vars PROVE Inv'
  OBVIOUS
<1>1. CASE UNCHANGED vars
  BY <1>1 DEF vars, Inv, TypeOK, NotStarted, LockKeepsList, InLane, GarbageOnlyDown, AwakeWhenWork,
              NeverGarbage, WaitsOnlyIfMissed
<1>2. CASE InitPool \/ ShutDown \/ ShutDownStep
  BY <1>2, InitPoolStep, JoinStep, ClearFlagStep, BroadcastStep DEF ShutDownStep
<1>3. CASE (\E t \in Tasks : AddTask(t)) \/ (\E id \in Ids : AddTaskBatch(id))
  <2>1. PICK id \in Ids : \E batch \in Seq({t \in Tasks : IdOf[t] = id}) : Put(id, batch)
    BY <1>3, AddsArePuts DEF Inv
  <2>2. PICK batch \in Seq({t \in Tasks : IdOf[t] = id}) : Put(id, batch)
    BY <2>1
  <2> QED
    BY <2>2, PutStep
<1>4. ASSUME NEW w \in Workers, Signal(w) \/ SpuriousWake(w) \/ _ThreadRoutine(w)
      PROVE  Inv'
  BY <1>4, SignalStep, BranchStep, LeaveStep, ProcessTaskStep DEF _ThreadRoutine
<1> QED
  BY <1>1, <1>2, <1>3, <1>4 DEF Next

-----------------------------------------------------------------------------
(* The theorems                                                             *)

\* The inductive invariant holds of every reachable state of the pool.
THEOREM InvHolds == Spec => []Inv
  BY InvInit, InvStep, PTL DEF Spec

\* No wake-up is lost, although signals are sent after the unlock and the thread may
\* wake without one (ThreadPool.cpp:67, 93).
THEOREM NoLostWakeup == Spec => []AwakeWhenWork
<1>1. Inv => AwakeWhenWork
  BY DEF Inv
<1> QED
  BY <1>1, InvHolds, PTL

\* The pointer that GetTask leaves unassigned is never run (lines 97 to 122 and 47).
THEOREM GarbageNeverRun == Spec => []NeverGarbage
<1>1. Inv => NeverGarbage
  BY DEF Inv
<1> QED
  BY <1>1, InvHolds, PTL

\* A thread that still waits after the broadcast of its shutdown was between its test
\* and its wait (line 129, without the lock).
THEOREM OnlyMissedWait == Spec => []WaitsOnlyIfMissed
<1>1. Inv => WaitsOnlyIfMissed
  BY DEF Inv
<1> QED
  BY <1>1, InvHolds, PTL

-----------------------------------------------------------------------------
(* The refinement                                                           *)

serialVars == <<pendingBar, runningBar>>

\* Nothing is added, begun or ended while tasks, lists and the places with a task stay.
LEMMA Stutter ==
  ASSUME UNCHANGED <<TaskList, workTask>>,
         \A w \in Workers :
           \/ thread'[w] = thread[w]
           \/ {thread[w], thread'[w]} \cap {"check", "process", "exited"} = {}
  PROVE  UNCHANGED serialVars
<1>1. \A w \in Workers : Held(w)' = Held(w) /\ ((thread[w] = "process")' <=> thread[w] = "process")
  BY DEF Held
<1> QED
  BY <1>1 DEF serialVars, pendingBar, runningBar

\* Adding tasks is a submission to the lane of their worker.
LEMMA PutSubmits ==
  ASSUME Inv, Inv', NEW id \in Ids, NEW batch \in Seq({t \in Tasks : IdOf[t] = id}), Put(id, batch)
  PROVE  Serial!Submit(WorkerOf(id))
<1> DEFINE w == WorkerOf(id)
           own == OwnTasks(w)
<1>1. w \in Workers
  BY WorkerOfType
<1>2. batch \in Seq(own)
  <2>1. {t \in Tasks : IdOf[t] = id} \subseteq own
    BY DEF OwnTasks
  <2> QED
    BY <2>1, SeqMonotonic
<1>3. /\ TaskList' = [TaskList EXCEPT ![w] = TaskList[w] \o batch]
      /\ UNCHANGED <<thread, workTask>>
  BY DEF Put, PutAnd
<1>4. Held(w) \in Seq(own) /\ TaskList[w] \in Seq(own)
  BY <1>1 DEF Inv, InLane, Held
<1> HIDE DEF w, own
<1>5. \A u \in Workers : Held(u)' = Held(u)
  BY <1>3 DEF Held
<1>6. pendingBar'[w] = pendingBar[w] \o batch
  <2>1. TaskList'[w] = TaskList[w] \o batch
    BY <1>1, <1>3 DEF Inv, TypeOK
  <2>2. (Held(w) \o TaskList[w]) \o batch = Held(w) \o (TaskList[w] \o batch)
    <3>1. \A r, s, t \in Seq(own) : (r \o s) \o t = r \o (s \o t)
      BY SMTT(30), ConcatAssociative
    <3> QED
      BY ONLY <1>2, <1>4, <3>1, Zenon
  <2> QED
    BY <1>1, <1>5, <2>1, <2>2 DEF pendingBar
<1>7. pendingBar[w] \in Seq(own)
  BY <1>1, <1>4, ConcatProperties DEF pendingBar
<1>8. pendingBar'[w] \in Seq(own) /\ IsPrefix(pendingBar[w], pendingBar'[w])
  BY <1>2, <1>6, <1>7, ConcatProperties, SubSeqOfConcat1 DEF IsPrefix
<1>9. pendingBar' = [pendingBar EXCEPT ![w] = pendingBar'[w]]
  <2>1. \A u \in Workers : u # w => TaskList'[u] = TaskList[u]
    BY <1>1, <1>3 DEF Inv, TypeOK
  <2> QED
    BY <1>1, <1>5, <2>1 DEF pendingBar
<1>10. UNCHANGED runningBar
  BY <1>3 DEF runningBar
<1>11. own = {t \in Tasks : [u \in Tasks |-> WorkerOf(IdOf[u])][t] = w}
  BY DEF own, OwnTasks
<1>12. pendingBar'[w] \in Seq({t \in Tasks : [u \in Tasks |-> WorkerOf(IdOf[u])][t] = w})
  BY <1>8, <1>11
<1>13. Serial!Submit(w)
  <2>1. Serial!Submit(w) <=>
           /\ pendingBar'[w] \in Seq({t \in Tasks : [u \in Tasks |-> WorkerOf(IdOf[u])][t] = w})
           /\ IsPrefix(pendingBar[w], pendingBar'[w])
           /\ pendingBar' = [pendingBar EXCEPT ![w] = pendingBar'[w]]
           /\ UNCHANGED runningBar
    BY DEF Serial!Submit, Serial!IsPrefix, IsPrefix
  <2> QED
    BY <1>8, <1>9, <1>10, <1>12, <2>1, Zenon
<1> QED
  BY <1>13 DEF w

\* The thread takes the first task off its list and still has to begin it.
LEMMA LeaveStutters ==
  ASSUME Inv, NEW w \in Workers, Leave(w)
  PROVE  UNCHANGED serialVars
<1> USE DEF Inv, TypeOK, Leave, Goto
<1>1. \A u \in Workers : u # w =>
        thread'[u] = thread[u] /\ workTask'[u] = workTask[u] /\ TaskList'[u] = TaskList[u]
  OBVIOUS
<1>2. \A u \in Workers : u # w => Held(u)' = Held(u) /\ TaskList'[u] = TaskList[u]
  BY <1>1 DEF Held
<1>3. thread[w] = "leave" /\ thread'[w] = "check" /\ Held(w) = <<>>
  BY DEF Held
<1>4. (Held(w) \o TaskList[w])' = Held(w) \o TaskList[w]
  <2>1. CASE RuningFlag[w]
    <3>1. /\ TaskList[w] \in Seq(Tasks) /\ TaskList[w] # <<>>
          /\ TaskList'[w] = Tail(TaskList[w])
          /\ workTask'[w] = Head(TaskList[w])
      BY <2>1 DEF LockKeepsList
    <3>2. Head(TaskList[w]) \in Tasks
      BY <3>1
    <3>3. Held(w)' = <<Head(TaskList[w])>>
      BY <1>3, <3>1, <3>2 DEF Held
    <3>4. <<Head(TaskList[w])>> \o Tail(TaskList[w]) = TaskList[w]
      BY <3>1
    <3>5. <<>> \o TaskList[w] = TaskList[w]
      BY <3>1
    <3> QED
      BY <1>3, <3>1, <3>3, <3>4, <3>5, Zenon
  <2>2. CASE ~RuningFlag[w]
    <3>1. Held(w)' = <<>> /\ TaskList' = TaskList
      BY <2>2 DEF Held
    <3> QED
      BY <1>3, <3>1
  <2> QED
    BY <2>1, <2>2
<1>5. UNCHANGED pendingBar
  BY <1>2, <1>4 DEF pendingBar
<1>6. UNCHANGED runningBar
  BY <1>1, <1>3 DEF runningBar
<1> QED
  BY <1>5, <1>6 DEF serialVars

\* The thread begins the task it has taken, the first of the lane, or drops it.
LEMMA CheckStarts ==
  ASSUME Inv, Inv', NEW w \in Workers, Check(w)
  PROVE  Serial!Start(w) \/ UNCHANGED serialVars
<1> USE DEF Inv, TypeOK, Check, Branch, Goto
<1>1. \A u \in Workers : u # w => thread'[u] = thread[u] /\ workTask'[u] = workTask[u]
  OBVIOUS
<1>2. \A u \in Workers : u # w => Held(u)' = Held(u)
  BY <1>1 DEF Held
<1>3. TaskList' = TaskList /\ workTask'[w] = workTask[w] /\ thread[w] = "check"
  OBVIOUS
<1>4. CASE RuningFlag[w]
  <2>1. thread'[w] = "process"
    BY <1>4
  <2>2. workTask[w] \in Tasks
    BY <1>3, <2>1 DEF NeverGarbage
  <2>3. Held(w) = <<workTask[w]>> /\ Held(w)' = <<>>
    BY <1>3, <2>1, <2>2 DEF Held
  <2>4. TaskList[w] \in Seq(Tasks)
    OBVIOUS
  <2>5. /\ pendingBar[w] = <<workTask[w]>> \o TaskList[w]
        /\ pendingBar'[w] = <<>> \o TaskList[w]
    BY <1>3, <2>3 DEF pendingBar
  <2>6. /\ pendingBar[w] # <<>>
        /\ Head(pendingBar[w]) = workTask[w]
        /\ Tail(pendingBar[w]) = pendingBar'[w]
    <3> HIDE DEF Inv, Check
    <3> QED
      BY <2>2, <2>4, <2>5
  <2>7. pendingBar' = [pendingBar EXCEPT ![w] = Tail(pendingBar[w])]
    <3>1. \A u \in Workers : u # w => pendingBar'[u] = pendingBar[u]
      BY <1>2, <1>3 DEF pendingBar
    <3> HIDE DEF Inv, Check
    <3> QED
      BY <2>6, <3>1 DEF pendingBar
  <2>8. runningBar[w] = NoTask /\ runningBar' = [runningBar EXCEPT ![w] = Head(pendingBar[w])]
    <3>1. Head(pendingBar[w]) = workTask'[w]
      BY <1>3, <2>6
    <3> HIDE DEF Inv, Check
    <3> QED
      BY <1>1, <1>3, <2>1, <3>1 DEF runningBar
  <2> QED
    BY <2>6, <2>7, <2>8 DEF Serial!Start
<1>5. CASE ~RuningFlag[w]
  <2>1. thread'[w] = "exited"
    BY <1>5
  <2>2. \A u \in Workers : Held(u)' = Held(u)
    BY <1>2, <1>3, <2>1 DEF Held
  <2>3. UNCHANGED pendingBar
    BY <1>3, <2>2 DEF pendingBar
  <2>4. UNCHANGED runningBar
    BY <1>1, <1>3, <2>1 DEF runningBar
  <2> QED
    BY <2>3, <2>4 DEF serialVars
<1> QED
  BY <1>4, <1>5

\* The task ends, and only then can the next one of the lane begin.
LEMMA ProcessTaskFinishes ==
  ASSUME Inv, NEW w \in Workers, ProcessTask(w)
  PROVE  Serial!Finish(w)
<1> USE DEF Inv, TypeOK, ProcessTask, Goto
<1>1. \A u \in Workers : Held(u)' = Held(u)
  BY DEF Held
<1>2. UNCHANGED pendingBar
  BY <1>1 DEF pendingBar
<1>3. runningBar[w] # NoTask /\ runningBar' = [runningBar EXCEPT ![w] = NoTask]
  BY DEF runningBar
<1> QED
  BY <1>2, <1>3 DEF Serial!Finish

\* Every step of the pool is a step of SerialExecutor or leaves it as it is.
LEMMA SerialStep == Inv /\ Inv' /\ [Next]_vars => [Serial!Next]_serialVars
<1> SUFFICES ASSUME Inv, Inv', [Next]_vars PROVE [Serial!Next]_serialVars
  OBVIOUS
<1>1. CASE UNCHANGED vars
  BY <1>1, Stutter DEF vars
<1>2. CASE InitPool \/ ShutDown \/ ShutDownStep
  <2>1. UNCHANGED <<TaskList, workTask>>
    BY <1>2 DEF InitPool, ShutDown, ShutDownStep, ClearFlag, Broadcast, Join
  <2>2. ASSUME NEW w \in Workers
        PROVE  \/ thread'[w] = thread[w]
               \/ {thread[w], thread'[w]} \cap {"check", "process", "exited"} = {}
    BY <1>2 DEF InitPool, ShutDown, ShutDownStep, ClearFlag, Broadcast, Join, Inv, TypeOK, NotStarted,
                Workers
  <2> QED
    BY <2>1, <2>2, Stutter
<1>3. CASE (\E t \in Tasks : AddTask(t)) \/ (\E id \in Ids : AddTaskBatch(id))
  <2>1. PICK id \in Ids : \E batch \in Seq({t \in Tasks : IdOf[t] = id}) : Put(id, batch)
    BY <1>3, AddsArePuts DEF Inv
  <2>2. Serial!Submit(WorkerOf(id))
    BY <2>1, PutSubmits
  <2> QED
    BY <2>2, WorkerOfType DEF Serial!Next
<1>4. ASSUME NEW w \in Workers, Signal(w) \/ SpuriousWake(w) \/ Test(w) \/ Wait(w)
      PROVE  UNCHANGED serialVars
  <2>1. UNCHANGED <<TaskList, workTask>>
    BY <1>4 DEF Signal, SpuriousWake, Test, Wait, Branch
  <2>2. ASSUME NEW u \in Workers
        PROVE  \/ thread'[u] = thread[u]
               \/ {thread[u], thread'[u]} \cap {"check", "process", "exited"} = {}
    BY <1>4 DEF Signal, SpuriousWake, Test, Wait, Branch, Goto, Inv, TypeOK
  <2> QED
    BY <2>1, <2>2, Stutter
<1>5. ASSUME NEW w \in Workers, Leave(w) \/ Check(w) \/ ProcessTask(w)
      PROVE  [Serial!Next]_serialVars
  BY <1>5, LeaveStutters, CheckStarts, ProcessTaskFinishes DEF Serial!Next
<1> QED
  BY <1>1, <1>2, <1>3, <1>4, <1>5 DEF Next, _ThreadRoutine

\* The pool implements the serial executor: the tasks of a worker, and so those of an
\* id, run one at a time in the order of AddTask, for any number of workers, tasks and
\* callers and whenever ShutDown comes.
THEOREM PoolIsSerial == Spec => IsSerial
<1>1. Init => Serial!Init
  <2> SUFFICES ASSUME Init PROVE Serial!Init
    OBVIOUS
  <2>1. \A w \in Workers : Held(w) = <<>> /\ TaskList[w] = <<>> /\ thread[w] = "none"
    BY DEF Init, Held
  <2>2. <<>> \o <<>> = <<>>
    OBVIOUS
  <2> QED
    BY <2>1, <2>2 DEF Serial!Init, pendingBar, runningBar
<1> QED
  BY <1>1, SerialStep, InvHolds, PTL DEF Spec, IsSerial, Serial!Spec, serialVars
=============================================================================
