------------------------------ MODULE ThreadPool ------------------------------
(***************************************************************************)
(* CMasterWorkPool: workers of one thread each (ThreadPool.cpp with          *)
(* mThreadCount 1), start, tasks and shutdown.  Tasks are added once         *)
(* InitPool has returned; GetTask_Cust is NULL.                             *)
(***************************************************************************)
EXTENDS Integers, Sequences, FiniteSets, SequencesExt

CONSTANTS
  Tasks,           \* tasks that callers add
  Ids,             \* the ids they are added with
  IdOf,            \* the id of each task
  m_iWorkerCount,
  MaxBatch,        \* bound: tasks in a call of AddTaskBatch
  NoTask,          \* no task
  Garbage          \* the variable ret of GetTask when nothing is assigned to it

Workers == 0 .. m_iWorkerCount - 1

ASSUME ThreadPoolAssumption ==
  /\ m_iWorkerCount \in Nat \ {0} /\ MaxBatch \in Nat
  /\ Ids \subseteq Nat /\ IdOf \in [Tasks -> Ids]
  /\ NoTask \notin Tasks /\ Garbage \notin Tasks /\ Garbage # NoTask

VARIABLES
  started,     \* workers whose InitPool has been called
  fresh,       \* tasks that nobody has added
  TaskList,    \* of each worker
  RuningFlag,  \* of each worker
  signals,     \* callers of each worker between the unlock and pthread_cond_signal
  thread,      \* where the thread of each worker is; at "towait" and "leave" it has TaskListLock
  workTask,    \* the task that it has taken
  down,        \* where the caller of ShutDown is
  missed       \* workers whose thread was not waiting yet at the broadcast

vars == <<started, fresh, TaskList, RuningFlag, signals, thread, workTask, down, missed>>

Init ==
  /\ started = 0
  /\ fresh = Tasks
  /\ TaskList = [w \in Workers |-> <<>>]
  /\ RuningFlag = [w \in Workers |-> TRUE]
  /\ signals = [w \in Workers |-> 0]
  /\ thread = [w \in Workers |-> "none"]
  /\ workTask = [w \in Workers |-> NoTask]
  /\ down = [at |-> "no", w |-> 0]
  /\ missed = {}

-----------------------------------------------------------------------------
(* InitPool and the callers of AddTask                                      *)

\* The result is not looked at: a worker may be left without a thread.
InitPool ==
  /\ started < m_iWorkerCount
  /\ started' = started + 1
  /\ \/ thread' = [thread EXCEPT ![started] = "get"] /\ UNCHANGED RuningFlag
     \/ RuningFlag' = [RuningFlag EXCEPT ![started] = FALSE] /\ UNCHANGED thread
  /\ UNCHANGED <<fresh, TaskList, signals, workTask, down, missed>>

Ready == started = m_iWorkerCount

Locked(w) == thread[w] \in {"towait", "leave"}

WorkerOf(id) == id % m_iWorkerCount

\* The list changes under the lock; the signal comes after it.
PutAnd(id, batch, n) ==
  LET w == WorkerOf(id) IN
  /\ Ready /\ ~Locked(w)
  /\ fresh' = fresh \ ToSet(batch)
  /\ TaskList' = [TaskList EXCEPT ![w] = @ \o batch]
  /\ signals' = [signals EXCEPT ![w] = @ + n]
  /\ UNCHANGED <<started, RuningFlag, thread, workTask, down, missed>>

\* Mutant: without the signal.
PutQuiet(id, batch) == PutAnd(id, batch, 0)

Put(id, batch) == PutAnd(id, batch, 1)

AddTask(t) == t \in fresh /\ Put(IdOf[t], <<t>>)

AddTaskBatch(id) ==
  \E n \in 0 .. MaxBatch : \E batch \in [1 .. n -> {t \in fresh : IdOf[t] = id}] :
    /\ IsInjective(batch)
    /\ n > 0 \/ signals[WorkerOf(id)] = 0   \* bound: one empty batch at a time
    /\ Put(id, batch)

Signal(w) ==
  /\ signals[w] > 0
  /\ signals' = [signals EXCEPT ![w] = @ - 1]
  /\ thread' = [thread EXCEPT ![w] = IF @ = "waiting" THEN "get" ELSE @]
  /\ UNCHANGED <<started, fresh, TaskList, RuningFlag, workTask, down, missed>>

-----------------------------------------------------------------------------
(* The threads: _ThreadRoutine and GetTask                                  *)

Goto(w, label) == thread' = [thread EXCEPT ![w] = label]

\* A branch, which changes nothing else.
Branch(w, from, label) ==
  /\ thread[w] = from
  /\ Goto(w, label)
  /\ UNCHANGED <<started, fresh, TaskList, RuningFlag, signals, workTask, down, missed>>

\* Mutant: the loop of line 90 looks at the list only.
TestList(w) == Branch(w, "get", IF TaskList[w] = <<>> THEN "towait" ELSE "leave")

\* The lock is taken and the condition of the loop tested.
Test(w) == Branch(w, "get", IF TaskList[w] = <<>> /\ RuningFlag[w] THEN "towait" ELSE "leave")

Wait(w) == Branch(w, "towait", "waiting")

\* pthread_cond_wait may return without a signal.
SpuriousWake(w) == Branch(w, "waiting", "get")

\* Mutants: pop_back; a task that stays in the list when GetTask_Cust says no.
LeaveBack(w) ==
  /\ thread[w] = "leave" /\ RuningFlag[w]
  /\ workTask' = [workTask EXCEPT ![w] = Last(TaskList[w])]
  /\ TaskList' = [TaskList EXCEPT ![w] = Front(@)]
  /\ Goto(w, "check")
  /\ UNCHANGED <<started, fresh, RuningFlag, signals, down, missed>>
LeaveNone(w) == Branch(w, "leave", "check")

\* The flag is read once more before the list is used.
Leave(w) ==
  /\ thread[w] = "leave"
  /\ IF RuningFlag[w]
       THEN /\ workTask' = [workTask EXCEPT ![w] = Head(TaskList[w])]
            /\ TaskList' = [TaskList EXCEPT ![w] = Tail(@)]
       ELSE /\ workTask' = [workTask EXCEPT ![w] = Garbage]
            /\ UNCHANGED TaskList
  /\ Goto(w, "check")
  /\ UNCHANGED <<started, fresh, RuningFlag, signals, down, missed>>

\* Mutant: without the test of line 47.
CheckNothing(w) == Branch(w, "check", "process")

\* A thread that has taken a task and then sees the flag drops the task.
Check(w) == Branch(w, "check", IF RuningFlag[w] THEN "process" ELSE "exited")

ProcessTask(w) ==
  /\ thread[w] = "process"
  /\ Goto(w, "get")
  /\ workTask' = [workTask EXCEPT ![w] = NoTask]
  /\ UNCHANGED <<started, fresh, TaskList, RuningFlag, signals, down, missed>>

-----------------------------------------------------------------------------
(* ShutDown of the workers, one after the other                             *)

ShutDown ==
  /\ Ready /\ down.at = "no"
  /\ down' = [at |-> "flag", w |-> 0]
  /\ UNCHANGED <<started, fresh, TaskList, RuningFlag, signals, thread, workTask, missed>>

\* Without TaskListLock.
ClearFlag ==
  /\ down.at = "flag"
  /\ RuningFlag' = [RuningFlag EXCEPT ![down.w] = FALSE]
  /\ down' = [at |-> "broadcast", w |-> down.w]
  /\ UNCHANGED <<started, fresh, TaskList, signals, thread, workTask, missed>>

\* Mutant: no broadcast.
BroadcastNone ==
  /\ down.at = "broadcast"
  /\ down' = [at |-> "join", w |-> down.w]
  /\ UNCHANGED <<started, fresh, TaskList, RuningFlag, signals, thread, workTask, missed>>

Broadcast ==
  /\ down.at = "broadcast"
  /\ down' = [at |-> "join", w |-> down.w]
  /\ thread' = [thread EXCEPT ![down.w] = IF @ = "waiting" THEN "get" ELSE @]
  /\ missed' = missed \cup (IF thread[down.w] = "towait" THEN {down.w} ELSE {})
  /\ UNCHANGED <<started, fresh, TaskList, RuningFlag, signals, workTask>>

\* The join of a thread that was not created may return or not.
Join ==
  /\ down.at = "join"
  /\ thread[down.w] \in {"exited", "none"}
  /\ down' = IF down.w + 1 \in Workers THEN [at |-> "flag", w |-> down.w + 1]
             ELSE [at |-> "done", w |-> down.w]
  /\ UNCHANGED <<started, fresh, TaskList, RuningFlag, signals, thread, workTask, missed>>

-----------------------------------------------------------------------------
_ThreadRoutine(w) == Test(w) \/ Wait(w) \/ Leave(w) \/ Check(w) \/ ProcessTask(w)

ShutDownStep == ClearFlag \/ Broadcast \/ Join

Next ==
  \/ InitPool \/ ShutDown \/ ShutDownStep
  \/ \E t \in Tasks : AddTask(t)
  \/ \E id \in Ids : AddTaskBatch(id)
  \/ \E w \in Workers : Signal(w) \/ SpuriousWake(w) \/ _ThreadRoutine(w)

Spec == Init /\ [][Next]_vars

\* Threads and callers that have begun go on; ProcessTask returns.  Nobody needs to add a
\* task or to shut down, and a join of no thread may hang.
FairSpec ==
  /\ Spec
  /\ \A w \in Workers : WF_vars(_ThreadRoutine(w)) /\ WF_vars(Signal(w))
  /\ WF_vars(ShutDownStep /\ thread[down.w] # "none")

-----------------------------------------------------------------------------
(* Properties                                                               *)

\* The variables have their types; a thread has a task in hand from GetTask to ProcessTask.
TypeOK ==
  /\ started \in 0 .. m_iWorkerCount /\ fresh \subseteq Tasks /\ missed \subseteq Workers
  /\ TaskList \in [Workers -> Seq(Tasks)]
  /\ RuningFlag \in [Workers -> BOOLEAN] /\ signals \in [Workers -> Nat]
  /\ thread \in [Workers -> {"none", "get", "towait", "waiting", "leave", "check", "process", "exited"}]
  /\ workTask \in [Workers -> Tasks \cup {Garbage, NoTask}]
  /\ \A w \in Workers : workTask[w] = NoTask <=> thread[w] \notin {"check", "process", "exited"}
  /\ down \in [at : {"no", "flag", "broadcast", "join", "done"}, w : Workers]

\* No wake-up is lost: while the list has a task, a thread that waits has a signal to
\* come, although signals are sent after the unlock (ThreadPool.cpp:67, 93).
AwakeWhenWork ==
  \A w \in Workers : TaskList[w] # <<>> /\ thread[w] = "waiting" => signals[w] > 0

\* The ret that GetTask returns unassigned is never run: the flag cannot be set again
\* between lines 97 and 47.
NeverGarbage == \A w \in Workers : thread[w] = "process" => workTask[w] # Garbage

\* After the broadcast of ShutDown a thread waits only if it was between its test and
\* pthread_cond_wait, which have the lock that ShutDown does not take (ThreadPool.cpp:129).
WaitsOnlyIfMissed ==
  \A w \in Workers :
    ~RuningFlag[w] /\ thread[w] \in {"towait", "waiting"} =>
      \/ w \in missed
      \/ down = [at |-> "broadcast", w |-> w]

-----------------------------------------------------------------------------
(* The inductive invariant, part by part                                    *)

\* A worker whose InitPool is still to come has no thread.
NotStarted == \A w \in Workers : w >= started => thread[w] = "none"

\* The condition of line 90 still holds of what the thread does with the lock.
LockKeepsList ==
  \A w \in Workers :
    /\ thread[w] = "towait" => TaskList[w] = <<>>
    /\ thread[w] = "leave" /\ RuningFlag[w] => TaskList[w] # <<>>

\* A worker has tasks of its own ids only.
OwnTasks(w) == {t \in Tasks : WorkerOf(IdOf[t]) = w}
InLane ==
  \A w \in Workers :
    /\ TaskList[w] \in Seq(OwnTasks(w))
    /\ workTask[w] \in Tasks => workTask[w] \in OwnTasks(w)

\* ret is unassigned only where the flag has been seen cleared.
GarbageOnlyDown == \A w \in Workers : workTask[w] = Garbage => ~RuningFlag[w]

Inv ==
  /\ TypeOK
  /\ NotStarted
  /\ LockKeepsList
  /\ InLane
  /\ GarbageOnlyDown
  /\ AwakeWhenWork
  /\ NeverGarbage
  /\ WaitsOnlyIfMissed

-----------------------------------------------------------------------------
(* Properties of behaviours                                                 *)

\* A task that was taken and not begun.
Held(w) == IF workTask[w] \in Tasks /\ thread[w] \in {"check", "exited"} THEN <<workTask[w]>> ELSE <<>>

\* The calls take effect as the steps of SerialExecutor, with a lane for each worker.
pendingBar == [w \in Workers |-> Held(w) \o TaskList[w]]
runningBar == [w \in Workers |-> IF thread[w] = "process" THEN workTask[w] ELSE NoTask]

Serial == INSTANCE SerialExecutor WITH
  Lanes <- Workers,
  LaneOf <- [t \in Tasks |-> WorkerOf(IdOf[t])],
  pending <- pendingBar,
  running <- runningBar

\* Tasks of one worker, and so tasks of one id, run one at a time and in the order of
\* AddTask, whatever shutdown does (CMasterWorkPool::AddTask, the modulo of line 34).
IsSerial == Serial!Spec

Pending(t) == t \notin fresh /\ LET w == WorkerOf(IdOf[t]) IN t \in ToSet(TaskList[w]) \/ t = workTask[w]

\* A task that was added is run and ends, unless its worker is shut down or has no thread.
TasksRun == \A t \in Tasks : Pending(t) ~> ~Pending(t) \/ ~RuningFlag[WorkerOf(IdOf[t])]

\* ShutDown returns, but for a missed broadcast or a thread that was never created.
ShutDownEnds == down.at # "no" ~> down.at = "done" \/ missed # {} \/ "none" \in {thread[w] : w \in Workers}
=============================================================================
