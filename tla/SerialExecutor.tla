---------------------------- MODULE SerialExecutor ----------------------------
(***************************************************************************)
(* What CMasterWorkPool promises its callers: every task belongs to a lane,  *)
(* tasks of one id to the same, and the tasks of a lane are run one after    *)
(* the other, in the order in which they were added.                        *)
(***************************************************************************)
EXTENDS Sequences, SequencesExt

CONSTANTS Tasks, Lanes, LaneOf, NoTask

VARIABLES
  pending,   \* the tasks of each lane that are added and not begun
  running    \* the task of each lane that is being processed

Init ==
  /\ pending = [l \in Lanes |-> <<>>]
  /\ running = [l \in Lanes |-> NoTask]

\* Any number of the lane's tasks is added, after those that are there.
Submit(l) ==
  /\ pending'[l] \in Seq({t \in Tasks : LaneOf[t] = l})
  /\ IsPrefix(pending[l], pending'[l])
  /\ pending' = [pending EXCEPT ![l] = pending'[l]]
  /\ UNCHANGED running

Start(l) ==
  /\ running[l] = NoTask
  /\ pending[l] # <<>>
  /\ running' = [running EXCEPT ![l] = Head(pending[l])]
  /\ pending' = [pending EXCEPT ![l] = Tail(@)]

Finish(l) ==
  /\ running[l] # NoTask
  /\ running' = [running EXCEPT ![l] = NoTask]
  /\ UNCHANGED pending

Next == \E l \in Lanes : Submit(l) \/ Start(l) \/ Finish(l)

Spec == Init /\ [][Next]_<<pending, running>>
=============================================================================
