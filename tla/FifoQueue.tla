------------------------------ MODULE FifoQueue ------------------------------
(***************************************************************************)
(* What CLockFreeQueue promises to the threads of CMemPool.  A call of Push *)
(* or Pop takes effect in one instant between its call and its return, or   *)
(* is turned down without any effect; elements leave in the order in which  *)
(* they entered; and an element is at every moment either in the queue, in  *)
(* the hands of one call, or free for the callers to use.                   *)
(*                                                                          *)
(* A call may be turned down at any time.  That is deliberate: the code     *)
(* decides "full" and "empty" from two counters read at different moments,  *)
(* so a caller learns nothing from a refusal about the queue of that moment.*)
(***************************************************************************)
EXTENDS Sequences

CONSTANTS Threads,   \* the threads that call the queue
          Elems,     \* the elements (addresses of memory blocks)
          NoElem     \* "no element in hand"

VARIABLES queue,     \* the elements that are in the queue, oldest first
          call,      \* call[t]: what thread t is doing
          hand,      \* hand[t]: the element that t's call carries
          outside    \* the elements that belong to the callers

vars == <<queue, call, hand, outside>>

Calls == {"none", "push", "pushed", "pop", "popped"}

Init ==
  /\ queue = <<>>
  /\ call = [t \in Threads |-> "none"]
  /\ hand = [t \in Threads |-> NoElem]
  /\ outside = Elems

CallPush(t, e) ==
  /\ call[t] = "none"
  /\ e \in outside
  /\ call' = [call EXCEPT ![t] = "push"]
  /\ hand' = [hand EXCEPT ![t] = e]
  /\ outside' = outside \ {e}
  /\ UNCHANGED queue

Enqueue(t) ==
  /\ call[t] = "push"
  /\ call' = [call EXCEPT ![t] = "pushed"]
  /\ queue' = Append(queue, hand[t])
  /\ hand' = [hand EXCEPT ![t] = NoElem]
  /\ UNCHANGED outside

CallPop(t) ==
  /\ call[t] = "none"
  /\ call' = [call EXCEPT ![t] = "pop"]
  /\ UNCHANGED <<queue, hand, outside>>

Dequeue(t) ==
  /\ call[t] = "pop"
  /\ queue # <<>>
  /\ call' = [call EXCEPT ![t] = "popped"]
  /\ hand' = [hand EXCEPT ![t] = Head(queue)]
  /\ queue' = Tail(queue)
  /\ UNCHANGED outside

\* A call ends: what it carries, if anything, belongs to the caller again.  From
\* "push" or "pop" it ends without an effect on the queue (the call returns
\* false), from "pushed" or "popped" with one (it returns true).
Return(t) ==
  /\ call[t] # "none"
  /\ call' = [call EXCEPT ![t] = "none"]
  /\ outside' = outside \cup ({hand[t]} \ {NoElem})
  /\ hand' = [hand EXCEPT ![t] = NoElem]
  /\ UNCHANGED queue

Next ==
  \E t \in Threads :
     \/ \E e \in Elems : CallPush(t, e)
     \/ Enqueue(t)
     \/ CallPop(t)
     \/ Dequeue(t)
     \/ Return(t)

Spec == Init /\ [][Next]_vars
=============================================================================
