------------------------------- MODULE SendPath -------------------------------
(***************************************************************************)
(* The way of data out of the server, for one connection (EpollServer.cpp). *)
(* Frame workers copy a frame to a block of SendDataMem and push it on the  *)
(* OutputChain of the socket (SendData).  The send worker of the socket     *)
(* sends what is on the chain until send() takes no more                    *)
(* (CSocketSendTask).  It is started by SendData while CurrSendState is     *)
(* ALLOW, and by the receive worker on EPOLLOUT.  When the peer has closed, *)
(* the receive worker closes and removes the socket (RemoveSocket).         *)
(*                                                                          *)
(* Data is counted in units; the units of the connection are numbered in    *)
(* the order in which they are pushed.  The flow control of FlowControl     *)
(* does not step in here and the descriptor is not used again.              *)
(***************************************************************************)
EXTENDS Integers, Sequences, FiniteSets

CONSTANTS
  Workers,   \* frame workers that send to this connection
  BufSize,   \* units the send buffer of the socket holds
  Blocks,    \* blocks of SendDataMem
  MaxLen,    \* bound of the model: units of a frame
  MaxCalls,  \* bound of the model: calls of SendData
  MaxIn      \* bound of the model: times the peer sends something

ASSUME SendAssumption ==
  /\ IsFiniteSet(Workers)
  /\ BufSize \in Nat \ {0}
  /\ MaxLen \in Nat \ {0}
  /\ Blocks \in Nat /\ MaxCalls \in Nat /\ MaxIn \in Nat

VARIABLES
  CurrSendState, \* SocketInformation::CurrSendState
  OutputChain,   \* MemNodes; first is the number of the node's first unit
  chainLock,     \* owner of OutputChainLock
  info,          \* the SocketInformation: in m_SocketInfo, erased from it, deleted
  pushed,        \* units pushed on the chain so far
  wire,          \* units that send() has accepted, in order
  space,         \* free units in the send buffer
  nospace,       \* SOCK_NOSPACE: tell epoll when there is space again
  unread,        \* times the peer has sent something that is not read yet
  inputs,        \* times the peer has sent something
  hup,           \* the peer has closed
  event,         \* the socket is on epoll's list of ready sockets
  closed,        \* close() was called
  recvTasks,     \* CSocketRecvTasks of the socket: "in" has EPOLLIN set, "out" not
  sendTasks,     \* CSocketSendTasks of the socket
  recv,          \* where the receive worker is
  send,          \* where the send worker is
  ret,           \* what send() returned
  work,          \* where each frame worker is in SendData
  len,           \* and with how much
  calls,         \* calls of SendData
  pool,          \* blocks in SendDataMem
  masked         \* EPOLLOUT was reported with EPOLLIN, and no send task queued since

sock == <<CurrSendState, OutputChain, chainLock, info>>
stream == <<pushed, wire>>
net == <<space, nospace, unread, inputs, hup, event, closed>>
queues == <<recvTasks, sendTasks, masked>>
sender == <<send, ret>>
producers == <<work, len, calls>>
vars == <<sock, stream, net, queues, recv, sender, producers, pool>>

Init ==
  /\ CurrSendState = "ALLOW"
  /\ OutputChain = <<>>
  /\ chainLock = "free"
  /\ info = "listed"
  /\ pushed = 0 /\ wire = <<>>
  /\ space = BufSize /\ nospace = FALSE
  /\ unread = 0 /\ inputs = 0 /\ hup = FALSE
  /\ event = TRUE          \* EPOLL_CTL_ADD of a writable socket
  /\ closed = FALSE
  /\ recvTasks = <<>> /\ sendTasks = 0 /\ masked = FALSE
  /\ recv = "idle"
  /\ send = "idle" /\ ret = 0
  /\ work = [w \in Workers |-> "idle"]
  /\ len = [w \in Workers |-> 0]
  /\ calls = 0
  /\ pool = Blocks

\* CMemChain's list of nodes, as the sequence of them.
ChainPush(n) == Append(OutputChain, [first |-> pushed + 1, len |-> n, begin |-> 0])
DeleteHead == Tail(OutputChain)

\* AddTask of a CSocketSendTask.
AddSendTask ==
  /\ sendTasks' = sendTasks + 1
  /\ masked' = FALSE
  /\ UNCHANGED recvTasks

-----------------------------------------------------------------------------
(* The peer and the kernel                                                  *)

PeerSend ==
  /\ ~hup /\ ~closed /\ inputs < MaxIn
  /\ inputs' = inputs + 1
  /\ unread' = unread + 1
  /\ event' = TRUE
  /\ UNCHANGED <<sock, stream, space, nospace, hup, closed, queues, recv, sender, producers, pool>>

PeerClose ==
  /\ ~hup /\ ~closed
  /\ hup' = TRUE
  /\ event' = TRUE
  /\ UNCHANGED <<sock, stream, space, nospace, unread, inputs, closed, queues, recv, sender, producers, pool>>

\* The peer takes data; epoll is told if somebody has met a full buffer.
PeerRead ==
  /\ space < BufSize
  /\ space' = space + 1
  /\ nospace' = FALSE
  /\ event' = (event \/ (nospace /\ ~closed))
  /\ UNCHANGED <<sock, stream, unread, inputs, hup, closed, queues, recv, sender, producers, pool>>

\* epoll_wait reports what is the case when it looks, in one event; the epoll thread
\* makes a task of it.  Looking at a full buffer asks for the next event.
EpollWait ==
  /\ event
  /\ event' = FALSE
  /\ nospace' = (nospace \/ space = 0)
  /\ LET in == unread > 0 \/ hup
         out == space > 0
     IN /\ recvTasks' = IF in THEN Append(recvTasks, "in")
                        ELSE IF out THEN Append(recvTasks, "out") ELSE recvTasks
        /\ masked' = (masked \/ (in /\ out))
  /\ UNCHANGED <<sock, stream, space, unread, inputs, hup, closed, sendTasks, recv, sender, producers, pool>>

-----------------------------------------------------------------------------
(* The receive worker: ProcessRecvEnts                                      *)

\* EPOLLIN is tested first; EPOLLOUT is looked at only without it.
RecvTake ==
  /\ recv = "idle"
  /\ recvTasks # <<>>
  /\ recvTasks' = Tail(recvTasks)
  /\ recv' = IF Head(recvTasks) = "in" THEN "read" ELSE "allow"
  /\ UNCHANGED <<sock, stream, net, sendTasks, masked, sender, producers, pool>>

\* ProcessRecvData reads until EAGAIN, or until the peer's end and then closes.
ProcessRecvData ==
  /\ recv = "read"
  /\ unread' = 0
  /\ closed' = (closed \/ hup)
  /\ event' = (event /\ ~closed')
  /\ recv' = IF hup /\ ~closed THEN "remove" ELSE "idle"
  /\ UNCHANGED <<sock, stream, space, nospace, inputs, hup, queues, sender, producers, pool>>

\* EPOLLOUT: CurrSendState of the socket, if it is there ...
RecvAllow ==
  /\ recv = "allow"
  /\ IF info = "listed"
       THEN CurrSendState' = "ALLOW" /\ recv' = "trigger"
       ELSE recv' = "idle" /\ UNCHANGED CurrSendState
  /\ UNCHANGED <<OutputChain, chainLock, info, stream, net, queues, sender, producers, pool>>

\* ... and a send task.
RecvTrigger ==
  /\ recv = "trigger"
  /\ AddSendTask
  /\ recv' = "idle"
  /\ UNCHANGED <<sock, stream, net, sender, producers, pool>>

\* RemoveSocket: out of m_SocketInfo ...
RemoveErase ==
  /\ recv = "remove"
  /\ info' = "erased"
  /\ recv' = "drain"
  /\ UNCHANGED <<CurrSendState, OutputChain, chainLock, stream, net, queues, sender, producers, pool>>

\* ... the blocks that are still on the chain back to SendDataMem, under the lock ...
RemoveDrain ==
  /\ recv = "drain"
  /\ chainLock = "free"
  /\ pool' = pool + Len(OutputChain)
  /\ OutputChain' = <<>>
  /\ recv' = "delete"
  /\ UNCHANGED <<CurrSendState, chainLock, info, stream, net, queues, sender, producers>>

\* Mutant: delete is forgotten.
RemoveKept ==
  /\ recv = "delete"
  /\ recv' = "idle"
  /\ UNCHANGED <<sock, stream, net, queues, sender, producers, pool>>

\* ... and delete.
RemoveDelete ==
  /\ recv = "delete"
  /\ info' = "deleted"
  /\ recv' = "idle"
  /\ UNCHANGED <<CurrSendState, OutputChain, chainLock, stream, net, queues, sender, producers, pool>>

-----------------------------------------------------------------------------
(* The send worker: CSocketSendTask::ProcessTask                            *)

\* It finds the socket under m_SocketInfoLock and uses it after the unlock.
SendTake ==
  /\ send = "idle"
  /\ sendTasks > 0
  /\ sendTasks' = sendTasks - 1
  /\ send' = IF info = "listed" THEN "lock" ELSE "idle"
  /\ UNCHANGED <<sock, stream, net, recvTasks, masked, recv, ret, producers, pool>>

\* A SocketInformation that was deleted in between is used as it was left.
SendLock ==
  /\ send = "lock"
  /\ chainLock = "free"
  /\ chainLock' = "send"
  /\ send' = "loop"
  /\ UNCHANGED <<CurrSendState, OutputChain, info, stream, net, queues, recv, ret, producers, pool>>

Rest(node) == node.len - node.begin
Advance(node, n) == [first |-> node.first, len |-> node.len, begin |-> node.begin + n]

\* send() takes what the buffer has room for; it fails when that is nothing, or
\* after close().  A short or failed send marks the socket.
SendCall ==
  /\ send = "loop"
  /\ OutputChain # <<>>
  /\ LET node == Head(OutputChain)
         n == IF closed THEN 0 ELSE IF Rest(node) <= space THEN Rest(node) ELSE space
     IN /\ ret' = n
        /\ wire' = wire \o [i \in 1 .. n |-> node.first + node.begin + i - 1]
        /\ space' = space - n
        /\ nospace' = (nospace \/ (~closed /\ n < Rest(node)))
        /\ send' = IF n = 0 THEN "unlock" ELSE IF n < Rest(node) THEN "part" ELSE "whole"
  /\ UNCHANGED <<sock, pushed, unread, inputs, hup, event, closed, queues, recv, producers, pool>>

\* Mutant: begin is not advanced.
SentPartAgain ==
  /\ send = "part"
  /\ CurrSendState' = "WAITING"
  /\ send' = "unlock"
  /\ ret' = 0
  /\ UNCHANGED <<OutputChain, chainLock, info, stream, net, queues, recv, producers, pool>>

SentPart ==
  /\ send = "part"
  /\ OutputChain' = [OutputChain EXCEPT ![1] = Advance(@, ret)]
  /\ CurrSendState' = "WAITING"
  /\ send' = "unlock"
  /\ ret' = 0
  /\ UNCHANGED <<chainLock, info, stream, net, queues, recv, producers, pool>>

\* DeleteHead deletes the node; node->pBuffer is read from the freed memory, so that
\* what is given to SendDataMem may be the block or something else.
SentWhole ==
  /\ send = "whole"
  /\ OutputChain' = DeleteHead
  /\ pool' \in {pool + 1, pool}
  /\ send' = "loop"
  /\ ret' = 0
  /\ UNCHANGED <<CurrSendState, chainLock, info, stream, net, queues, recv, producers>>

SendUnlock ==
  /\ send = "unlock" \/ (send = "loop" /\ OutputChain = <<>>)
  /\ chainLock' = "free"
  /\ send' = "idle"
  /\ UNCHANGED <<CurrSendState, OutputChain, info, stream, net, queues, recv, ret, producers, pool>>

-----------------------------------------------------------------------------
(* The frame workers: SendData                                              *)

\* A block is taken and the frame copied to it; without a block the call fails.
GetBlock(w) ==
  /\ work[w] = "idle"
  /\ calls < MaxCalls
  /\ pool > 0
  /\ \E n \in 1 .. MaxLen : len' = [len EXCEPT ![w] = n]
  /\ pool' = pool - 1
  /\ calls' = calls + 1
  /\ work' = [work EXCEPT ![w] = "find"]
  /\ UNCHANGED <<sock, stream, net, queues, recv, sender>>

\* Mutant: the block is given back also when the socket is found.
FindFrees(w) ==
  /\ work[w] = "find"
  /\ work' = [work EXCEPT ![w] = IF info = "listed" THEN "push" ELSE "idle"]
  /\ pool' = pool + 1
  /\ UNCHANGED <<sock, stream, net, queues, recv, sender, len, calls>>

\* The socket is looked up under m_SocketInfoLock and used after the unlock.
Find(w) ==
  /\ work[w] = "find"
  /\ IF info = "listed"
       THEN work' = [work EXCEPT ![w] = "push"] /\ UNCHANGED <<pool, len>>
       ELSE /\ work' = [work EXCEPT ![w] = "idle"]
            /\ pool' = pool + 1
            /\ len' = [len EXCEPT ![w] = 0]
  /\ UNCHANGED <<sock, stream, net, queues, recv, sender, calls>>

\* Mutant: the push does not take OutputChainLock and is lost when the head is deleted.
PushUnlocked(w) ==
  /\ work[w] = "push"
  /\ OutputChain' = IF send = "whole" THEN OutputChain ELSE ChainPush(len[w])
  /\ pushed' = pushed + len[w]
  /\ work' = [work EXCEPT ![w] = "check"]
  /\ UNCHANGED <<CurrSendState, chainLock, info, wire, net, queues, recv, sender, len, calls, pool>>

\* OutputChain.Push under OutputChainLock.
Push(w) ==
  /\ work[w] = "push"
  /\ chainLock = "free"
  /\ OutputChain' = ChainPush(len[w])
  /\ pushed' = pushed + len[w]
  /\ work' = [work EXCEPT ![w] = "check"]
  /\ UNCHANGED <<CurrSendState, chainLock, info, wire, net, queues, recv, sender, len, calls, pool>>

\* Mutant: the test is inverted.
CheckInverted(w) ==
  /\ work[w] = "check"
  /\ IF CurrSendState = "WAITING" THEN AddSendTask ELSE UNCHANGED queues
  /\ work' = [work EXCEPT ![w] = "idle"]
  /\ len' = [len EXCEPT ![w] = 0]
  /\ UNCHANGED <<sock, stream, net, recv, sender, calls, pool>>

\* CurrSendState is read without a lock; a send task is added while it is ALLOW.
CheckState(w) ==
  /\ work[w] = "check"
  /\ IF CurrSendState = "ALLOW" THEN AddSendTask ELSE UNCHANGED queues
  /\ work' = [work EXCEPT ![w] = "idle"]
  /\ len' = [len EXCEPT ![w] = 0]
  /\ UNCHANGED <<sock, stream, net, recv, sender, calls, pool>>

-----------------------------------------------------------------------------
RecvWorker ==
  \/ RecvTake \/ ProcessRecvData \/ RecvAllow \/ RecvTrigger
  \/ RemoveErase \/ RemoveDrain \/ RemoveDelete

SendWorker == SendTake \/ SendLock \/ SendCall \/ SentPart \/ SentWhole \/ SendUnlock

FrameWorker(w) == Find(w) \/ Push(w) \/ CheckState(w)

Next ==
  \/ PeerSend \/ PeerClose \/ PeerRead \/ EpollWait
  \/ RecvWorker
  \/ SendWorker
  \/ \E w \in Workers : GetBlock(w) \/ FrameWorker(w)

Spec == Init /\ [][Next]_vars

\* Every thread runs whenever it can and the peer goes on reading; nobody has to
\* send anything.
FairSpec ==
  /\ Spec
  /\ WF_vars(PeerRead) /\ WF_vars(EpollWait)
  /\ WF_vars(RecvWorker) /\ WF_vars(SendWorker)
  /\ \A w \in Workers : WF_vars(FrameWorker(w))

-----------------------------------------------------------------------------
(* Properties                                                               *)

Node == [first : Nat \ {0}, len : Nat \ {0}, begin : Nat]

\* The variables have their types.
TypeOK ==
  /\ CurrSendState \in {"ALLOW", "WAITING"}
  /\ OutputChain \in Seq(Node)
  /\ chainLock \in {"free", "send"}
  /\ info \in {"listed", "erased", "deleted"}
  /\ pushed \in Nat /\ wire \in Seq(Nat)
  /\ space \in 0 .. BufSize /\ nospace \in BOOLEAN
  /\ inputs \in 0 .. MaxIn /\ unread \in 0 .. inputs
  /\ hup \in BOOLEAN /\ event \in BOOLEAN /\ closed \in BOOLEAN
  /\ recvTasks \in Seq({"in", "out"}) /\ sendTasks \in Nat /\ masked \in BOOLEAN
  /\ recv \in {"idle", "read", "allow", "trigger", "remove", "drain", "delete"}
  /\ send \in {"idle", "lock", "loop", "part", "whole", "unlock"}
  /\ ret \in Nat
  /\ work \in [Workers -> {"idle", "find", "push", "check"}]
  /\ len \in [Workers -> 0 .. MaxLen]
  /\ calls \in 0 .. MaxCalls
  /\ pool \in 0 .. Blocks

\* What the peer gets is what was pushed, in the order of the pushes, no unit twice
\* and none left out: short sends, EAGAIN and pushes between two send tasks included
\* (begin of line 166 and DeleteHead of line 173 follow send() exactly).
InOrder == \A i \in DOMAIN wire : wire[i] = i

\* The nodes of the chain follow each other and the last one ends with the last push.
Contiguous ==
  \A i \in DOMAIN OutputChain :
    OutputChain[i].first + OutputChain[i].len =
      IF i = Len(OutputChain) THEN pushed + 1 ELSE OutputChain[i + 1].first

\* Until the socket is removed nothing that SendData has accepted is lost: it is sent
\* or it is on the chain, behind what was sent.
NothingLost ==
  info = "listed" /\ send \notin {"part", "whole"} =>
    /\ Contiguous
    /\ Len(wire) = IF OutputChain = <<>> THEN pushed
                   ELSE Head(OutputChain).first + Head(OutputChain).begin - 1

\* Frame workers that have a block in hand.
Holders == {w \in Workers : work[w] \in {"find", "push"}}

\* No block is given back to SendDataMem while it is on the chain or in hand, whoever
\* gives it back: the send worker, RemoveSocket or a SendData that finds no socket.
BlocksOnce == pool + Len(OutputChain) + Cardinality(Holders) <= Blocks

\* A send task is there or will be added: by a frame worker, or by the receive worker
\* for an EPOLLOUT that it has, that is in its queue, or that is or will be raised.
OutTask == \E i \in DOMAIN recvTasks : recvTasks[i] = "out"
Coming ==
  \/ sendTasks > 0
  \/ \E w \in Workers : work[w] = "check"
  \/ OutTask \/ recv \in {"allow", "trigger"}
  \/ event \/ nospace

\* Somebody will look at the chain.
Attended == Coming \/ send # "idle"

\* In the state ALLOW data on the chain is attended to, unless an EPOLLOUT came in one
\* event with EPOLLIN (line 62).  After a failed send() (line 151) the state stays
\* ALLOW, so the edge of EPOLLOUT has to come whatever the threads do in between.
AttendedWhenAllowed ==
  OutputChain # <<>> /\ CurrSendState = "ALLOW" /\ ~masked /\ ~hup => Attended

-----------------------------------------------------------------------------
(* The inductive invariant, part by part                                    *)

\* The send worker has OutputChainLock from its first look at the chain to its last.
LockHeld == chainLock = "send" <=> send \in {"loop", "part", "whole", "unlock"}

\* close() comes before the entry is erased, and the end of the peer before close().
Removal ==
  /\ info = "erased" <=> recv \in {"drain", "delete"}
  /\ recv = "remove" => info = "listed"
  /\ info # "listed" \/ recv = "remove" => closed
  /\ closed => hup

\* The chain has been given back; what is pushed on it from now on stays.
Drained == recv = "delete" \/ info = "deleted"

\* A frame has at least one unit.
Lengths == \A w \in Holders : len[w] > 0

\* Only the first node is sent in part, and none is empty.
Nodes ==
  \A i \in DOMAIN OutputChain :
    /\ OutputChain[i].begin < OutputChain[i].len
    /\ i > 1 => OutputChain[i].begin = 0

\* What send() returned is still to be taken off the first node.
Returned ==
  /\ send \in {"part", "whole"} => OutputChain # <<>> /\ ~Drained
  /\ send = "part" => ret < Rest(Head(OutputChain))
  /\ send = "whole" => ret = Rest(Head(OutputChain))

\* The number of the unit that send() gets next.
NextUnit ==
  IF OutputChain = <<>> THEN pushed + 1
  ELSE Head(OutputChain).first + Head(OutputChain).begin
         + (IF send \in {"part", "whole"} THEN ret ELSE 0)
Position == ~Drained => Len(wire) + 1 = NextUnit

\* When the send worker is about to leave data behind after a send() that took nothing,
\* the edge of the socket or what has come of it is there already.
EdgeComes ==
  OutputChain # <<>> /\ CurrSendState = "ALLOW" /\ ~masked /\ ~hup =>
    Coming \/ send \in {"lock", "loop", "part", "whole"}

Inv ==
  /\ TypeOK
  /\ LockHeld
  /\ Removal
  /\ Lengths
  /\ Nodes
  /\ Contiguous
  /\ Returned
  /\ Position
  /\ InOrder
  /\ BlocksOnce
  /\ EdgeComes

-----------------------------------------------------------------------------
(* Properties that runs refute or fairness makes true                       *)

\* A connection that the peer has closed is removed, although the receive worker has
\* to wait for the send worker's lock.
RemovedWhenClosed == hup ~> info = "deleted"

\* The comments of lines 314 ("send signal to thread to send data of this sock") and
\* 81 ("add to list to trigger to send data"): what SendData has accepted is sent, if
\* the peer goes on reading.
AllSent == OutputChain # <<>> /\ ~hup ~> OutputChain = <<>> \/ hup

\* The comment of line 176, "free the buffer to manager": with nothing to send and
\* nobody in SendData every block is back in SendDataMem.
BlocksReturned == OutputChain = <<>> /\ Holders = {} => pool = Blocks
=============================================================================
