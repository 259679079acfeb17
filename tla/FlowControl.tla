----------------------------- MODULE FlowControl -----------------------------
(***************************************************************************)
(* Flow control of one connection (src/RecvDataProc.cpp, EpollServer.cpp).  *)
(* The receive worker of the socket reads frames and queues them for the    *)
(* frame worker, which processes them.  FrameCount counts the frames in     *)
(* between: above m_flow_control_high the receive worker takes EPOLLIN out  *)
(* of the socket's epoll interest, below m_flow_control_low the frame       *)
(* worker puts it back.  Both do so under ClientMapLock.                    *)
(*                                                                          *)
(* epoll is edge-triggered: an event is raised when data arrives while      *)
(* EPOLLIN is of interest, and when EPOLL_CTL_MOD makes it of interest      *)
(* while there is data.  The socket is not closed in this module.           *)
(***************************************************************************)
EXTENDS Integers

CONSTANTS
  m_flow_control_high,
  m_flow_control_low,
  MaxFrames    \* bound of the model: frames the peer sends

\* Init sets them to 307200 and 512.
ASSUME FlowAssumption ==
  /\ m_flow_control_high \in Nat
  /\ m_flow_control_low \in Nat \ {0}
  /\ m_flow_control_low <= m_flow_control_high + 1
  /\ MaxFrames \in Nat

VARIABLES
  sent,        \* frames the peer has sent
  unread,      \* frames in the receive buffer of the socket
  interest,    \* EPOLLIN is in the socket's epoll interest
  ready,       \* an EPOLLIN event is pending in the epoll instance
  tasks,       \* CSocketRecvTasks queued for the receive worker
  chunk,       \* frames of the last read that RestructFrame has still to save
  saved,       \* v_iFrameCount: frames saved from the last read
  frames,      \* CFrameProcTasks queued for the frame worker
  FrameCount,  \* ClientInfo::FrameCount
  ClientRead,  \* ClientInfo::EnableRead
  SocketRead,  \* SocketInformation::EnableRead
  recv,        \* where the receive worker is
  proc,        \* where the frame worker is
  lock         \* owner of ClientMapLock

vars == <<sent, unread, interest, ready, tasks, chunk, saved, frames, FrameCount,
          ClientRead, SocketRead, recv, proc, lock>>

kernel == <<unread, interest, ready>>
flags == <<ClientRead, SocketRead>>

Init ==
  /\ sent = 0
  /\ unread = 0
  /\ interest = TRUE
  /\ ready = FALSE
  /\ tasks = 0
  /\ chunk = 0
  /\ saved = 0
  /\ frames = 0
  /\ FrameCount = 0
  /\ ClientRead = TRUE
  /\ SocketRead = TRUE
  /\ recv = "idle"
  /\ proc = "idle"
  /\ lock = "free"

-----------------------------------------------------------------------------
(* The peer, the kernel and the epoll thread                                *)

Send ==
  /\ sent < MaxFrames
  /\ sent' = sent + 1
  /\ unread' = unread + 1
  /\ ready' = (ready \/ interest)
  /\ UNCHANGED <<interest, tasks, chunk, saved, frames, FrameCount, flags, recv, proc, lock>>

\* epoll_wait reports the event once; the epoll thread makes a task of it.
EpollWait ==
  /\ ready
  /\ ready' = FALSE
  /\ tasks' = tasks + 1
  /\ UNCHANGED <<sent, unread, interest, chunk, saved, frames, FrameCount, flags, recv, proc, lock>>

\* EPOLL_CTL_MOD raises an event if what it asks for is the case already.
CtlMod(enable) ==
  /\ interest' = enable
  /\ ready' = (enable /\ (ready \/ unread > 0))
  /\ UNCHANGED unread

-----------------------------------------------------------------------------
(* The receive worker                                                       *)

RecvTake ==
  /\ recv = "idle"
  /\ tasks > 0
  /\ tasks' = tasks - 1
  /\ recv' = "read"
  /\ UNCHANGED <<sent, kernel, chunk, saved, frames, FrameCount, flags, proc, lock>>

\* read() returns some of the frames there are ...
Read ==
  /\ recv = "read"
  /\ \E n \in 1 .. unread :
        /\ unread' = unread - n
        /\ chunk' = n
  /\ saved' = 0
  /\ recv' = "save"
  /\ UNCHANGED <<sent, interest, ready, tasks, frames, FrameCount, flags, proc, lock>>

\* ... or EAGAIN, which is what ends the task.
ReadNothing ==
  /\ recv = "read"
  /\ unread = 0
  /\ recv' = "idle"
  /\ UNCHANGED <<sent, kernel, tasks, chunk, saved, frames, FrameCount, flags, proc, lock>>

\* SaveFrame queues the frame for the frame worker at once, before it is counted.
SaveFrame ==
  /\ recv = "save"
  /\ chunk > 0
  /\ chunk' = chunk - 1
  /\ saved' = saved + 1
  /\ frames' = frames + 1
  /\ UNCHANGED <<sent, kernel, tasks, FrameCount, flags, recv, proc, lock>>

\* Mutant: a frame that could not be saved is counted.
DropFrameCounted ==
  /\ recv = "save"
  /\ chunk > 0
  /\ chunk' = chunk - 1
  /\ saved' = saved + 1
  /\ UNCHANGED <<sent, kernel, tasks, frames, FrameCount, flags, recv, proc, lock>>

\* The pool has no block: the frame is dropped and not counted.
DropFrame ==
  /\ recv = "save"
  /\ chunk > 0
  /\ chunk' = chunk - 1
  /\ UNCHANGED <<sent, kernel, tasks, saved, frames, FrameCount, flags, recv, proc, lock>>

Restructed ==
  /\ recv = "save"
  /\ chunk = 0
  /\ recv' = "count"
  /\ UNCHANGED <<sent, kernel, tasks, chunk, saved, frames, FrameCount, flags, proc, lock>>

\* Mutant: the lock is released before DisableRead is called.
IncreaseUnlocked ==
  /\ recv = "count"
  /\ lock = "free"
  /\ FrameCount' = FrameCount + saved
  /\ saved' = 0
  /\ recv' = IF FrameCount' > m_flow_control_high /\ ClientRead THEN "modify" ELSE "read"
  /\ UNCHANGED <<sent, kernel, tasks, chunk, frames, flags, proc, lock>>

\* The lock is kept while reading has to be disabled.
IncreaseThen(label) ==
  /\ recv = "count"
  /\ lock = "free"
  /\ FrameCount' = FrameCount + saved
  /\ saved' = 0
  /\ IF FrameCount' > m_flow_control_high /\ ClientRead
       THEN recv' = "modify" /\ lock' = "recv"
       ELSE recv' = label /\ UNCHANGED lock
  /\ UNCHANGED <<sent, kernel, tasks, chunk, frames, flags, proc>>

\* Mutant: the task reads once and does not go on to EAGAIN.
IncreaseReadOnce == IncreaseThen("idle")

IncreaseFrameCount == IncreaseThen("read")

\* ModifyRead(sock, false): the flag of SocketInformation, if it differs ...
DisableFlag ==
  /\ recv = "modify"
  /\ SocketRead' = FALSE
  /\ recv' = IF SocketRead THEN "ctl" ELSE "done"
  /\ UNCHANGED <<sent, kernel, tasks, chunk, saved, frames, FrameCount, ClientRead, proc, lock>>

\* ... then epoll_ctl, after m_SocketInfoLock was released.
DisableCtl ==
  /\ recv = "ctl"
  /\ CtlMod(FALSE)
  /\ recv' = "done"
  /\ UNCHANGED <<sent, tasks, chunk, saved, frames, FrameCount, flags, proc, lock>>

DisableDone ==
  /\ recv = "done"
  /\ ClientRead' = FALSE
  /\ lock' = "free"
  /\ recv' = "read"
  /\ UNCHANGED <<sent, kernel, tasks, chunk, saved, frames, FrameCount, SocketRead, proc>>

-----------------------------------------------------------------------------
(* The frame worker                                                         *)

\* It takes a task and processes the frame (CommandProc, FreeBuff).
ProcessFrame ==
  /\ proc = "idle"
  /\ frames > 0
  /\ frames' = frames - 1
  /\ proc' = "count"
  /\ UNCHANGED <<sent, kernel, tasks, chunk, saved, FrameCount, flags, recv, lock>>

DecreaseBelow(limit) ==
  /\ proc = "count"
  /\ lock = "free"
  /\ FrameCount' = FrameCount - 1
  /\ IF FrameCount' < limit /\ ~ClientRead
       THEN proc' = "modify" /\ lock' = "proc"
       ELSE proc' = "idle" /\ UNCHANGED lock
  /\ UNCHANGED <<sent, kernel, tasks, chunk, saved, frames, flags, recv>>

\* Mutant: the low limit is off by one.
DecreaseLate == DecreaseBelow(m_flow_control_low - 1)

DecreaseFrameCount == DecreaseBelow(m_flow_control_low)

EnableFlag ==
  /\ proc = "modify"
  /\ SocketRead' = TRUE
  /\ proc' = IF SocketRead THEN "done" ELSE "ctl"
  /\ UNCHANGED <<sent, kernel, tasks, chunk, saved, frames, FrameCount, ClientRead, recv, lock>>

EnableWith(enable) ==
  /\ proc = "ctl"
  /\ CtlMod(enable)
  /\ proc' = "done"
  /\ UNCHANGED <<sent, tasks, chunk, saved, frames, FrameCount, flags, recv, lock>>

\* Mutant: the event masks are swapped.
EnableCtlSwapped == EnableWith(FALSE)

EnableCtl == EnableWith(TRUE)

EnableDone ==
  /\ proc = "done"
  /\ ClientRead' = TRUE
  /\ lock' = "free"
  /\ proc' = "idle"
  /\ UNCHANGED <<sent, kernel, tasks, chunk, saved, frames, FrameCount, SocketRead, recv>>

-----------------------------------------------------------------------------
RecvWorker ==
  \/ RecvTake \/ Read \/ ReadNothing \/ SaveFrame \/ DropFrame \/ Restructed
  \/ IncreaseFrameCount \/ DisableFlag \/ DisableCtl \/ DisableDone

FrameWorker ==
  \/ ProcessFrame \/ DecreaseFrameCount \/ EnableFlag \/ EnableCtl \/ EnableDone

\* The peer has sent all and everything is processed: the server waits.
Quiet ==
  /\ sent = MaxFrames /\ unread = 0 /\ ~ready /\ tasks = 0 /\ frames = 0
  /\ recv = "idle" /\ proc = "idle"
  /\ UNCHANGED vars

Next == Send \/ EpollWait \/ RecvWorker \/ FrameWorker \/ Quiet

Spec == Init /\ [][Next]_vars

\* The epoll thread and the two workers run whenever they can; the peer need not
\* send.
FairSpec == Spec /\ WF_vars(EpollWait) /\ WF_vars(RecvWorker) /\ WF_vars(FrameWorker)

-----------------------------------------------------------------------------
(* Properties                                                               *)

\* The variables have their types; FrameCount is a signed int.
TypeOK ==
  /\ sent \in 0 .. MaxFrames
  /\ unread \in Nat
  /\ interest \in BOOLEAN /\ ready \in BOOLEAN
  /\ tasks \in Nat /\ chunk \in Nat /\ saved \in Nat /\ frames \in Nat
  /\ FrameCount \in Int
  /\ ClientRead \in BOOLEAN /\ SocketRead \in BOOLEAN
  /\ recv \in {"idle", "read", "save", "count", "modify", "ctl", "done"}
  /\ proc \in {"idle", "count", "modify", "ctl", "done"}
  /\ lock \in {"free", "recv", "proc"}

\* Frames that will be followed by a DecreaseFrameCount.
Outstanding == frames + (IF proc = "count" THEN 1 ELSE 0)

\* FrameCount is the number of frames between the workers, less those that were
\* queued and not counted yet (line 173 runs before line 135); it can be negative.
CountIsOutstanding == FrameCount = Outstanding - saved

\* While reading is disabled at least m_flow_control_low frames are on their way to
\* the frame worker, so a DecreaseFrameCount that enables it again is still to come
\* (lines 138 and 158 use different limits and run in different threads).
DisabledHasWork == lock = "free" /\ ~ClientRead => Outstanding - saved >= m_flow_control_low

\* The comment of EpollServer.cpp:445, "executed in sequence for one sock": the two
\* EnableRead flags and the interest registered with epoll agree whenever no
\* ModifyRead is in progress, although its epoll_ctl is outside m_SocketInfoLock.
FlagsAgree == lock = "free" => ClientRead = SocketRead /\ SocketRead = interest

\* Edge-triggered reading strands no data: while reading is enabled and data is
\* there, an event, a task or a running task will see it.
NoStrandedData ==
  unread > 0 /\ interest => ready \/ tasks > 0 \/ recv # "idle"

\* The inductive invariant: what holds in the middle of a ModifyRead, too, and that
\* a read starts with all that was saved counted.
LockOwner ==
  /\ lock = "recv" <=> recv \in {"modify", "ctl", "done"}
  /\ lock = "proc" <=> proc \in {"modify", "ctl", "done"}

InProgress ==
  /\ recv \notin {"save", "count"} => saved = 0
  /\ recv \in {"modify", "ctl", "done"} => ClientRead /\ FrameCount > m_flow_control_high
  /\ recv = "modify" => SocketRead /\ interest
  /\ recv = "ctl" => ~SocketRead /\ interest
  /\ recv = "done" => ~SocketRead /\ ~interest
  /\ proc \in {"modify", "ctl", "done"} => ~ClientRead
  /\ proc = "modify" => ~SocketRead /\ ~interest
  /\ proc = "ctl" => SocketRead /\ ~interest
  /\ proc = "done" => SocketRead /\ interest

Inv ==
  /\ TypeOK
  /\ LockOwner
  /\ InProgress
  /\ CountIsOutstanding
  /\ DisabledHasWork
  /\ FlagsAgree
  /\ NoStrandedData

\* The server reads all that the peer sends, also what arrives while disabled.
AllRead == [](unread > 0 => <>(unread = 0))
=============================================================================
