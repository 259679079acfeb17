------------------------------ MODULE Connection ------------------------------
(***************************************************************************)
(* The life of connections (EpollServer.cpp, RecvDataProc.cpp): accept,     *)
(* registration in epoll, m_SocketInfo and ClientMap, reads, the commands   *)
(* login, camera and picture, the peer's close and the close of a bad       *)
(* login.  A descriptor is used again by the next connection.               *)
(*                                                                          *)
(* The worker of a descriptor has the same number in the three pools, and   *)
(* each pool runs the tasks of a worker in the order of AddTask.  Frames    *)
(* are whole (FrameRestruct), reading is enabled (FlowControl) and the send *)
(* buffers have room (SendPath): CurrSendState is ALLOW.                    *)
(*                                                                          *)
(* SocketInformation and ClientInfo objects are named by the connection for *)
(* which they were made; the code knows connections by descriptor only.     *)
(***************************************************************************)
EXTENDS Integers, Sequences, FiniteSets, SequencesExt

CONSTANTS
  Conns,           \* the connections peers make, numbered in the order of their arrival
  None,            \* no connection
  Fds,             \* descriptors that connections may have
  m_iWorkerCount,  \* workers of each pool
  MaxBacks,        \* bound: how often one walk of ClientMap that goes astray may turn back
  Setups           \* what a behaviour starts with, see setup

Workers == 0 .. m_iWorkerCount - 1

\* A login of another type is a bad one; the cameras have numbers.
Frame == [code : {"login"}, type : {"phone", "pc", "bad"}, camera : Nat]
           \cup [code : {"camera"}, camera : Nat] \cup [code : {"picture"}]

ASSUME ConnectionAssumption ==
  /\ Conns \subseteq Nat /\ None \notin Conns
  /\ Fds \subseteq Nat /\ IsFiniteSet(Fds)
  /\ m_iWorkerCount \in Nat \ {0} /\ MaxBacks \in Nat
  /\ \A s \in Setups :
        /\ s.listener \in Workers
        /\ s.fds \subseteq Fds
        /\ s.burst \in Nat \ {0}
        /\ DOMAIN s.script \subseteq Conns /\ s.script \in [DOMAIN s.script -> Seq(Frame)]

VARIABLES
  setup,        \* fixed by Init: the worker of the listening socket, the descriptors the
                \* limit of InitEvn leaves, the frames each peer sends, how many at a time,
                \* and the peers that close when they have sent them
  conn,         \* a connection: "new", "backlog", "open" or "closed"
  sent, got,    \* frames the peer has sent, frames read
  gone,         \* connections whose peer has closed
  backlog,      \* connections to be accepted
  listenEvent,  \* the listening socket has an event in epoll
  missed,       \* events without an accept of their own: merged, or no descriptor
  file,         \* the connection of a descriptor
  watched,      \* connections registered with epoll
  ready,        \* connections with an event in epoll
  tasks,        \* CSocketRecvTasks of each receive worker
  recv,         \* where each receive worker is
  m_SocketInfo, \* descriptor -> the SocketInformation entered for it
  ClientMap,    \* descriptor -> the ClientInfo entered for it
  client,       \* ClientType and CameraId of each ClientInfo
  changes,      \* for each frame worker, entries of ClientMap that came or went while it read
                \* the tree without the lock
  frames,       \* CFrameProcTasks of each frame worker
  proc,         \* where each frame worker is
  chain,        \* OutputChain of each SocketInformation
  sendTasks,    \* CSocketSendTasks of each send worker
  send,         \* where each send worker is
  inbox,        \* what the peer of each connection has received
  kicked,       \* connections that a frame worker has closed
  due           \* history: <<phone, PC>>, a picture whose walk began when the PC watched
                \* and did not go astray before it

peers == <<sent, gone, backlog, listenEvent, missed>>
kernel == <<conn, file, got, watched, ready>>
maps == <<m_SocketInfo, ClientMap, client, changes>>
sending == <<chain, sendTasks, send, inbox>>
past == <<kicked, due>>
vars == <<setup, peers, kernel, maps, sending, tasks, recv, frames, proc, past>>

Idle == [at |-> "idle"]

Init ==
  /\ setup \in Setups
  /\ conn = [c \in Conns |-> "new"]
  /\ sent = [c \in Conns |-> 0] /\ got = [c \in Conns |-> 0]
  /\ gone = {} /\ backlog = <<>> /\ listenEvent = FALSE /\ missed = 0
  /\ file = [f \in Fds |-> None] /\ watched = {} /\ ready = {}
  /\ tasks = [w \in Workers |-> <<>>] /\ recv = [w \in Workers |-> Idle]
  /\ m_SocketInfo = [f \in Fds |-> None] /\ ClientMap = [f \in Fds |-> None]
  /\ client = [c \in Conns |-> [type |-> "none", camera |-> 0]]
  /\ changes = [w \in Workers |-> {}]
  /\ frames = [w \in Workers |-> <<>>] /\ proc = [w \in Workers |-> Idle]
  /\ chain = [c \in Conns |-> <<>>]
  /\ sendTasks = [w \in Workers |-> <<>>] /\ send = [w \in Workers |-> Idle]
  /\ inbox = [c \in Conns |-> {}]
  /\ kicked = {} /\ due = {}

WorkerOf(fd) == fd % m_iWorkerCount
Listener == setup.listener
Script(c) == setup.script[c]

Add(queue, w, task) == [queue EXCEPT ![w] = Append(@, task)]
Rest(queue, w) == [queue EXCEPT ![w] = Tail(@)]

RecvAt(w, label) == recv[w].at = label
RecvGoto(w, place) == recv' = [recv EXCEPT ![w] = place]
ProcAt(w, label) == proc[w].at = label
ProcGoto(w, place) == proc' = [proc EXCEPT ![w] = place]

\* close(fd): the connection ends, and with it its registration in epoll.
Close(fd) ==
  /\ file' = [file EXCEPT ![fd] = None]
  /\ conn' = IF file[fd] = None THEN conn ELSE [conn EXCEPT ![file[fd]] = "closed"]
  /\ watched' = watched \ {file[fd]}
  /\ ready' = ready \ {file[fd]}
  /\ UNCHANGED got

-----------------------------------------------------------------------------
(* The peers, the kernel and the epoll thread                               *)

\* An arrival raises the edge-triggered event of the listening socket.
Connect(c) ==
  /\ c \in DOMAIN setup.script
  /\ conn[c] = "new" /\ \A d \in Conns : d < c => conn[d] # "new"
  /\ conn' = [conn EXCEPT ![c] = "backlog"]
  /\ backlog' = Append(backlog, c)
  /\ listenEvent' = TRUE
  /\ missed' = IF listenEvent THEN missed + 1 ELSE missed
  /\ UNCHANGED <<sent, gone, file, got, watched, ready, maps, sending, tasks, recv, frames, proc, past>>

Connected(c) == conn[c] \in {"backlog", "open"} /\ c \notin gone

PeerSend(c) ==
  /\ Connected(c)
  /\ sent[c] < Len(Script(c))
  /\ sent' = [sent EXCEPT ![c] = IF @ + setup.burst < Len(Script(c)) THEN @ + setup.burst
                                 ELSE Len(Script(c))]
  /\ ready' = ready \cup ({c} \cap watched)
  /\ UNCHANGED <<gone, backlog, listenEvent, missed, conn, file, got, watched, maps, sending, tasks, recv, frames, proc, past>>

PeerClose(c) ==
  /\ Connected(c)
  /\ c \in setup.leaving
  /\ sent[c] = Len(Script(c))
  /\ gone' = gone \cup {c}
  /\ ready' = ready \cup ({c} \cap watched)
  /\ UNCHANGED <<sent, backlog, listenEvent, missed, conn, file, got, watched, maps, sending, tasks, recv, frames, proc, past>>

\* Mutant: the listening socket without EPOLLET.
EpollListenLevel ==
  /\ listenEvent
  /\ tasks' = Add(tasks, Listener, [kind |-> "listen"])
  /\ UNCHANGED <<peers, kernel, maps, sending, recv, frames, proc, past>>

EpollListen ==
  /\ listenEvent
  /\ listenEvent' = FALSE
  /\ tasks' = Add(tasks, Listener, [kind |-> "listen"])
  /\ UNCHANGED <<sent, gone, backlog, missed, kernel, maps, sending, recv, frames, proc, past>>

\* One event reports all that is the case: EPOLLIN if there is data or an end, and
\* EPOLLOUT, which counts without EPOLLIN only.
EpollWait(fd) ==
  LET c == file[fd] IN
  /\ c \in ready
  /\ ready' = ready \ {c}
  /\ tasks' = Add(tasks, WorkerOf(fd),
                  [kind |-> IF got[c] < sent[c] \/ c \in gone THEN "in" ELSE "out", fd |-> fd])
  /\ UNCHANGED <<peers, conn, file, got, watched, maps, sending, recv, frames, proc, past>>

-----------------------------------------------------------------------------
(* PicDataRecv reads the tree of ClientMap without ClientMapLock.  A search  *)
(* or an increment takes several reads of pointers, and an insertion or an  *)
(* erasure, which turn the tree round, may come between them.               *)

Mapped == {x \in Fds \X Conns : ClientMap[x[1]] = x[2]}

\* The entry the iterator stands on has been erased.
OnErased(p) == p.on # None /\ ClientMap[p.last] # p.on

\* Frame worker w is reading the tree, or stands on a node that has left it.  begin(), for
\* which last is -1, is one read.
Traverses(w) ==
  \/ ProcAt(w, "seek")
  \/ ProcAt(w, "walk") /\ proc[w].last # -1
  \/ proc[w].at \in {"find", "push"} /\ proc[w].what = "picture" /\ OnErased(proc[w].walk)

\* AddClient and QuitClient have changed ClientMap.
ChangeClientMap ==
  changes' = [w \in Workers |->
                IF Traverses(w)'
                  THEN changes[w] \cup {x \in Fds \X Conns : (x \in Mapped) # (x \in Mapped')}
                  ELSE changes[w]]

\* The entries that threads are just about to insert or to erase: a change may last over
\* many reads.
InFlux ==
  {x \in Fds \X Conns : \E u \in Workers :
     \/ ClientMap[x[1]] = None /\ RecvAt(u, "client") /\ recv[u].fd = x[1] /\ recv[u].of = x[2]
     \/ x \in Mapped /\ RecvAt(u, "quit") /\ recv[u].fd = x[1]
     \/ x \in Mapped /\ ProcAt(u, "quit") /\ proc[u].task.fd = x[1]}

Meets(w) == changes[w] \cup InFlux

-----------------------------------------------------------------------------
(* The receive workers: ProcessRecvEnts                                     *)

HasTask(w, kind) == RecvAt(w, "idle") /\ tasks[w] # <<>> /\ Head(tasks[w]).kind = kind

FreeFds == {f \in setup.fds : file[f] = None}

\* One accept for an event; the lowest free descriptor is taken.  Without one accept
\* fails, and so do epoll_ctl and close of -1.
Accept(w) ==
  /\ HasTask(w, "listen")
  /\ tasks' = Rest(tasks, w)
  /\ IF backlog # <<>> /\ FreeFds # {}
       THEN LET c == Head(backlog)
                fd == CHOOSE f \in FreeFds : \A g \in FreeFds : f <= g
            IN /\ backlog' = Tail(backlog)
               /\ conn' = [conn EXCEPT ![c] = "open"]
               /\ file' = [file EXCEPT ![fd] = c]
               /\ RecvGoto(w, [at |-> "add", fd |-> fd, of |-> c])
               /\ UNCHANGED missed
       ELSE missed' = missed + 1 /\ UNCHANGED <<backlog, conn, file, recv>>
  /\ UNCHANGED <<sent, gone, listenEvent, got, watched, ready, maps, sending, frames, proc, past>>

\* Mutant: the result of epoll_ctl is not looked at.
AddToEpollBlind(w) ==
  LET c == file[recv[w].fd] IN
  /\ RecvAt(w, "add")
  /\ watched' = watched \cup {c} /\ ready' = ready \cup {c}
  /\ RecvGoto(w, [at |-> "insert", fd |-> recv[w].fd, of |-> recv[w].of])
  /\ UNCHANGED <<peers, conn, file, got, maps, sending, tasks, frames, proc, past>>

\* EPOLL_CTL_ADD; the socket is writable at once.  It fails if the descriptor has been
\* closed meanwhile.
AddToEpoll(w) ==
  LET c == file[recv[w].fd] IN
  /\ RecvAt(w, "add")
  /\ watched' = watched \cup ({c} \ {None})
  /\ ready' = ready \cup ({c} \ {None})
  /\ RecvGoto(w, IF c = None THEN Idle ELSE [at |-> "insert", fd |-> recv[w].fd, of |-> recv[w].of])
  /\ UNCHANGED <<peers, conn, file, got, maps, sending, tasks, frames, proc, past>>

\* Mutant: map[fd] = ..., which overwrites.
EnterOver(map, fd, c) == [map EXCEPT ![fd] = c]

\* map::insert does nothing if the key is there.
Enter(map, fd, c) == [map EXCEPT ![fd] = IF @ = None THEN c ELSE @]

InsertSocket(w) ==
  /\ RecvAt(w, "insert")
  /\ m_SocketInfo' = Enter(m_SocketInfo, recv[w].fd, recv[w].of)
  /\ RecvGoto(w, [at |-> "client", fd |-> recv[w].fd, of |-> recv[w].of])
  /\ UNCHANGED <<peers, kernel, ClientMap, client, changes, sending, tasks, frames, proc, past>>

AddClient(w) ==
  /\ RecvAt(w, "client")
  /\ ClientMap' = Enter(ClientMap, recv[w].fd, recv[w].of)
  /\ RecvGoto(w, Idle)
  /\ UNCHANGED <<peers, kernel, m_SocketInfo, client, sending, tasks, frames, proc, past>>
  /\ ChangeClientMap

\* EPOLLOUT: a send task, if the socket is there.
RecvOut(w) ==
  /\ HasTask(w, "out")
  /\ tasks' = Rest(tasks, w)
  /\ LET fd == Head(tasks[w]).fd
     IN sendTasks' = IF m_SocketInfo[fd] = None THEN sendTasks ELSE Add(sendTasks, w, fd)
  /\ UNCHANGED <<peers, kernel, maps, chain, send, inbox, recv, frames, proc, past>>

RecvIn(w) ==
  /\ HasTask(w, "in")
  /\ tasks' = Rest(tasks, w)
  /\ RecvGoto(w, [at |-> "read", fd |-> Head(tasks[w]).fd])
  /\ UNCHANGED <<peers, kernel, maps, sending, frames, proc, past>>

Unread(c) == SubSeq(Script(c), got[c] + 1, sent[c])

\* read() and the search for the client, which AddRecvData uses after the unlock; data
\* of a descriptor without a client is dropped.
ReadData(w) ==
  LET fd == recv[w].fd
      c == file[fd]
  IN
  /\ RecvAt(w, "read")
  /\ c # None /\ got[c] < sent[c]
  /\ got' = [got EXCEPT ![c] = sent[c]]
  /\ RecvGoto(w, IF ClientMap[fd] = None THEN recv[w]
                 ELSE [at |-> "restruct", fd |-> fd, from |-> c, of |-> ClientMap[fd],
                       read |-> Unread(c)])
  /\ UNCHANGED <<peers, conn, file, watched, ready, maps, sending, tasks, frames, proc, past>>

\* RestructFrame hands the frames to the frame worker, by descriptor.
RestructFrame(w) ==
  /\ RecvAt(w, "restruct")
  /\ frames' = [frames EXCEPT ![w] =
                  @ \o [i \in DOMAIN recv[w].read |->
                          [fd |-> recv[w].fd, frame |-> recv[w].read[i], from |-> recv[w].from]]]
  /\ RecvGoto(w, [at |-> "read", fd |-> recv[w].fd])
  /\ UNCHANGED <<peers, kernel, maps, sending, tasks, proc, past>>

\* Mutants: the end is taken for EAGAIN; a failed read is tried again.
ReadNothingOnEnd(w) ==
  LET c == file[recv[w].fd] IN
  /\ RecvAt(w, "read")
  /\ c # None => got[c] = sent[c]
  /\ RecvGoto(w, Idle)
  /\ UNCHANGED <<peers, kernel, maps, sending, tasks, frames, proc, past>>
ReadNothingAgain(w) ==
  LET c == file[recv[w].fd] IN
  /\ RecvAt(w, "read")
  /\ c # None => got[c] = sent[c] /\ c \notin gone
  /\ UNCHANGED vars

\* EAGAIN, or EBADF after a bad login: the task ends.
ReadNothing(w) ==
  LET c == file[recv[w].fd] IN
  /\ RecvAt(w, "read")
  /\ c # None => got[c] = sent[c] /\ c \notin gone
  /\ RecvGoto(w, Idle)
  /\ UNCHANGED <<peers, kernel, maps, sending, tasks, frames, proc, past>>

\* The end: close first ...  "of", which RemovesOwn is about, is the entry at that time.
ReadEnd(w) ==
  LET c == file[recv[w].fd] IN
  /\ RecvAt(w, "read")
  /\ c \in gone /\ got[c] = sent[c]
  /\ Close(recv[w].fd)
  /\ RecvGoto(w, [at |-> "quit", fd |-> recv[w].fd, of |-> m_SocketInfo[recv[w].fd]])
  /\ UNCHANGED <<peers, maps, sending, tasks, frames, proc, past>>

\* ... then QuitClient ...
EndQuit(w) ==
  /\ RecvAt(w, "quit")
  /\ ClientMap' = [ClientMap EXCEPT ![recv[w].fd] = None]
  /\ RecvGoto(w, [at |-> "remove", fd |-> recv[w].fd, of |-> recv[w].of])
  /\ UNCHANGED <<peers, kernel, m_SocketInfo, client, sending, tasks, frames, proc, past>>
  /\ ChangeClientMap

\* Mutant: RemoveSocket empties the chain and leaves the entry.
EndRemoveKept(w) ==
  LET s == m_SocketInfo[recv[w].fd] IN
  /\ RecvAt(w, "remove")
  /\ chain' = IF s = None THEN chain ELSE [chain EXCEPT ![s] = <<>>]
  /\ RecvGoto(w, Idle)
  /\ UNCHANGED <<peers, kernel, maps, sendTasks, send, inbox, tasks, frames, proc, past>>

\* ... and RemoveSocket, which empties the chain.
EndRemove(w) ==
  LET s == m_SocketInfo[recv[w].fd] IN
  /\ RecvAt(w, "remove")
  /\ m_SocketInfo' = [m_SocketInfo EXCEPT ![recv[w].fd] = None]
  /\ chain' = IF s = None THEN chain ELSE [chain EXCEPT ![s] = <<>>]
  /\ RecvGoto(w, Idle)
  /\ UNCHANGED <<peers, kernel, ClientMap, client, changes, sendTasks, send, inbox, tasks, frames, proc, past>>

-----------------------------------------------------------------------------
(* The frame workers: CommandProc                                           *)

HasFrame(w, code) ==
  /\ ProcAt(w, "idle")
  /\ frames[w] # <<>>
  /\ Head(frames[w]).frame.code = code

\* d is in both maps under its own descriptor, as a PC of camera k.
Watching(d, k) ==
  /\ \E f \in Fds : {file[f], m_SocketInfo[f], ClientMap[f]} = {d}
  /\ client[d] = [type |-> "pc", camera |-> k]

NoLonger(c) == {x \in due : x[2] # c}

\* NewClient: the type and the camera of the client, then an acknowledgement.  A wrong
\* type, or no client, makes CommandProc drop the connection.
Login(w) ==
  LET task == Head(frames[w])
      c == ClientMap[task.fd]
  IN
  /\ HasFrame(w, "login")
  /\ frames' = Rest(frames, w)
  /\ IF task.frame.type \in {"phone", "pc"} /\ c # None
       THEN /\ client' = [client EXCEPT ![c] = [type |-> task.frame.type, camera |-> task.frame.camera]]
            /\ due' = NoLonger(c)
            /\ ProcGoto(w, [at |-> "find", task |-> task, what |-> "ack", to |-> task.fd])
       ELSE ProcGoto(w, [at |-> "quit", task |-> task]) /\ UNCHANGED <<client, due>>
  /\ UNCHANGED <<peers, kernel, m_SocketInfo, ClientMap, changes, sending, tasks, recv, kicked>>

\* Mutant: QuitClient without close.
KickQuitOnly(w) ==
  /\ ProcAt(w, "quit")
  /\ ClientMap' = [ClientMap EXCEPT ![proc[w].task.fd] = None]
  /\ ProcGoto(w, Idle)
  /\ UNCHANGED <<peers, kernel, m_SocketInfo, client, sending, tasks, recv, frames, past>>
  /\ ChangeClientMap

KickQuit(w) ==
  /\ ProcAt(w, "quit")
  /\ ClientMap' = [ClientMap EXCEPT ![proc[w].task.fd] = None]
  /\ ProcGoto(w, [at |-> "close", task |-> proc[w].task])
  /\ UNCHANGED <<peers, kernel, m_SocketInfo, client, sending, tasks, recv, frames, past>>
  /\ ChangeClientMap

\* close() of the descriptor, whose connection it is by now; no RemoveSocket.
KickClose(w) ==
  /\ ProcAt(w, "close")
  /\ Close(proc[w].task.fd)
  /\ kicked' = kicked \cup ({file[proc[w].task.fd]} \ {None})
  /\ ProcGoto(w, Idle)
  /\ UNCHANGED <<peers, maps, sending, tasks, recv, frames, due>>

ResetCameraId(w) ==
  LET task == Head(frames[w])
      c == ClientMap[task.fd]
  IN
  /\ HasFrame(w, "camera")
  /\ frames' = Rest(frames, w)
  /\ client' = IF c = None THEN client ELSE [client EXCEPT ![c] = [type |-> @.type, camera |-> task.frame.camera]]
  /\ due' = NoLonger(c)
  /\ UNCHANGED <<peers, kernel, m_SocketInfo, ClientMap, changes, sending, tasks, recv, proc, kicked>>

\* PicDataRecv, without the lock: it looks for its client ...
Picture(w) ==
  /\ HasFrame(w, "picture")
  /\ frames' = Rest(frames, w)
  /\ ProcGoto(w, [at |-> "seek", task |-> Head(frames[w])])
  /\ UNCHANGED <<peers, kernel, maps, sending, tasks, recv, past>>

\* ... and reads its camera.  A search that meets a change may miss the entry, or find
\* one that has been erased.
Seek(w) ==
  LET task == proc[w].task
      others == Conns \ {ClientMap[task.fd]}
  IN
  /\ ProcAt(w, "seek")
  /\ \E c \in {ClientMap[task.fd]} \cup {x[2] : x \in {x \in Meets(w) : x[1] = task.fd}}
                 \cup {None : x \in Meets(w)} :
        /\ ProcGoto(w, IF c = None THEN Idle
                       ELSE [at |-> "walk", task |-> task, camera |-> client[c].camera,
                             last |-> -1, on |-> None, backs |-> 0])
        /\ due' = IF c = None THEN due
                  ELSE due \cup {<<task.from, d>> : d \in {d \in others : Watching(d, client[c].camera)}}
  /\ changes' = [changes EXCEPT ![w] = {}]
  /\ UNCHANGED <<peers, kernel, m_SocketInfo, ClientMap, client, sending, tasks, recv, frames, kicked>>

Ahead(w) == {x \in Mapped : x[1] > proc[w].last}

\* The increment starts from an erased node or meets a change.
Astray(w) == proc[w].last # -1 /\ (OnErased(proc[w]) \/ Meets(w) # {})

\* Where the iterator may come next: to the entry of the next descriptor, or, if it goes
\* astray, to any that is or was there, forward or back.
NextEntries(w) ==
  IF Astray(w) THEN {x \in Mapped \cup Meets(w) : x[1] > proc[w].last \/ proc[w].backs < MaxBacks}
  ELSE {x \in Ahead(w) : \A y \in Ahead(w) : x[1] <= y[1]}

\* Mutant: the walk starts at the sender's own entry.
WatchesAfter(x, w) ==
  /\ x[1] > proc[w].task.fd
  /\ client[x[2]] = [type |-> "pc", camera |-> proc[w].camera]

Watches(x, w) ==
  /\ x[1] # proc[w].task.fd
  /\ client[x[2]] = [type |-> "pc", camera |-> proc[w].camera]

\* ... and walks the map; an increment that goes astray may also end the walk.
Walk(w) ==
  LET p == proc[w] IN
  /\ ProcAt(w, "walk")
  /\ \/ \E x \in NextEntries(w) :
          LET there == [p EXCEPT !.last = x[1], !.on = x[2], !.backs = IF x[1] > p.last THEN @ ELSE @ + 1]
          IN /\ ProcGoto(w, IF Watches(x, w)
                            THEN [at |-> "find", task |-> p.task, what |-> "picture", to |-> x[1], walk |-> there]
                            ELSE there)
             /\ changes' = [changes EXCEPT ![w] = IF x \in Mapped THEN {} ELSE @ \ {x}]
     \/ /\ Ahead(w) = {} \/ Astray(w)
        /\ ProcGoto(w, Idle)
        /\ changes' = [changes EXCEPT ![w] = {}]
  /\ due' = IF Astray(w) THEN due \ {<<p.task.from, x[2]>> : x \in Ahead(w)} ELSE due
  /\ UNCHANGED <<peers, kernel, m_SocketInfo, ClientMap, client, sending, tasks, recv, frames, kicked>>

\* What follows SendData: the walk goes on, or the command is done.
AfterSend(w) == IF proc[w].what = "picture" THEN proc[w].walk ELSE Idle

\* SendData finds the socket under the lock ...
SendFind(w) ==
  /\ ProcAt(w, "find")
  /\ LET s == m_SocketInfo[proc[w].to]
     IN ProcGoto(w, IF s = None THEN AfterSend(w)
                    ELSE [at |-> "push", of |-> s, what |-> proc[w].what, to |-> proc[w].to,
                          task |-> proc[w].task, walk |-> AfterSend(w)])
  /\ UNCHANGED <<peers, kernel, maps, sending, tasks, recv, frames, past>>

\* Mutant: no task for the send worker.
SendPushQuiet(w) ==
  LET p == proc[w] IN
  /\ ProcAt(w, "push")
  /\ chain' = [chain EXCEPT ![p.of] = Append(@, [what |-> p.what, from |-> p.task.from])]
  /\ ProcGoto(w, p.walk)
  /\ UNCHANGED <<peers, kernel, maps, sendTasks, send, inbox, tasks, recv, frames, past>>

\* ... and pushes to its chain after the unlock.
SendPush(w) ==
  LET p == proc[w] IN
  /\ ProcAt(w, "push")
  /\ chain' = [chain EXCEPT ![p.of] = Append(@, [what |-> p.what, from |-> p.task.from])]
  /\ sendTasks' = Add(sendTasks, WorkerOf(p.to), p.to)
  /\ ProcGoto(w, p.walk)
  /\ UNCHANGED <<peers, kernel, maps, send, inbox, tasks, recv, frames, past>>

-----------------------------------------------------------------------------
(* The send workers: CSocketSendTask                                        *)

SendTake(w) ==
  /\ send[w].at = "idle"
  /\ sendTasks[w] # <<>>
  /\ sendTasks' = Rest(sendTasks, w)
  /\ LET fd == Head(sendTasks[w])
     IN send' = IF m_SocketInfo[fd] = None THEN send
                ELSE [send EXCEPT ![w] = [at |-> "send", fd |-> fd, of |-> m_SocketInfo[fd]]]
  /\ UNCHANGED <<peers, kernel, maps, chain, inbox, tasks, recv, frames, proc, past>>

\* send() goes to the connection the descriptor has by now, or fails.
SendChain(w) ==
  LET c == file[send[w].fd]
      s == send[w].of
  IN
  /\ send[w].at = "send"
  /\ IF c = None THEN UNCHANGED <<chain, inbox>>
     ELSE /\ inbox' = [inbox EXCEPT ![c] = @ \cup {chain[s][i] : i \in DOMAIN chain[s]}]
          /\ chain' = [chain EXCEPT ![s] = <<>>]
  /\ send' = [send EXCEPT ![w] = Idle]
  /\ UNCHANGED <<peers, kernel, maps, sendTasks, tasks, recv, frames, proc, past>>

-----------------------------------------------------------------------------
RecvWorker(w) ==
  /\ UNCHANGED setup
  /\ \/ Accept(w) \/ AddToEpoll(w) \/ InsertSocket(w) \/ AddClient(w) \/ RecvOut(w) \/ RecvIn(w)
     \/ ReadData(w) \/ RestructFrame(w) \/ ReadNothing(w) \/ ReadEnd(w) \/ EndQuit(w) \/ EndRemove(w)

FrameWorker(w) ==
  /\ UNCHANGED setup
  /\ \/ Login(w) \/ KickQuit(w) \/ KickClose(w) \/ ResetCameraId(w) \/ Picture(w) \/ Seek(w)
     \/ Walk(w) \/ SendFind(w) \/ SendPush(w)

SendWorker(w) == UNCHANGED setup /\ (SendTake(w) \/ SendChain(w))

EpollThread == UNCHANGED setup /\ (EpollListen \/ \E fd \in Fds : EpollWait(fd))

Peers == UNCHANGED setup /\ \E c \in Conns : Connect(c) \/ PeerSend(c) \/ PeerClose(c)

Server == EpollThread \/ \E w \in Workers : RecvWorker(w) \/ FrameWorker(w) \/ SendWorker(w)

Next == Peers \/ Server

Spec == Init /\ [][Next]_vars

\* The threads of the server run as long as one of them can; peers need not do
\* anything.
FairSpec == Spec /\ WF_vars(Server)

-----------------------------------------------------------------------------
(* Properties                                                               *)

Own(w) == {f \in Fds : WorkerOf(f) = w}
RecvTask(w) ==
  {t \in [kind : {"listen"}] : w = Listener} \cup [kind : {"in", "out"}, fd : Own(w)]
FrameTask(w) == [fd : Own(w), frame : Frame, from : Conns]
Message == [what : {"ack", "picture"}, from : Conns]

\* A sequence or a place for each worker.
PerWorker(f) == f = [w \in Workers |-> f[w]]

\* Where a worker may be.
RecvPlace(p, w) ==
  \/ p.at = "idle"
  \/ p.at \in {"add", "insert", "client"} /\ w = Listener /\ p.fd \in Fds /\ p.of \in Conns
  \/ p.at = "read" /\ p.fd \in Own(w)
  \/ /\ p.at = "restruct" /\ p.fd \in Own(w)
     /\ p.from \in Conns /\ p.of \in Conns /\ p.read \in Seq(Frame)
  \/ p.at \in {"quit", "remove"} /\ p.fd \in Own(w) /\ p.of \in Conns \cup {None}

Walking(p, w) ==
  /\ p.at = "walk" /\ p.task \in FrameTask(w) /\ p.camera \in Nat
  /\ p.last \in Fds \cup {-1} /\ p.on \in Conns \cup {None} /\ p.backs \in Nat

Sending(p, w) ==
  /\ p.at \in {"find", "push"} /\ p.task \in FrameTask(w)
  /\ p.to \in Fds /\ p.what \in {"ack", "picture"}
  /\ p.at = "find" /\ p.what = "picture" => Walking(p.walk, w)
  /\ p.at = "push" => p.of \in Conns /\ (p.walk = Idle \/ Walking(p.walk, w))

ProcPlace(p, w) ==
  \/ p = Idle
  \/ p.at \in {"quit", "close", "seek"} /\ p.task \in FrameTask(w)
  \/ Walking(p, w)
  \/ Sending(p, w)

SendPlace(p, w) ==
  \/ p.at = "idle"
  \/ p.at = "send" /\ p.fd \in Own(w) /\ p.of \in Conns

WorkersTypeOK ==
  /\ PerWorker(tasks) /\ PerWorker(recv) /\ PerWorker(frames) /\ PerWorker(proc)
  /\ PerWorker(sendTasks) /\ PerWorker(send)
  /\ \A w \in Workers :
        /\ tasks[w] \in Seq(RecvTask(w)) /\ RecvPlace(recv[w], w)
        /\ frames[w] \in Seq(FrameTask(w)) /\ ProcPlace(proc[w], w)
        /\ sendTasks[w] \in Seq(Own(w)) /\ SendPlace(send[w], w)

\* The variables have their types; a worker has the tasks of its own descriptors.
TypeOK ==
  /\ setup \in Setups
  /\ conn \in [Conns -> {"new", "backlog", "open", "closed"}]
  /\ sent \in [Conns -> Nat] /\ got \in [Conns -> Nat]
  /\ \A c \in Conns : got[c] <= sent[c]
  /\ \A c \in Conns : IF conn[c] = "new" THEN sent[c] = 0
                      ELSE c \in DOMAIN setup.script /\ sent[c] <= Len(Script(c))
  /\ gone \subseteq Conns /\ kicked \subseteq Conns /\ due \subseteq Conns \X Conns
  /\ backlog \in Seq(Conns) /\ listenEvent \in BOOLEAN /\ missed \in Nat
  /\ {file, m_SocketInfo, ClientMap} \subseteq [Fds -> Conns \cup {None}]
  /\ ready \subseteq watched /\ watched \subseteq {file[f] : f \in Fds} \ {None}
  /\ client \in [Conns -> [type : {"none", "phone", "pc"}, camera : Nat]]
  /\ changes \in [Workers -> SUBSET (Fds \X Conns)]
  /\ chain \in [Conns -> Seq(Message)] /\ inbox \in [Conns -> SUBSET Message]
  /\ WorkersTypeOK

\* Somebody comes for every connection in the backlog, except for those whose arrival
\* was merged with another's event and those that found no descriptor (EpollServer.cpp:37).
BacklogAccounted ==
  Len(backlog) = missed + (IF listenEvent THEN 1 ELSE 0)
                 + Cardinality({i \in DOMAIN tasks[Listener] : tasks[Listener][i].kind = "listen"})

\* The receive worker of fd is between close() and the end of RemoveSocket.
Removing(fd) ==
  recv[WorkerOf(fd)].at \in {"quit", "remove"} /\ recv[WorkerOf(fd)].fd = fd

\* A SocketInformation outlives its connection only while RemoveSocket is on its way,
\* after a bad login (RecvDataProc.cpp:211), or if another worker than the descriptor's
\* entered it, perhaps after the end.
LeftoversExplained ==
  \A f \in Fds :
    LET c == m_SocketInfo[f]
    IN c # None /\ file[f] # c => c \in kicked \/ Removing(f) \/ WorkerOf(f) # Listener

\* The ClientInfo whose RestructFrame runs without the lock is not deleted meanwhile,
\* but for a bad login (RecvDataProc.cpp:116, 210).
ReaderHasClient ==
  \A w \in Workers : recv[w].at = "restruct" =>
    \/ ClientMap[recv[w].fd] = recv[w].of
    \/ file[recv[w].fd] # recv[w].from
    \/ proc[w].at = "close" /\ proc[w].task.fd = recv[w].fd

\* close() comes first, and the next connection may have the descriptor before
\* RemoveSocket comes (EpollServer.cpp:109).  It takes that connection's entry only if
\* there was none when the end was read, and the accepting worker is another one.
RemovesOwn ==
  \A f \in Fds : Removing(f) /\ m_SocketInfo[f] # None =>
    \/ conn[m_SocketInfo[f]] = "closed"
    \/ recv[WorkerOf(f)].of = None /\ WorkerOf(f) # Listener

-----------------------------------------------------------------------------
(* The inductive invariant                                                  *)

\* A descriptor in use has an open connection of its own, one in the backlog has none.
FilesOpen ==
  /\ \A f \in Fds : file[f] # None => conn[file[f]] = "open"
  /\ \A f, g \in Fds : file[f] # None /\ file[f] = file[g] => f = g
  /\ \A i, j \in DOMAIN backlog : conn[backlog[i]] = "backlog" /\ (backlog[i] = backlog[j] => i = j)

\* What a map has under a descriptor, or the accepting worker is about to enter, belongs
\* to the connection of the descriptor or to a closed one, and while the accepting worker
\* is the descriptor's only a bad login can have closed what it is about to enter.
EntriesOwn ==
  /\ \A f \in Fds : \A c \in {m_SocketInfo[f], ClientMap[f]} \ {None} : file[f] = c \/ conn[c] = "closed"
  /\ \A w \in Workers : recv[w].at \in {"add", "insert", "client"} =>
        LET c == recv[w].of
        IN file[recv[w].fd] = c \/ (conn[c] = "closed" /\ (WorkerOf(recv[w].fd) = w => c \in kicked))

\* From the close to RemoveSocket the entry stays as it was.
EntryStays ==
  \A f \in Fds : Removing(f) =>
    LET of == recv[WorkerOf(f)].of
    IN /\ of # None => m_SocketInfo[f] = of /\ conn[of] = "closed"
       /\ of = None /\ WorkerOf(f) = Listener => m_SocketInfo[f] = None

\* What was read came from a connection that had a descriptor.
ReadFromOld == \A w \in Workers : recv[w].at = "restruct" => conn[recv[w].from] \in {"open", "closed"}

Entries ==
  /\ TypeOK
  /\ FilesOpen
  /\ EntriesOwn
  /\ EntryStays
  /\ ReadFromOld
  /\ BacklogAccounted
  /\ LeftoversExplained
  /\ ReaderHasClient

-----------------------------------------------------------------------------
(* At rest                                                                  *)

\* Every thread waits and no event, task or frame is pending.
AtRest ==
  /\ ~listenEvent /\ ready = {}
  /\ \A w \in Workers :
        /\ tasks[w] = <<>> /\ frames[w] = <<>> /\ sendTasks[w] = <<>>
        /\ {recv[w], proc[w], send[w]} = {Idle}

\* The server comes to rest: no task is given on for ever.  What must happen in the end
\* is therefore stated of the states at rest.
Settles == <>[]AtRest

LogsIn(c) == \E i \in 1 .. sent[c] : Script(c)[i].code = "login"
Answered(c) == [what |-> "ack", from |-> c] \in inbox[c]

\* A peer that logs in and stays is answered.
LoginAnswered == AtRest => \A c \in Conns : conn[c] = "open" /\ LogsIn(c) => Answered(c)

\* So it is, at least, if the worker of its descriptor is the one that accepts: that
\* worker reads nothing before AddClient (EpollServer.cpp:46, 59).
AnsweredAtRest ==
  AtRest => \A f \in Fds :
    LET c == file[f]
    IN c # None /\ LogsIn(c) => Answered(c) \/ WorkerOf(f) # Listener

\* A connection whose peer has closed is closed, and its entries are gone unless a bad
\* login closed it or another worker than the descriptor's accepted it.
ReleasedAtRest ==
  AtRest => \A c \in gone :
    /\ conn[c] # "open"
    /\ c \in kicked \/ \A f \in Fds : c \in {m_SocketInfo[f], ClientMap[f]} => WorkerOf(f) # Listener

\* A PC that watches a camera from the start of the walk on gets the picture, unless the
\* walk left an entry on its way to the PC's while ClientMap was being changed, or after
\* that entry had been erased (RecvDataProc.cpp:287).  Clients may come and go while the
\* walk stands on other entries and sends.
PicturesAtRest ==
  AtRest => \A x \in due :
    Watching(x[2], client[x[2]].camera) => [what |-> "picture", from |-> x[1]] \in inbox[x[2]]

-----------------------------------------------------------------------------
(* The inductive invariant, continued: on the way to rest                   *)

Adding(w) == recv[w].at \in {"add", "insert", "client"}

\* c is, or was, the connection of descriptor f: the kernel, a map or a thread has it there.
Under(c, f) ==
  \/ c \in {file[f], m_SocketInfo[f], ClientMap[f]}
  \/ \E w \in Workers :
        \/ Adding(w) /\ recv[w].fd = f /\ recv[w].of = c
        \/ send[w].at = "send" /\ send[w].fd = f /\ send[w].of = c
        \/ proc[w].at = "push" /\ proc[w].to = f /\ proc[w].of = c

\* A connection has one descriptor in its life, from its accept on.
OneDescriptor ==
  /\ \A c \in Conns : \A f \in Fds : Under(c, f) => \A g \in Fds : Under(c, g) => f = g
  /\ \A c \in Conns : \A f \in Fds : Under(c, f) => conn[c] \in {"open", "closed"}
  /\ \A c \in Conns : conn[c] = "open" => \E f \in Fds : file[f] = c

\* What a peer sends, and its end, is in epoll, in a task or about to be read.
Attended ==
  \A f \in Fds :
    LET c == file[f]
        adding == recv[Listener].at = "add" /\ recv[Listener].fd = f
    IN c # None =>
         /\ c \in watched \/ adding
         /\ got[c] < sent[c] \/ c \in gone =>
              \/ adding \/ c \in ready
              \/ [kind |-> "in", fd |-> f] \in ToSet(tasks[WorkerOf(f)])
              \/ recv[WorkerOf(f)].at \in {"read", "restruct"} /\ recv[WorkerOf(f)].fd = f

\* An entry of ClientMap without its connection is about to be erased, or has one of the
\* explanations of LeftoversExplained.
ClientsExplained ==
  \A f \in Fds :
    LET c == ClientMap[f]
        w == WorkerOf(f)
    IN c # None /\ file[f] # c => c \in kicked \/ (recv[w].at = "quit" /\ recv[w].fd = f) \/ w # Listener

\* If its own worker accepts a connection, nothing is read before both entries are
\* there, and they stay; but a bad login may be about to close it.
EntriesFirst ==
  \A f \in Fds : WorkerOf(f) = Listener /\ file[f] # None =>
    LET p == recv[Listener]
    IN /\ ~Removing(f)
       /\ \/ Adding(Listener) /\ p.fd = f /\ got[file[f]] = 0 /\ (p.at = "client" => m_SocketInfo[f] # None)
          \/ /\ m_SocketInfo[f] # None
             /\ ClientMap[f] # None \/ (proc[Listener].at = "close" /\ proc[Listener].task.fd = f)

\* Nothing is read of a connection that waits.
UnreadAtFirst == \A c \in Conns : conn[c] \in {"new", "backlog"} => got[c] = 0

\* A message to the socket of f has been received, is on its chain with a task to send
\* it, or a frame worker is about to put it there.
OnChain(m, s, f) ==
  LET w == WorkerOf(f)
  IN /\ m \in ToSet(chain[s])
     /\ f \in ToSet(sendTasks[w]) \/ (send[w].at = "send" /\ send[w].fd = f /\ send[w].of = s)

Carries(p, m, f) ==
  /\ p.at = "find" \/ (p.at = "push" /\ p.of = m_SocketInfo[f])
  /\ p.to = f /\ p.what = m.what /\ p.task.from = m.from

OnWay(m, f) ==
  \/ \E w \in Workers : Carries(proc[w], m, f)
  \/ OnChain(m, m_SocketInfo[f], f)
  \/ m \in inbox[file[f]]

\* A login that was read is in the hands of a worker, its acknowledgement is on its
\* way, or it was a bad one.
LoginsOnWay ==
  \A f \in Fds : WorkerOf(f) = Listener /\ file[f] # None =>
    LET c == file[f]
        w == Listener
    IN (\E i \in 1 .. got[c] : Script(c)[i].code = "login") =>
         \/ proc[w].at \in {"quit", "close"} /\ proc[w].task.fd = f
         \/ /\ recv[w].at = "restruct" /\ recv[w].fd = f /\ recv[w].from = c
            /\ \E frame \in ToSet(recv[w].read) : frame.code = "login"
         \/ \E t \in ToSet(frames[w]) : t.fd = f /\ t.from = c /\ t.frame.code = "login"
         \/ OnWay([what |-> "ack", from |-> c], f)

\* c has its entries, if it ever gets them.
Entered(c) == conn[c] \in {"open", "closed"} /\ ~(Adding(Listener) /\ recv[Listener].of = c)

\* A connection is entered in ClientMap last, and once.
EntersOnce ==
  /\ \A f \in Fds : ClientMap[f] # None => Entered(ClientMap[f])
  /\ \A x \in due : Entered(x[2])

\* A walk of the map for a picture of c has yet to come to f.
WalksTo(p, c, f) ==
  /\ p.at = "walk" /\ p.task.from = c /\ p.task.fd # f
  /\ p.last < f /\ p.camera = client[ClientMap[f]].camera

\* A picture that is due comes to the PC as long as the PC watches.
PicturesOnWay ==
  \A x \in due : \A f \in Fds :
    {file[f], m_SocketInfo[f], ClientMap[f]} = {x[2]} /\ client[x[2]].type = "pc" =>
      \/ \E w \in Workers :
            LET p == proc[w]
            IN WalksTo(p, x[1], f) \/ (p.at \in {"find", "push"} /\ WalksTo(AfterSend(w), x[1], f))
      \/ OnWay([what |-> "picture", from |-> x[1]], f)

Inv ==
  /\ Entries
  /\ OneDescriptor
  /\ Attended
  /\ ClientsExplained
  /\ EntriesFirst
  /\ UnreadAtFirst
  /\ LoginsOnWay
  /\ EntersOnce
  /\ PicturesOnWay
=============================================================================
