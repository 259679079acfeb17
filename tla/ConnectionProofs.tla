--------------------------- MODULE ConnectionProofs ---------------------------
(***************************************************************************)
(* Entries of Connection is inductive, for any number of connections,       *)
(* descriptors and workers, and implies the safety properties that speak of *)
(* every state.                                                             *)
(***************************************************************************)
EXTENDS Connection, FiniteSetTheorems, SequenceTheorems, WellFoundedInduction, TLAPS

USE ConnectionAssumption

-----------------------------------------------------------------------------
(* Lemmas about the operators                                               *)

\* One worker's part of a variable is assigned.
LEMMA OneAssigned ==
  ASSUME NEW f, NEW g, NEW w \in Workers, NEW v, PerWorker(f), g = [f EXCEPT ![w] = v]
  PROVE  PerWorker(g) /\ \A u \in Workers : g[u] = IF u = w THEN v ELSE f[u]
BY DEF PerWorker

\* A task is taken from a worker's queue, and one is added.
LEMMA QueueRest ==
  ASSUME NEW q, NEW T, NEW w \in Workers, PerWorker(q), \A u \in Workers : q[u] \in Seq(T[u]),
         q[w] # <<>>
  PROVE  /\ PerWorker(Rest(q, w))
         /\ \A u \in Workers : Rest(q, w)[u] \in Seq(T[u])
         /\ \A u \in Workers : Rest(q, w)[u] = IF u = w THEN Tail(q[w]) ELSE q[u]
         /\ Head(q[w]) \in T[w]
<1>1. q[w] \in Seq(T[w])
  OBVIOUS
<1>2. Head(q[w]) \in T[w] /\ Tail(q[w]) \in Seq(T[w])
  BY <1>1, HeadTailProperties
<1>3. Rest(q, w) = [q EXCEPT ![w] = Tail(q[w])]
  BY DEF Rest
<1>4. PerWorker(Rest(q, w)) /\ \A u \in Workers : Rest(q, w)[u] = IF u = w THEN Tail(q[w]) ELSE q[u]
  BY <1>3 DEF PerWorker
<1> QED
  BY <1>2, <1>4

LEMMA QueueAdd ==
  ASSUME NEW q, NEW T, NEW w \in Workers, PerWorker(q), \A u \in Workers : q[u] \in Seq(T[u]),
         NEW task \in T[w]
  PROVE  /\ PerWorker(Add(q, w, task))
         /\ \A u \in Workers : Add(q, w, task)[u] \in Seq(T[u])
         /\ \A u \in Workers : Add(q, w, task)[u] = IF u = w THEN Append(q[w], task) ELSE q[u]
<1>1. Append(q[w], task) \in Seq(T[w])
  BY AppendProperties
<1>2. Add(q, w, task) = [q EXCEPT ![w] = Append(q[w], task)]
  BY DEF Add
<1>3. PerWorker(Add(q, w, task)) /\ \A u \in Workers : Add(q, w, task)[u] = IF u = w THEN Append(q[w], task) ELSE q[u]
  BY <1>2 DEF PerWorker
<1> QED
  BY <1>1, <1>3

\* The lowest of some descriptors exists.
LEMMA Lowest ==
  ASSUME NEW S, S \subseteq Fds, S # {}
  PROVE  LET f == CHOOSE f \in S : \A g \in S : f <= g
         IN f \in S /\ \A g \in S : f <= g
<1> DEFINE below == {ss \in Nat \X Nat : ss[1] < ss[2]}
<1>1. S \subseteq Nat
  OBVIOUS
<1>2. IsWellFoundedOn(below, Nat)
  BY NatLessThanWellFounded DEF OpToRel
<1> HIDE DEF below
<1>3. PICK f \in S : \A g \in S : ~ (<<g, f>> \in below)
  BY <1>1, <1>2, WFMin
<1>4. ASSUME NEW g \in S
      PROVE  f <= g
  <2>1. f \in Nat /\ g \in Nat
    BY <1>1
  <2>2. g < f => <<g, f>> \in below
    BY <2>1 DEF below
  <2> QED
    BY <1>3, <2>1, <2>2
<1> QED
  BY <1>4

\* Each descriptor has a worker.
LEMMA WorkerOfType == \A f \in Fds : WorkerOf(f) \in Workers /\ f \in Own(WorkerOf(f))
BY DEF WorkerOf, Workers, Own

LEMMA OwnType == \A w : \A f \in Own(w) : f \in Fds /\ WorkerOf(f) = w
BY DEF Own

\* What a setup has.
LEMMA SetupType ==
  ASSUME setup \in Setups
  PROVE  /\ Listener \in Workers /\ setup.burst \in Nat \ {0} /\ setup.fds \subseteq Fds
         /\ \A c \in DOMAIN setup.script : c \in Conns /\ Script(c) \in Seq(Frame) /\ Len(Script(c)) \in Nat
<1>1. \A c \in DOMAIN setup.script : Script(c) \in Seq(Frame)
  BY DEF Script
<1> QED
  BY <1>1, LenProperties DEF Listener

-----------------------------------------------------------------------------
(* Types                                                                    *)

\* What a worker has, of each kind.
RecvTasks == [w \in Workers |-> RecvTask(w)]
FrameTasks == [w \in Workers |-> FrameTask(w)]
Owns == [w \in Workers |-> Own(w)]

LEMMA Kept ==
  ASSUME Next
  PROVE  setup' = setup
BY DEF Next, Peers, Server, EpollThread, RecvWorker, FrameWorker, SendWorker

LEMMA Typed ==
  ASSUME TypeOK
  PROVE  /\ setup \in Setups
         /\ conn \in [Conns -> {"new", "backlog", "open", "closed"}]
         /\ file \in [Fds -> Conns \cup {None}] /\ m_SocketInfo \in [Fds -> Conns \cup {None}]
         /\ ClientMap \in [Fds -> Conns \cup {None}]
         /\ PerWorker(tasks) /\ PerWorker(recv) /\ PerWorker(frames) /\ PerWorker(proc)
         /\ PerWorker(sendTasks) /\ PerWorker(send)
         /\ \A w \in Workers :
               /\ tasks[w] \in Seq(RecvTasks[w]) /\ RecvPlace(recv[w], w)
               /\ frames[w] \in Seq(FrameTasks[w]) /\ ProcPlace(proc[w], w)
               /\ sendTasks[w] \in Seq(Owns[w]) /\ SendPlace(send[w], w)
BY DEF TypeOK, WorkersTypeOK, RecvTasks, FrameTasks, Owns

\* The tasks of the receive workers.
LEMMA TasksType ==
  ASSUME TypeOK, Next
  PROVE  PerWorker(tasks') /\ \A u \in Workers : tasks'[u] \in Seq(RecvTasks[u])
<1> USE Typed, SetupType
<1>1. CASE UNCHANGED tasks
  BY <1>1
<1>2. ASSUME NEW w \in Workers, tasks[w] # <<>>, tasks' = Rest(tasks, w)
      PROVE  PerWorker(tasks') /\ \A u \in Workers : tasks'[u] \in Seq(RecvTasks[u])
  BY <1>2, QueueRest
<1>3. ASSUME NEW w \in Workers, NEW task \in RecvTasks[w], tasks' = Add(tasks, w, task)
      PROVE  PerWorker(tasks') /\ \A u \in Workers : tasks'[u] \in Seq(RecvTasks[u])
  BY <1>3, QueueAdd
<1>4. CASE Peers
  BY <1>1, <1>4 DEF Peers, Connect, PeerSend, PeerClose
<1>5. CASE EpollListen
  <2>1. [kind |-> "listen"] \in RecvTasks[Listener]
    BY DEF RecvTasks, RecvTask
  <2> QED
    BY <1>3, <1>5, <2>1 DEF EpollListen
<1>6. ASSUME NEW fd \in Fds, EpollWait(fd)
      PROVE  PerWorker(tasks') /\ \A u \in Workers : tasks'[u] \in Seq(RecvTasks[u])
  <2>1. PICK kind \in {"in", "out"} : tasks' = Add(tasks, WorkerOf(fd), [kind |-> kind, fd |-> fd])
    BY <1>6 DEF EpollWait
  <2>2. [kind |-> kind, fd |-> fd] \in RecvTasks[WorkerOf(fd)]
    BY WorkerOfType DEF RecvTasks, RecvTask
  <2> QED
    BY <1>3, <2>1, <2>2, WorkerOfType
<1>7. ASSUME NEW w \in Workers, RecvWorker(w)
      PROVE  PerWorker(tasks') /\ \A u \in Workers : tasks'[u] \in Seq(RecvTasks[u])
  <2>1. CASE Accept(w) \/ RecvOut(w) \/ RecvIn(w)
    BY <1>2, <2>1 DEF Accept, RecvOut, RecvIn, HasTask
  <2>2. CASE AddToEpoll(w) \/ InsertSocket(w) \/ AddClient(w) \/ ReadData(w) \/ RestructFrame(w)
             \/ ReadNothing(w) \/ ReadEnd(w) \/ EndQuit(w) \/ EndRemove(w)
    BY <1>1, <2>2 DEF AddToEpoll, InsertSocket, AddClient, ReadData, RestructFrame, ReadNothing, ReadEnd,
                      EndQuit, EndRemove
  <2> QED
    BY <1>7, <2>1, <2>2 DEF RecvWorker
<1>8. ASSUME NEW w \in Workers, FrameWorker(w)
      PROVE  PerWorker(tasks') /\ \A u \in Workers : tasks'[u] \in Seq(RecvTasks[u])
  BY <1>1, <1>8 DEF FrameWorker, Login, KickQuit, KickClose, ResetCameraId, Picture, Seek, Walk, SendFind, SendPush
<1>9. ASSUME NEW w \in Workers, SendWorker(w)
      PROVE  PerWorker(tasks') /\ \A u \in Workers : tasks'[u] \in Seq(RecvTasks[u])
  BY <1>1, <1>9 DEF SendWorker, SendTake, SendChain
<1> QED
  BY <1>4, <1>5, <1>6, <1>7, <1>8, <1>9 DEF Next, Server, EpollThread

\* Where a receive worker goes.
LEMMA RecvGoes ==
  ASSUME TypeOK, NEW w \in Workers, NEW p, RecvGoto(w, p)
  PROVE  PerWorker(recv') /\ \A u \in Workers : recv'[u] = IF u = w THEN p ELSE recv[u]
BY Typed DEF RecvGoto, PerWorker

\* Where a receive worker is tells what it has.
LEMMA RecvThere ==
  ASSUME TypeOK, NEW w \in Workers
  PROVE  /\ recv[w].at \in {"add", "insert", "client"} =>
              w = Listener /\ recv[w].fd \in Fds /\ recv[w].of \in Conns
         /\ recv[w].at \in {"read", "restruct", "quit", "remove"} => recv[w].fd \in Own(w)
         /\ recv[w].at = "restruct" => recv[w].from \in Conns /\ recv[w].of \in Conns /\ recv[w].read \in Seq(Frame)
         /\ recv[w].at \in {"quit", "remove"} => recv[w].of \in Conns \cup {None}
BY Typed DEF RecvPlace

LEMMA RecvType ==
  ASSUME TypeOK, Next
  PROVE  PerWorker(recv') /\ \A u \in Workers : RecvPlace(recv'[u], u)
<1> USE Typed, SetupType
<1>1. CASE UNCHANGED recv
  BY <1>1
<1>2. ASSUME NEW w \in Workers, NEW p, RecvGoto(w, p), RecvPlace(p, w)
      PROVE  PerWorker(recv') /\ \A u \in Workers : RecvPlace(recv'[u], u)
  BY <1>2, RecvGoes
<1>3. RecvPlace(Idle, 0) /\ \A w : RecvPlace(Idle, w)
  BY DEF RecvPlace, Idle
<1>4. CASE Peers
  BY <1>1, <1>4 DEF Peers, Connect, PeerSend, PeerClose
<1>5. CASE EpollThread
  BY <1>1, <1>5 DEF EpollThread, EpollListen, EpollWait
<1>6. ASSUME NEW w \in Workers, RecvWorker(w)
      PROVE  PerWorker(recv') /\ \A u \in Workers : RecvPlace(recv'[u], u)
  <2>1. CASE Accept(w)
    <3>1. CASE backlog # <<>> /\ FreeFds # {}
      <4> DEFINE c == Head(backlog)
                 fd == CHOOSE f \in FreeFds : \A g \in FreeFds : f <= g
      <4>1. c \in Conns
        BY <3>1, HeadTailProperties DEF TypeOK
      <4>2. fd \in FreeFds /\ fd \in Fds
        BY <3>1, Lowest DEF FreeFds
      <4>3. RecvGoto(w, [at |-> "add", fd |-> fd, of |-> c])
        BY <2>1, <3>1 DEF Accept
      <4>4. w = Listener
        <5>1. Head(tasks[w]) \in RecvTasks[w] /\ Head(tasks[w]).kind = "listen"
          BY <2>1, HeadTailProperties DEF Accept, HasTask
        <5> QED
          BY <5>1 DEF RecvTasks, RecvTask
      <4> HIDE DEF c, fd
      <4>5. RecvPlace([at |-> "add", fd |-> fd, of |-> c], w)
        BY <4>1, <4>2, <4>4 DEF RecvPlace
      <4> QED
        BY <1>2, <4>3, <4>5
    <3>2. CASE ~ (backlog # <<>> /\ FreeFds # {})
      BY <1>1, <2>1, <3>2 DEF Accept
    <3> QED
      BY <3>1, <3>2
  <2>2. CASE AddToEpoll(w)
    <3>1. recv[w].fd \in Fds /\ recv[w].of \in Conns /\ w = Listener
      BY <2>2, RecvThere DEF AddToEpoll, RecvAt
    <3>2. RecvPlace([at |-> "insert", fd |-> recv[w].fd, of |-> recv[w].of], w)
      BY <3>1 DEF RecvPlace
    <3>3. RecvGoto(w, Idle) \/ RecvGoto(w, [at |-> "insert", fd |-> recv[w].fd, of |-> recv[w].of])
      BY <2>2 DEF AddToEpoll
    <3> QED
      BY <1>2, <1>3, <3>2, <3>3
  <2>3. CASE InsertSocket(w)
    <3>1. recv[w].fd \in Fds /\ recv[w].of \in Conns /\ w = Listener
      BY <2>3, RecvThere DEF InsertSocket, RecvAt
    <3>2. RecvPlace([at |-> "client", fd |-> recv[w].fd, of |-> recv[w].of], w)
      BY <3>1 DEF RecvPlace
    <3> QED
      BY <1>2, <2>3, <3>2 DEF InsertSocket
  <2>4. CASE AddClient(w) \/ ReadNothing(w) \/ EndRemove(w)
    BY <1>2, <1>3, <2>4 DEF AddClient, ReadNothing, EndRemove
  <2>5. CASE RecvOut(w)
    BY <1>1, <2>5 DEF RecvOut
  <2>6. CASE RecvIn(w)
    <3>1. Head(tasks[w]) \in RecvTasks[w] /\ Head(tasks[w]).kind = "in"
      BY <2>6, HeadTailProperties DEF RecvIn, HasTask
    <3>2. Head(tasks[w]).fd \in Own(w)
      BY <3>1 DEF RecvTasks, RecvTask
    <3>3. RecvPlace([at |-> "read", fd |-> Head(tasks[w]).fd], w)
      BY <3>2 DEF RecvPlace
    <3> QED
      BY <1>2, <2>6, <3>3 DEF RecvIn
  <2>7. CASE ReadData(w)
    <3> DEFINE fd == recv[w].fd
               c == file[fd]
    <3>1. fd \in Own(w) /\ fd \in Fds
      BY <2>7, RecvThere, OwnType DEF ReadData, RecvAt
    <3>2. c \in Conns /\ got[c] \in Nat /\ sent[c] \in Nat /\ got[c] < sent[c]
      BY <2>7, <3>1 DEF ReadData, TypeOK
    <3>3. Script(c) \in Seq(Frame) /\ sent[c] <= Len(Script(c)) /\ Len(Script(c)) \in Nat
      <4> HIDE DEF c
      <4>1. conn[c] # "new"
        BY <3>2 DEF TypeOK
      <4>2. c \in DOMAIN setup.script /\ sent[c] <= Len(Script(c))
        BY <3>2, <4>1 DEF TypeOK
      <4> QED
        BY <4>2
    <3>4. Unread(c) \in Seq(Frame)
      <4> HIDE DEF c
      <4>1. \A i \in got[c] + 1 .. sent[c] : i \in 1 .. Len(Script(c))
        BY <3>2, <3>3
      <4> QED
        BY <3>2, <3>3, <4>1, SubSeqProperties DEF Unread
    <3>5. ClientMap[fd] # None => ClientMap[fd] \in Conns
      BY <3>1
    <3>6. RecvGoto(w, recv[w]) \/ (ClientMap[fd] # None /\
             RecvGoto(w, [at |-> "restruct", fd |-> fd, from |-> c, of |-> ClientMap[fd], read |-> Unread(c)]))
      BY <2>7 DEF ReadData
    <3> HIDE DEF c, fd
    <3>7. ClientMap[fd] # None =>
            RecvPlace([at |-> "restruct", fd |-> fd, from |-> c, of |-> ClientMap[fd], read |-> Unread(c)], w)
      BY <3>1, <3>2, <3>4, <3>5 DEF RecvPlace
    <3> QED
      BY <1>2, <3>6, <3>7
  <2>8. CASE RestructFrame(w)
    <3>1. RecvPlace([at |-> "read", fd |-> recv[w].fd], w)
      BY <2>8, RecvThere DEF RestructFrame, RecvAt, RecvPlace
    <3> QED
      BY <1>2, <2>8, <3>1 DEF RestructFrame
  <2>9. CASE ReadEnd(w)
    <3>1. recv[w].fd \in Own(w) /\ m_SocketInfo[recv[w].fd] \in Conns \cup {None}
      BY <2>9, RecvThere, OwnType DEF ReadEnd, RecvAt
    <3>2. RecvPlace([at |-> "quit", fd |-> recv[w].fd, of |-> m_SocketInfo[recv[w].fd]], w)
      BY <3>1 DEF RecvPlace
    <3> QED
      BY <1>2, <2>9, <3>2 DEF ReadEnd
  <2>10. CASE EndQuit(w)
    <3>1. recv[w].fd \in Own(w) /\ recv[w].of \in Conns \cup {None}
      BY <2>10, RecvThere DEF EndQuit, RecvAt
    <3>2. RecvPlace([at |-> "remove", fd |-> recv[w].fd, of |-> recv[w].of], w)
      BY <3>1 DEF RecvPlace
    <3> QED
      BY <1>2, <2>10, <3>2 DEF EndQuit
  <2> QED
    BY <1>6, <2>1, <2>2, <2>3, <2>4, <2>5, <2>6, <2>7, <2>8, <2>9, <2>10 DEF RecvWorker
<1>7. ASSUME NEW w \in Workers, FrameWorker(w)
      PROVE  PerWorker(recv') /\ \A u \in Workers : RecvPlace(recv'[u], u)
  BY <1>1, <1>7 DEF FrameWorker, Login, KickQuit, KickClose, ResetCameraId, Picture, Seek, Walk, SendFind, SendPush
<1>8. ASSUME NEW w \in Workers, SendWorker(w)
      PROVE  PerWorker(recv') /\ \A u \in Workers : RecvPlace(recv'[u], u)
  BY <1>1, <1>8 DEF SendWorker, SendTake, SendChain
<1> QED
  BY <1>4, <1>5, <1>6, <1>7, <1>8 DEF Next, Server

\* The frames handed to the frame workers.
LEMMA FramesType ==
  ASSUME TypeOK, Next
  PROVE  PerWorker(frames') /\ \A u \in Workers : frames'[u] \in Seq(FrameTasks[u])
<1> USE Typed
<1>1. CASE UNCHANGED frames
  BY <1>1
<1>2. ASSUME NEW w \in Workers, frames[w] # <<>>, frames' = Rest(frames, w)
      PROVE  PerWorker(frames') /\ \A u \in Workers : frames'[u] \in Seq(FrameTasks[u])
  BY <1>2, QueueRest
<1>3. CASE Peers \/ EpollThread
  BY <1>1, <1>3 DEF Peers, Connect, PeerSend, PeerClose, EpollThread, EpollListen, EpollWait
<1>4. ASSUME NEW w \in Workers, RecvWorker(w)
      PROVE  PerWorker(frames') /\ \A u \in Workers : frames'[u] \in Seq(FrameTasks[u])
  <2>1. CASE RestructFrame(w)
    <3> DEFINE new == [i \in DOMAIN recv[w].read |->
                         [fd |-> recv[w].fd, frame |-> recv[w].read[i], from |-> recv[w].from]]
    <3>1. recv[w].fd \in Own(w) /\ recv[w].from \in Conns /\ recv[w].read \in Seq(Frame)
      BY <2>1, RecvThere DEF RestructFrame, RecvAt
    <3>2. new \in Seq(FrameTasks[w])
      <4>1. /\ DOMAIN recv[w].read = 1 .. Len(recv[w].read) /\ Len(recv[w].read) \in Nat
            /\ \A i \in 1 .. Len(recv[w].read) : recv[w].read[i] \in Frame
        BY <3>1, LenProperties, ElementOfSeq
      <4> QED
        BY <3>1, <4>1 DEF FrameTasks, FrameTask
    <3>3. frames' = [frames EXCEPT ![w] = frames[w] \o new]
      BY <2>1 DEF RestructFrame
    <3> HIDE DEF new
    <3>4. frames[w] \o new \in Seq(FrameTasks[w])
      BY <3>2, ConcatProperties
    <3> QED
      BY <3>3, <3>4 DEF PerWorker
  <2>2. CASE ~ RestructFrame(w)
    BY <1>1, <1>4, <2>2 DEF RecvWorker, Accept, AddToEpoll, InsertSocket, AddClient, RecvOut, RecvIn, ReadData,
                            ReadNothing, ReadEnd, EndQuit, EndRemove
  <2> QED
    BY <2>1, <2>2
<1>5. ASSUME NEW w \in Workers, FrameWorker(w)
      PROVE  PerWorker(frames') /\ \A u \in Workers : frames'[u] \in Seq(FrameTasks[u])
  <2>1. CASE Login(w) \/ ResetCameraId(w) \/ Picture(w)
    BY <1>2, <2>1 DEF Login, ResetCameraId, Picture, HasFrame
  <2>2. CASE KickQuit(w) \/ KickClose(w) \/ Seek(w) \/ Walk(w) \/ SendFind(w) \/ SendPush(w)
    BY <1>1, <2>2 DEF KickQuit, KickClose, Seek, Walk, SendFind, SendPush
  <2> QED
    BY <1>5, <2>1, <2>2 DEF FrameWorker
<1>6. ASSUME NEW w \in Workers, SendWorker(w)
      PROVE  PerWorker(frames') /\ \A u \in Workers : frames'[u] \in Seq(FrameTasks[u])
  BY <1>1, <1>6 DEF SendWorker, SendTake, SendChain
<1> QED
  BY <1>3, <1>4, <1>5, <1>6 DEF Next, Server

\* The frame a worker takes, and what it has where it is.
LEMMA FrameTaken ==
  ASSUME TypeOK, NEW w \in Workers, NEW code, HasFrame(w, code)
  PROVE  /\ Head(frames[w]) \in FrameTask(w) /\ Head(frames[w]).frame.code = code
         /\ Head(frames[w]).fd \in Own(w) /\ Head(frames[w]).from \in Conns
         /\ Head(frames[w]).frame \in Frame
<1>1. frames[w] \in Seq(FrameTasks[w]) /\ frames[w] # <<>>
  BY Typed DEF HasFrame
<1>2. Head(frames[w]) \in FrameTask(w)
  BY <1>1, HeadTailProperties DEF FrameTasks
<1> QED
  BY <1>2 DEF HasFrame, FrameTask

LEMMA ProcThere ==
  ASSUME TypeOK, NEW w \in Workers
  PROVE  /\ proc[w].at \in {"quit", "close", "seek", "walk", "find", "push"} => proc[w].task \in FrameTask(w)
         /\ proc[w].at = "walk" => Walking(proc[w], w)
         /\ proc[w].at \in {"find", "push"} => Sending(proc[w], w)
BY Typed DEF ProcPlace, Walking, Sending, Idle

LEMMA TaskType ==
  ASSUME NEW w, NEW task \in FrameTask(w)
  PROVE  task.fd \in Own(w) /\ task.fd \in Fds /\ task.from \in Conns /\ task.frame \in Frame
BY OwnType DEF FrameTask

\* The entries the walk of the map meets are entries.
LEMMA EntriesThere ==
  ASSUME TypeOK, NEW w \in Workers
  PROVE  /\ Mapped \subseteq Fds \X Conns /\ Ahead(w) \subseteq Mapped
         /\ Meets(w) \subseteq Fds \X Conns /\ NextEntries(w) \subseteq Fds \X Conns
<1>1. Mapped \subseteq Fds \X Conns /\ Ahead(w) \subseteq Mapped
  BY DEF Mapped, Ahead
<1>2. Meets(w) \subseteq Fds \X Conns
  BY DEF Meets, InFlux, TypeOK
<1> QED
  BY <1>1, <1>2 DEF NextEntries

LEMMA ProcGoes ==
  ASSUME TypeOK, NEW w \in Workers, NEW p, ProcGoto(w, p)
  PROVE  PerWorker(proc') /\ \A u \in Workers : proc'[u] = IF u = w THEN p ELSE proc[u]
BY Typed DEF ProcGoto, PerWorker

LEMMA ProcType ==
  ASSUME TypeOK, Next
  PROVE  PerWorker(proc') /\ \A u \in Workers : ProcPlace(proc'[u], u)
<1> USE Typed
<1>1. CASE UNCHANGED proc
  BY <1>1
<1>2. ASSUME NEW w \in Workers, NEW p, ProcGoto(w, p), ProcPlace(p, w)
      PROVE  PerWorker(proc') /\ \A u \in Workers : ProcPlace(proc'[u], u)
  BY <1>2, ProcGoes
<1>3. \A w : ProcPlace(Idle, w)
  BY DEF ProcPlace
<1>4. CASE Peers \/ EpollThread
  BY <1>1, <1>4 DEF Peers, Connect, PeerSend, PeerClose, EpollThread, EpollListen, EpollWait
<1>5. ASSUME NEW w \in Workers, RecvWorker(w)
      PROVE  PerWorker(proc') /\ \A u \in Workers : ProcPlace(proc'[u], u)
  BY <1>1, <1>5 DEF RecvWorker, Accept, AddToEpoll, InsertSocket, AddClient, RecvOut, RecvIn, ReadData,
                    RestructFrame, ReadNothing, ReadEnd, EndQuit, EndRemove
<1>6. ASSUME NEW w \in Workers, SendWorker(w)
      PROVE  PerWorker(proc') /\ \A u \in Workers : ProcPlace(proc'[u], u)
  BY <1>1, <1>6 DEF SendWorker, SendTake, SendChain
<1>7. ASSUME NEW w \in Workers, FrameWorker(w)
      PROVE  PerWorker(proc') /\ \A u \in Workers : ProcPlace(proc'[u], u)
  <2>1. CASE Login(w)
    <3> DEFINE task == Head(frames[w])
    <3>1. task \in FrameTask(w)
      BY <2>1, FrameTaken DEF Login
    <3>2. task.fd \in Fds
      BY <3>1, TaskType
    <3>3. \/ ProcGoto(w, [at |-> "find", task |-> task, what |-> "ack", to |-> task.fd])
          \/ ProcGoto(w, [at |-> "quit", task |-> task])
      BY <2>1 DEF Login
    <3> HIDE DEF task
    <3>4. ProcPlace([at |-> "find", task |-> task, what |-> "ack", to |-> task.fd], w)
      BY <3>1, <3>2 DEF ProcPlace, Sending
    <3>5. ProcPlace([at |-> "quit", task |-> task], w)
      BY <3>1 DEF ProcPlace
    <3> QED
      BY <1>2, <3>3, <3>4, <3>5
  <2>2. CASE KickQuit(w)
    <3>1. ProcPlace([at |-> "close", task |-> proc[w].task], w)
      BY <2>2, ProcThere DEF KickQuit, ProcAt, ProcPlace
    <3> QED
      BY <1>2, <2>2, <3>1 DEF KickQuit
  <2>3. CASE KickClose(w)
    BY <1>2, <1>3, <2>3 DEF KickClose
  <2>4. CASE ResetCameraId(w)
    BY <1>1, <2>4 DEF ResetCameraId
  <2>5. CASE Picture(w)
    <3>1. ProcPlace([at |-> "seek", task |-> Head(frames[w])], w)
      BY <2>5, FrameTaken DEF Picture, ProcPlace
    <3> QED
      BY <1>2, <2>5, <3>1 DEF Picture
  <2>10. CASE Seek(w)
    <3> DEFINE task == proc[w].task
    <3>1. task \in FrameTask(w) /\ task.fd \in Fds
      BY <2>10, ProcThere, TaskType DEF Seek, ProcAt
    <3>2. Meets(w) \subseteq Fds \X Conns
      BY EntriesThere
    <3>3. PICK c \in {ClientMap[task.fd]} \cup {x[2] : x \in {x \in Meets(w) : x[1] = task.fd}} \cup {None : x \in Meets(w)} :
            ProcGoto(w, IF c = None THEN Idle
                        ELSE [at |-> "walk", task |-> task, camera |-> client[c].camera,
                              last |-> -1, on |-> None, backs |-> 0])
      BY <2>10 DEF Seek
    <3>4. c \in Conns \cup {None}
      <4>1. ClientMap[task.fd] \in Conns \cup {None}
        BY <3>1 DEF TypeOK
      <4>2. \A x \in Meets(w) : x[2] \in Conns
        BY <3>2
      <4> HIDE DEF task
      <4> QED
        BY <4>1, <4>2
    <3>5. c # None => client[c].camera \in Nat
      BY <3>4 DEF TypeOK
    <3> HIDE DEF task
    <3>6. c # None => Walking([at |-> "walk", task |-> task, camera |-> client[c].camera,
                               last |-> -1, on |-> None, backs |-> 0], w)
      BY <3>1, <3>5 DEF Walking
    <3> QED
      BY <1>2, <1>3, <3>3, <3>6 DEF ProcPlace
  <2>6. CASE Walk(w)
    <3> DEFINE p == proc[w]
    <3>1. Walking(p, w) /\ p.task \in FrameTask(w)
      BY <2>6, ProcThere DEF Walk, ProcAt
    <3>2. \/ ProcGoto(w, Idle)
          \/ \E x \in NextEntries(w) :
                LET there == [p EXCEPT !.last = x[1], !.on = x[2],
                                       !.backs = IF x[1] > p.last THEN @ ELSE @ + 1]
                IN ProcGoto(w, IF Watches(x, w)
                               THEN [at |-> "find", task |-> p.task, what |-> "picture", to |-> x[1], walk |-> there]
                               ELSE there)
      BY <2>6 DEF Walk
    <3> HIDE DEF p
    <3>3. ASSUME NEW x \in NextEntries(w)
          PROVE  LET there == [p EXCEPT !.last = x[1], !.on = x[2],
                                        !.backs = IF x[1] > p.last THEN @ ELSE @ + 1]
                 IN /\ Walking(there, w)
                    /\ Sending([at |-> "find", task |-> p.task, what |-> "picture", to |-> x[1], walk |-> there], w)
      <4> DEFINE there == [p EXCEPT !.last = x[1], !.on = x[2],
                                    !.backs = IF x[1] > p.last THEN @ ELSE @ + 1]
      <4>1. x[1] \in Fds /\ x[2] \in Conns
        BY <3>3, EntriesThere
      <4>2. Walking(there, w)
        BY <3>1, <4>1 DEF Walking
      <4> HIDE DEF there
      <4>3. Sending([at |-> "find", task |-> p.task, what |-> "picture", to |-> x[1], walk |-> there], w)
        BY <3>1, <4>1, <4>2 DEF Sending
      <4> QED
        BY <4>2, <4>3 DEF there
    <3> QED
      BY <1>2, <1>3, <3>2, <3>3 DEF ProcPlace
  <2>7. AfterSend(w) = Idle \/ Walking(AfterSend(w), w) \/ ~ Sending(proc[w], w)
    BY DEF AfterSend, Sending
  <2>8. CASE SendFind(w)
    <3> DEFINE p == proc[w]
               s == m_SocketInfo[p.to]
               push == [at |-> "push", of |-> s, what |-> p.what, to |-> p.to, task |-> p.task, walk |-> AfterSend(w)]
    <3>1. Sending(p, w) /\ p.at = "find"
      BY <2>8, ProcThere DEF SendFind, ProcAt
    <3>2. p.to \in Fds /\ p.task \in FrameTask(w) /\ p.what \in {"ack", "picture"}
      BY <3>1 DEF Sending
    <3>3. AfterSend(w) = Idle \/ Walking(AfterSend(w), w)
      BY <3>1 DEF AfterSend, Sending
    <3>4. ProcGoto(w, AfterSend(w)) \/ (s # None /\ ProcGoto(w, push))
      BY <2>8 DEF SendFind
    <3>5. s # None => s \in Conns
      BY <3>2
    <3>6. s # None => Sending(push, w)
      <4> HIDE DEF p, s
      <4> QED
        BY <3>2, <3>3, <3>5 DEF Sending
    <3> HIDE DEF push, s
    <3> QED
      BY <1>2, <3>3, <3>4, <3>6 DEF ProcPlace
  <2>9. CASE SendPush(w)
    <3>1. Sending(proc[w], w) /\ proc[w].at = "push"
      BY <2>9, ProcThere DEF SendPush, ProcAt
    <3>2. proc[w].walk = Idle \/ Walking(proc[w].walk, w)
      BY <3>1 DEF Sending
    <3> QED
      BY <1>2, <2>9, <3>2 DEF SendPush, ProcPlace
  <2> QED
    BY <1>7, <2>1, <2>2, <2>3, <2>4, <2>5, <2>6, <2>8, <2>9, <2>10 DEF FrameWorker
<1> QED
  BY <1>4, <1>5, <1>6, <1>7 DEF Next, Server

\* The descriptors given to the send workers, and where these are.
LEMMA SendTasksType ==
  ASSUME TypeOK, Next
  PROVE  PerWorker(sendTasks') /\ \A u \in Workers : sendTasks'[u] \in Seq(Owns[u])
<1> USE Typed
<1>1. CASE UNCHANGED sendTasks
  BY <1>1
<1>2. ASSUME NEW w \in Workers, sendTasks[w] # <<>>, sendTasks' = Rest(sendTasks, w)
      PROVE  PerWorker(sendTasks') /\ \A u \in Workers : sendTasks'[u] \in Seq(Owns[u])
  BY <1>2, QueueRest
<1>3. ASSUME NEW w \in Workers, NEW fd \in Own(w), sendTasks' = Add(sendTasks, w, fd)
      PROVE  PerWorker(sendTasks') /\ \A u \in Workers : sendTasks'[u] \in Seq(Owns[u])
  <2>1. fd \in Owns[w]
    BY DEF Owns
  <2> QED
    BY <1>3, <2>1, QueueAdd
<1>4. CASE Peers \/ EpollThread
  BY <1>1, <1>4 DEF Peers, Connect, PeerSend, PeerClose, EpollThread, EpollListen, EpollWait, sending
<1>5. ASSUME NEW w \in Workers, RecvWorker(w)
      PROVE  PerWorker(sendTasks') /\ \A u \in Workers : sendTasks'[u] \in Seq(Owns[u])
  <2>1. CASE RecvOut(w)
    <3>1. Head(tasks[w]) \in RecvTasks[w] /\ Head(tasks[w]).kind = "out"
      BY <2>1, HeadTailProperties DEF RecvOut, HasTask
    <3>2. Head(tasks[w]).fd \in Own(w)
      BY <3>1 DEF RecvTasks, RecvTask
    <3>3. UNCHANGED sendTasks \/ sendTasks' = Add(sendTasks, w, Head(tasks[w]).fd)
      BY <2>1 DEF RecvOut
    <3> QED
      BY <1>1, <1>3, <3>2, <3>3
  <2>2. CASE ~ RecvOut(w)
    BY <1>1, <1>5, <2>2 DEF RecvWorker, Accept, AddToEpoll, InsertSocket, AddClient, RecvIn, ReadData,
                            RestructFrame, ReadNothing, ReadEnd, EndQuit, EndRemove, sending
  <2> QED
    BY <2>1, <2>2
<1>6. ASSUME NEW w \in Workers, FrameWorker(w)
      PROVE  PerWorker(sendTasks') /\ \A u \in Workers : sendTasks'[u] \in Seq(Owns[u])
  <2>1. CASE SendPush(w)
    <3>1. proc[w].to \in Fds
      BY <2>1, ProcThere DEF SendPush, ProcAt, Sending
    <3>2. sendTasks' = Add(sendTasks, WorkerOf(proc[w].to), proc[w].to)
      BY <2>1 DEF SendPush
    <3> QED
      BY <1>3, <3>1, <3>2, WorkerOfType
  <2>2. CASE ~ SendPush(w)
    BY <1>1, <1>6, <2>2 DEF FrameWorker, Login, KickQuit, KickClose, ResetCameraId, Picture, Seek, Walk, SendFind, sending
  <2> QED
    BY <2>1, <2>2
<1>7. ASSUME NEW w \in Workers, SendWorker(w)
      PROVE  PerWorker(sendTasks') /\ \A u \in Workers : sendTasks'[u] \in Seq(Owns[u])
  BY <1>1, <1>2, <1>7 DEF SendWorker, SendTake, SendChain
<1> QED
  BY <1>4, <1>5, <1>6, <1>7 DEF Next, Server

LEMMA SendType ==
  ASSUME TypeOK, Next
  PROVE  PerWorker(send') /\ \A u \in Workers : SendPlace(send'[u], u)
<1> USE Typed
<1>1. CASE UNCHANGED send
  BY <1>1
<1>2. ASSUME NEW w \in Workers, NEW p, send' = [send EXCEPT ![w] = p], SendPlace(p, w)
      PROVE  PerWorker(send') /\ \A u \in Workers : SendPlace(send'[u], u)
  BY <1>2 DEF PerWorker
<1>3. CASE Peers \/ EpollThread
  BY <1>1, <1>3 DEF Peers, Connect, PeerSend, PeerClose, EpollThread, EpollListen, EpollWait, sending
<1>4. ASSUME NEW w \in Workers, RecvWorker(w)
      PROVE  PerWorker(send') /\ \A u \in Workers : SendPlace(send'[u], u)
  BY <1>1, <1>4 DEF RecvWorker, Accept, AddToEpoll, InsertSocket, AddClient, RecvOut, RecvIn, ReadData,
                    RestructFrame, ReadNothing, ReadEnd, EndQuit, EndRemove, sending
<1>5. ASSUME NEW w \in Workers, FrameWorker(w)
      PROVE  PerWorker(send') /\ \A u \in Workers : SendPlace(send'[u], u)
  BY <1>1, <1>5 DEF FrameWorker, Login, KickQuit, KickClose, ResetCameraId, Picture, Seek, Walk, SendFind, SendPush, sending
<1>6. ASSUME NEW w \in Workers, SendWorker(w)
      PROVE  PerWorker(send') /\ \A u \in Workers : SendPlace(send'[u], u)
  <2>1. CASE SendTake(w)
    <3> DEFINE fd == Head(sendTasks[w])
    <3>1. fd \in Owns[w]
      BY <2>1, HeadTailProperties DEF SendTake
    <3>2. fd \in Own(w) /\ fd \in Fds
      BY <3>1, OwnType DEF Owns
    <3>3. UNCHANGED send \/ (m_SocketInfo[fd] # None /\
             send' = [send EXCEPT ![w] = [at |-> "send", fd |-> fd, of |-> m_SocketInfo[fd]]])
      BY <2>1 DEF SendTake
    <3> HIDE DEF fd
    <3>4. m_SocketInfo[fd] # None => SendPlace([at |-> "send", fd |-> fd, of |-> m_SocketInfo[fd]], w)
      BY <3>2 DEF SendPlace
    <3> QED
      BY <1>1, <1>2, <3>3, <3>4
  <2>2. CASE SendChain(w)
    BY <1>2, <2>2 DEF SendChain, SendPlace, Idle
  <2> QED
    BY <1>6, <2>1, <2>2 DEF SendWorker
<1> QED
  BY <1>3, <1>4, <1>5, <1>6 DEF Next, Server

\* Which steps change connections and descriptors.
Accepted(w) ==
  /\ Accept(w)
  /\ backlog # <<>> /\ FreeFds # {}

LEMMA KernelSteps ==
  ASSUME TypeOK, Next
  PROVE  \/ UNCHANGED <<conn, file, backlog>>
         \/ \E c \in Conns : Connect(c)
         \/ \E w \in Workers : Accepted(w) \/ ReadEnd(w) \/ KickClose(w)
<1>1. CASE Peers
  BY <1>1 DEF Peers, Connect, PeerSend, PeerClose
<1>2. CASE EpollThread
  BY <1>2 DEF EpollThread, EpollListen, EpollWait, kernel, peers
<1>3. ASSUME NEW w \in Workers, RecvWorker(w), ~ ReadEnd(w), ~ Accepted(w)
      PROVE  UNCHANGED <<conn, file, backlog>>
  <2>1. CASE Accept(w)
    BY <1>3, <2>1 DEF Accept, Accepted
  <2>2. CASE AddToEpoll(w) \/ InsertSocket(w) \/ AddClient(w) \/ RecvOut(w) \/ RecvIn(w)
             \/ ReadData(w) \/ RestructFrame(w) \/ ReadNothing(w) \/ EndQuit(w) \/ EndRemove(w)
    BY <2>2 DEF AddToEpoll, InsertSocket, AddClient, RecvOut, RecvIn, ReadData, RestructFrame, ReadNothing,
                EndQuit, EndRemove, kernel, peers
  <2> QED
    BY <1>3, <2>1, <2>2 DEF RecvWorker
<1>4. ASSUME NEW w \in Workers, FrameWorker(w), ~ KickClose(w)
      PROVE  UNCHANGED <<conn, file, backlog>>
  BY <1>4 DEF FrameWorker, Login, KickQuit, ResetCameraId, Picture, Seek, Walk, SendFind, SendPush, kernel, peers
<1>5. ASSUME NEW w \in Workers, SendWorker(w)
      PROVE  UNCHANGED <<conn, file, backlog>>
  BY <1>5 DEF SendWorker, SendTake, SendChain, kernel, peers
<1> QED
  BY <1>1, <1>2, <1>3, <1>4, <1>5 DEF Next, Server

\* What accept does.
LEMMA AcceptDoes ==
  ASSUME TypeOK, NEW w \in Workers, Accepted(w)
  PROVE  \E c \in Conns, fd \in Fds :
           /\ w = Listener /\ c = Head(backlog) /\ file[fd] = None
           /\ backlog' = Tail(backlog)
           /\ conn' = [conn EXCEPT ![c] = "open"]
           /\ file' = [file EXCEPT ![fd] = c]
           /\ RecvGoto(w, [at |-> "add", fd |-> fd, of |-> c])
           /\ UNCHANGED missed
<1> USE Typed
<1> DEFINE c == Head(backlog)
           fd == CHOOSE f \in FreeFds : \A g \in FreeFds : f <= g
<1>1. c \in Conns
  BY HeadTailProperties DEF TypeOK, Accepted
<1>2. fd \in FreeFds
  <2>1. FreeFds \subseteq Fds /\ FreeFds # {}
    BY DEF FreeFds, Accepted
  <2> QED
    BY <2>1, Lowest
<1>3. fd \in Fds /\ file[fd] = None
  BY <1>2, SetupType DEF FreeFds
<1>4. w = Listener
  <2>1. Head(tasks[w]) \in RecvTasks[w] /\ Head(tasks[w]).kind = "listen"
    BY HeadTailProperties DEF Accepted, Accept, HasTask
  <2> QED
    BY <2>1 DEF RecvTasks, RecvTask
<1>5. /\ backlog' = Tail(backlog)
      /\ conn' = [conn EXCEPT ![c] = "open"]
      /\ file' = [file EXCEPT ![fd] = c]
      /\ RecvGoto(w, [at |-> "add", fd |-> fd, of |-> c])
      /\ UNCHANGED missed
  BY DEF Accepted, Accept
<1> HIDE DEF fd
<1> QED
  BY <1>1, <1>3, <1>4, <1>5

\* What close does.
LEMMA CloseDoes ==
  ASSUME TypeOK, NEW fd \in Fds, Close(fd)
  PROVE  /\ file' = [file EXCEPT ![fd] = None]
         /\ \A c \in Conns : conn'[c] = IF c = file[fd] THEN "closed" ELSE conn[c]
         /\ conn' \in [Conns -> {"new", "backlog", "open", "closed"}]
         /\ watched' = watched \ {file[fd]} /\ ready' = ready \ {file[fd]}
         /\ UNCHANGED got
<1>1. file[fd] \in Conns \cup {None}
  BY Typed
<1>2. CASE file[fd] = None
  BY <1>2, Typed DEF Close
<1>3. CASE file[fd] # None
  BY <1>1, <1>3, Typed DEF Close
<1> QED
  BY <1>2, <1>3

\* The descriptor that a worker closes is one of its own.
LEMMA Closes ==
  ASSUME TypeOK, NEW w \in Workers, ReadEnd(w) \/ KickClose(w)
  PROVE  \E fd \in Fds :
           /\ WorkerOf(fd) = w /\ Close(fd) /\ UNCHANGED <<backlog, sent, gone>>
           /\ \/ recv[w].at = "read" /\ recv[w].fd = fd
                 /\ RecvGoto(w, [at |-> "quit", fd |-> fd, of |-> m_SocketInfo[fd]])
                 /\ UNCHANGED <<kicked, proc>>
              \/ proc[w].at = "close" /\ proc[w].task.fd = fd /\ UNCHANGED recv /\ ProcGoto(w, Idle)
                 /\ kicked' = kicked \cup ({file[fd]} \ {None})
           /\ UNCHANGED <<m_SocketInfo, ClientMap>>
<1>1. CASE ReadEnd(w)
  <2>1. recv[w].fd \in Fds /\ WorkerOf(recv[w].fd) = w
    BY <1>1, RecvThere, OwnType DEF ReadEnd, RecvAt
  <2> QED
    BY <1>1, <2>1 DEF ReadEnd, RecvAt, peers, maps, past
<1>2. CASE KickClose(w)
  <2>1. proc[w].task.fd \in Fds /\ WorkerOf(proc[w].task.fd) = w
    BY <1>2, ProcThere, TaskType, OwnType DEF KickClose, ProcAt
  <2> QED
    BY <1>2, <2>1 DEF KickClose, ProcAt, peers, maps
<1> QED
  BY <1>1, <1>2

\* Connections and descriptors.
LEMMA ConnFileType ==
  ASSUME TypeOK, Next
  PROVE  /\ conn' \in [Conns -> {"new", "backlog", "open", "closed"}]
         /\ file' \in [Fds -> Conns \cup {None}]
         /\ backlog' \in Seq(Conns)
<1> USE Typed
<1>0. backlog \in Seq(Conns)
  BY DEF TypeOK
<1>1. CASE UNCHANGED <<conn, file, backlog>>
  BY <1>0, <1>1
<1>2. ASSUME NEW c \in Conns, Connect(c)
      PROVE  /\ conn' \in [Conns -> {"new", "backlog", "open", "closed"}]
             /\ file' \in [Fds -> Conns \cup {None}]
             /\ backlog' \in Seq(Conns)
  BY <1>0, <1>2, AppendProperties DEF Connect
<1>3. ASSUME NEW w \in Workers, Accepted(w)
      PROVE  /\ conn' \in [Conns -> {"new", "backlog", "open", "closed"}]
             /\ file' \in [Fds -> Conns \cup {None}]
             /\ backlog' \in Seq(Conns)
  <2>1. PICK c \in Conns, fd \in Fds :
           /\ backlog' = Tail(backlog)
           /\ conn' = [conn EXCEPT ![c] = "open"]
           /\ file' = [file EXCEPT ![fd] = c]
    BY <1>3, AcceptDoes
  <2>2. Tail(backlog) \in Seq(Conns)
    BY <1>0, <1>3, HeadTailProperties DEF Accepted
  <2> QED
    BY <2>1, <2>2
<1>4. ASSUME NEW w \in Workers, ReadEnd(w) \/ KickClose(w)
      PROVE  /\ conn' \in [Conns -> {"new", "backlog", "open", "closed"}]
             /\ file' \in [Fds -> Conns \cup {None}]
             /\ backlog' \in Seq(Conns)
  <2>1. PICK fd \in Fds : Close(fd) /\ UNCHANGED backlog
    BY <1>4, Closes
  <2> QED
    BY <1>0, <2>1, CloseDoes
<1> QED
  BY <1>1, <1>2, <1>3, <1>4, KernelSteps

\* What accept takes waits in the backlog.
LEMMA FirstWaits ==
  ASSUME TypeOK, FilesOpen, backlog # <<>>
  PROVE  conn[Head(backlog)] = "backlog"
<1>1. backlog \in Seq(Conns)
  BY DEF TypeOK
<1>2. 1 \in DOMAIN backlog /\ Head(backlog) = backlog[1]
  BY <1>1, EmptySeq, LenProperties
<1> QED
  BY <1>2 DEF FilesOpen

\* What has been sent and read.
LEMMA SentGotType ==
  ASSUME TypeOK, FilesOpen, Next
  PROVE  /\ sent' \in [Conns -> Nat] /\ got' \in [Conns -> Nat]
         /\ \A c \in Conns : got'[c] <= sent'[c]
         /\ \A c \in Conns : IF conn'[c] = "new" THEN sent'[c] = 0
                             ELSE c \in DOMAIN setup.script /\ sent'[c] <= Len(Script(c))
         /\ gone' \subseteq Conns
<1> USE Typed, SetupType
<1> DEFINE G == /\ sent' \in [Conns -> Nat] /\ got' \in [Conns -> Nat]
                /\ \A c \in Conns : got'[c] <= sent'[c]
                /\ \A c \in Conns : IF conn'[c] = "new" THEN sent'[c] = 0
                                    ELSE c \in DOMAIN setup.script /\ sent'[c] <= Len(Script(c))
                /\ gone' \subseteq Conns
<1>0. /\ sent \in [Conns -> Nat] /\ got \in [Conns -> Nat]
      /\ \A c \in Conns : got[c] <= sent[c]
      /\ \A c \in Conns : IF conn[c] = "new" THEN sent[c] = 0
                          ELSE c \in DOMAIN setup.script /\ sent[c] <= Len(Script(c))
      /\ gone \subseteq Conns
  BY DEF TypeOK
<1>1. ASSUME UNCHANGED <<sent, got, gone>>, UNCHANGED conn
      PROVE  G
  BY <1>0, <1>1
<1>2. ASSUME UNCHANGED <<sent, got, gone>>,
             \A c \in Conns : conn'[c] # conn[c] => conn'[c] # "new" /\ c \in DOMAIN setup.script /\ sent[c] <= Len(Script(c))
      PROVE  G
  BY <1>0, <1>2
<1>3. ASSUME NEW c \in Conns, Connect(c)
      PROVE  G
  <2>1. c \in DOMAIN setup.script /\ conn[c] = "new" /\ conn' = [conn EXCEPT ![c] = "backlog"]
        /\ UNCHANGED <<sent, got, gone>>
    BY <1>3 DEF Connect
  <2>2. sent[c] = 0 /\ Len(Script(c)) \in Nat
    BY <2>1, <1>0
  <2>3. sent[c] <= Len(Script(c))
    BY <2>2
  <2> QED
    BY <1>2, <2>1, <2>3
<1>4. ASSUME NEW c \in Conns, PeerSend(c)
      PROVE  G
  <2>1. conn[c] # "new" /\ UNCHANGED <<conn, got, gone>>
    BY <1>4 DEF PeerSend, Connected
  <2>2. c \in DOMAIN setup.script /\ Len(Script(c)) \in Nat /\ setup.burst \in Nat /\ sent[c] < Len(Script(c))
    BY <1>0, <1>4, <2>1 DEF PeerSend
  <2>3. PICK n \in Nat : sent' = [sent EXCEPT ![c] = n] /\ sent[c] <= n /\ n <= Len(Script(c))
    <3> DEFINE m == IF sent[c] + setup.burst < Len(Script(c)) THEN sent[c] + setup.burst ELSE Len(Script(c))
    <3>1. sent' = [sent EXCEPT ![c] = m]
      BY <1>4 DEF PeerSend
    <3>2. sent[c] \in Nat
      BY <1>0
    <3>3. m \in Nat /\ sent[c] <= m /\ m <= Len(Script(c))
      BY ONLY <2>2, <3>2, SMT
    <3> HIDE DEF m
    <3> QED
      BY <3>1, <3>3
  <2> QED
    BY <1>0, <2>1, <2>2, <2>3
<1>5. ASSUME NEW c \in Conns, PeerClose(c)
      PROVE  G
  BY <1>0, <1>5 DEF PeerClose
<1>6. CASE EpollThread
  BY <1>1, <1>6 DEF EpollThread, EpollListen, EpollWait, kernel, peers
<1>10. ASSUME NEW w \in Workers, ReadEnd(w) \/ KickClose(w)
       PROVE  G
  <2>1. PICK fd \in Fds : Close(fd) /\ UNCHANGED <<sent, gone>>
    BY <1>10, Closes
  <2>2. UNCHANGED got /\ \A c \in Conns : conn'[c] = IF c = file[fd] THEN "closed" ELSE conn[c]
    BY <2>1, CloseDoes
  <2>3. \A c \in Conns : c = file[fd] => conn[c] = "open"
    BY DEF FilesOpen
  <2> QED
    BY <1>0, <1>2, <2>1, <2>2, <2>3
<1>7. ASSUME NEW w \in Workers, RecvWorker(w)
      PROVE  G
  <2>1. CASE Accept(w) /\ ~ Accepted(w)
    BY <1>1, <2>1 DEF Accept, Accepted
  <2>2. CASE Accepted(w)
    <3>1. UNCHANGED <<sent, got, gone>>
      BY <2>2 DEF Accepted, Accept
    <3>2. PICK c \in Conns : c = Head(backlog) /\ conn' = [conn EXCEPT ![c] = "open"]
      BY <2>2, AcceptDoes
    <3>3. conn[c] = "backlog"
      BY <2>2, <3>2, FirstWaits DEF Accepted
    <3> QED
      BY <1>0, <1>2, <3>1, <3>2, <3>3
  <2>3. CASE ReadData(w)
    <3>1. recv[w].fd \in Fds
      BY <2>3, RecvThere, OwnType DEF ReadData, RecvAt
    <3>2. PICK c \in Conns : got' = [got EXCEPT ![c] = sent[c]]
      BY <2>3, <3>1 DEF ReadData
    <3>3. UNCHANGED <<conn, sent, gone>>
      BY <2>3 DEF ReadData, peers
    <3> QED
      BY <1>0, <3>2, <3>3
  <2>4. CASE ReadEnd(w)
    BY <1>10, <2>4
  <2>5. CASE AddToEpoll(w) \/ InsertSocket(w) \/ AddClient(w) \/ RecvOut(w) \/ RecvIn(w)
             \/ RestructFrame(w) \/ ReadNothing(w) \/ EndQuit(w) \/ EndRemove(w)
    BY <1>1, <2>5 DEF AddToEpoll, InsertSocket, AddClient, RecvOut, RecvIn, RestructFrame, ReadNothing,
                      EndQuit, EndRemove, kernel, peers
  <2> QED
    BY <1>7, <2>1, <2>2, <2>3, <2>4, <2>5 DEF RecvWorker
<1>8. ASSUME NEW w \in Workers, FrameWorker(w)
      PROVE  G
  <2>1. CASE KickClose(w)
    BY <1>10, <2>1
  <2>2. CASE ~ KickClose(w)
    BY <1>1, <1>8, <2>2 DEF FrameWorker, Login, KickQuit, ResetCameraId, Picture, Seek, Walk, SendFind, SendPush, kernel, peers
  <2> QED
    BY <2>1, <2>2
<1>9. ASSUME NEW w \in Workers, SendWorker(w)
      PROVE  G
  BY <1>1, <1>9 DEF SendWorker, SendTake, SendChain, kernel, peers
<1> QED
  BY <1>3, <1>4, <1>5, <1>6, <1>7, <1>8, <1>9 DEF Next, Peers, Server

\* The registrations.
LEMMA WatchedType ==
  ASSUME TypeOK, Next
  PROVE  ready' \subseteq watched' /\ watched' \subseteq {file'[f] : f \in Fds} \ {None}
<1> USE Typed
<1> DEFINE G == ready' \subseteq watched' /\ watched' \subseteq {file'[f] : f \in Fds} \ {None}
<1>0. ready \subseteq watched /\ watched \subseteq {file[f] : f \in Fds} \ {None}
  BY DEF TypeOK
<1>1. ASSUME UNCHANGED <<file, watched>>, ready' \subseteq watched
      PROVE  G
  BY <1>0, <1>1
<1>2. CASE Peers
  BY <1>0, <1>1, <1>2 DEF Peers, Connect, PeerSend, PeerClose
<1>3. CASE EpollThread
  BY <1>0, <1>1, <1>3 DEF EpollThread, EpollListen, EpollWait, kernel
<1>4. ASSUME NEW w \in Workers, ReadEnd(w) \/ KickClose(w)
      PROVE  G
  <2>1. PICK fd \in Fds : Close(fd)
    BY <1>4, Closes
  <2>2. /\ file' = [file EXCEPT ![fd] = None]
        /\ watched' = watched \ {file[fd]} /\ ready' = ready \ {file[fd]}
    BY <2>1, CloseDoes
  <2>3. \A f \in Fds : file[f] # file[fd] => file'[f] = file[f]
    BY <2>2
  <2>4. ASSUME NEW c \in watched'
        PROVE  c \in {file'[f] : f \in Fds} \ {None}
    BY <1>0, <2>2, <2>3, <2>4
  <2> QED
    BY <1>0, <2>2, <2>4
<1>5. ASSUME NEW w \in Workers, Accept(w)
      PROVE  G
  <2>1. CASE Accepted(w)
    <3>1. PICK c \in Conns, fd \in Fds : file[fd] = None /\ file' = [file EXCEPT ![fd] = c]
      BY <2>1, AcceptDoes
    <3>2. \A f \in Fds : file[f] # None => file'[f] = file[f]
      BY <3>1
    <3>3. UNCHANGED <<watched, ready>>
      BY <1>5 DEF Accept
    <3> QED
      BY <1>0, <3>2, <3>3
  <2>2. CASE ~ Accepted(w)
    BY <1>0, <1>1, <1>5, <2>2 DEF Accept, Accepted
  <2> QED
    BY <2>1, <2>2
<1>6. ASSUME NEW w \in Workers, AddToEpoll(w)
      PROVE  G
  <2>1. recv[w].fd \in Fds
    BY <1>6, RecvThere DEF AddToEpoll, RecvAt
  <2>2. UNCHANGED file /\ watched' = watched \cup ({file[recv[w].fd]} \ {None})
        /\ ready' = ready \cup ({file[recv[w].fd]} \ {None})
    BY <1>6 DEF AddToEpoll
  <2>3. {file[recv[w].fd]} \ {None} \subseteq {file[f] : f \in Fds} \ {None}
    BY <2>1
  <2> QED
    BY <1>0, <2>2, <2>3
<1>7. ASSUME NEW w \in Workers, RecvWorker(w), ~ ReadEnd(w), ~ Accept(w), ~ AddToEpoll(w)
      PROVE  G
  BY <1>0, <1>1, <1>7 DEF RecvWorker, InsertSocket, AddClient, RecvOut, RecvIn, ReadData, RestructFrame,
                          ReadNothing, EndQuit, EndRemove, kernel
<1>8. ASSUME NEW w \in Workers, FrameWorker(w), ~ KickClose(w)
      PROVE  G
  BY <1>0, <1>1, <1>8 DEF FrameWorker, Login, KickQuit, ResetCameraId, Picture, Seek, Walk, SendFind, SendPush, kernel
<1>9. ASSUME NEW w \in Workers, SendWorker(w)
      PROVE  G
  BY <1>0, <1>1, <1>9 DEF SendWorker, SendTake, SendChain, kernel
<1> QED
  BY <1>2, <1>3, <1>4, <1>5, <1>6, <1>7, <1>8, <1>9 DEF Next, Server

\* Which steps change the maps, and how.
LEMMA MapSteps ==
  ASSUME TypeOK, Next
  PROVE  \/ UNCHANGED <<m_SocketInfo, ClientMap>>
         \/ \E w \in Workers : InsertSocket(w) \/ AddClient(w) \/ EndQuit(w) \/ EndRemove(w) \/ KickQuit(w)
<1>1. CASE Peers \/ EpollThread
  BY <1>1 DEF Peers, Connect, PeerSend, PeerClose, EpollThread, EpollListen, EpollWait, maps
<1>2. ASSUME NEW w \in Workers, RecvWorker(w), ~ InsertSocket(w), ~ AddClient(w), ~ EndQuit(w), ~ EndRemove(w)
      PROVE  UNCHANGED <<m_SocketInfo, ClientMap>>
  BY <1>2 DEF RecvWorker, Accept, AddToEpoll, RecvOut, RecvIn, ReadData, RestructFrame, ReadNothing, ReadEnd, maps
<1>3. ASSUME NEW w \in Workers, FrameWorker(w), ~ KickQuit(w)
      PROVE  UNCHANGED <<m_SocketInfo, ClientMap>>
  BY <1>3 DEF FrameWorker, Login, KickClose, ResetCameraId, Picture, Seek, Walk, SendFind, SendPush, maps
<1>4. ASSUME NEW w \in Workers, SendWorker(w)
      PROVE  UNCHANGED <<m_SocketInfo, ClientMap>>
  BY <1>4 DEF SendWorker, SendTake, SendChain, maps
<1> QED
  BY <1>1, <1>2, <1>3, <1>4 DEF Next, Server

\* map::insert.
LEMMA Enters ==
  ASSUME NEW map \in [Fds -> Conns \cup {None}], NEW fd \in Fds, NEW c \in Conns
  PROVE  /\ Enter(map, fd, c) \in [Fds -> Conns \cup {None}]
         /\ \A f \in Fds : Enter(map, fd, c)[f] = IF f = fd /\ map[f] = None THEN c ELSE map[f]
BY DEF Enter

\* Entries that are erased.
LEMMA Erases ==
  ASSUME NEW map \in [Fds -> Conns \cup {None}], NEW fd \in Fds
  PROVE  /\ [map EXCEPT ![fd] = None] \in [Fds -> Conns \cup {None}]
         /\ \A f \in Fds : [map EXCEPT ![fd] = None][f] = IF f = fd THEN None ELSE map[f]
OBVIOUS

LEMMA MapsType ==
  ASSUME TypeOK, Next
  PROVE  m_SocketInfo' \in [Fds -> Conns \cup {None}] /\ ClientMap' \in [Fds -> Conns \cup {None}]
<1> USE Typed
<1>1. ASSUME NEW w \in Workers, InsertSocket(w) \/ AddClient(w)
      PROVE  m_SocketInfo' \in [Fds -> Conns \cup {None}] /\ ClientMap' \in [Fds -> Conns \cup {None}]
  <2>1. recv[w].fd \in Fds /\ recv[w].of \in Conns
    BY <1>1, RecvThere DEF InsertSocket, AddClient, RecvAt
  <2>2. CASE InsertSocket(w)
    BY <2>1, <2>2, Enters DEF InsertSocket
  <2>3. CASE AddClient(w)
    BY <2>1, <2>3, Enters DEF AddClient
  <2> QED
    BY <1>1, <2>2, <2>3
<1>2. ASSUME NEW w \in Workers, EndQuit(w) \/ EndRemove(w)
      PROVE  m_SocketInfo' \in [Fds -> Conns \cup {None}] /\ ClientMap' \in [Fds -> Conns \cup {None}]
  <2>1. recv[w].fd \in Fds
    BY <1>2, RecvThere, OwnType DEF EndQuit, EndRemove, RecvAt
  <2> QED
    BY <1>2, <2>1 DEF EndQuit, EndRemove
<1>3. ASSUME NEW w \in Workers, KickQuit(w)
      PROVE  m_SocketInfo' \in [Fds -> Conns \cup {None}] /\ ClientMap' \in [Fds -> Conns \cup {None}]
  <2>1. proc[w].task.fd \in Fds
    BY <1>3, ProcThere, TaskType DEF KickQuit, ProcAt
  <2> QED
    BY <1>3, <2>1 DEF KickQuit
<1> QED
  BY <1>1, <1>2, <1>3, MapSteps

\* What clients have said of themselves, what they are sent, and the history.
LEMMA ClientsType ==
  ASSUME TypeOK, Next
  PROVE  /\ client' \in [Conns -> [type : {"none", "phone", "pc"}, camera : Nat]]
         /\ due' \subseteq Conns \X Conns /\ kicked' \subseteq Conns
<1> USE Typed
<1> DEFINE G == /\ client' \in [Conns -> [type : {"none", "phone", "pc"}, camera : Nat]]
                /\ due' \subseteq Conns \X Conns /\ kicked' \subseteq Conns
<1>0. /\ client \in [Conns -> [type : {"none", "phone", "pc"}, camera : Nat]]
      /\ due \subseteq Conns \X Conns /\ kicked \subseteq Conns
  BY DEF TypeOK
<1>1. ASSUME UNCHANGED <<client, due, kicked>>
      PROVE  G
  BY <1>0, <1>1
<1>2. CASE Peers \/ EpollThread
  BY <1>1, <1>2 DEF Peers, Connect, PeerSend, PeerClose, EpollThread, EpollListen, EpollWait, maps, past
<1>3. ASSUME NEW w \in Workers, RecvWorker(w)
      PROVE  G
  BY <1>1, <1>3 DEF RecvWorker, Accept, AddToEpoll, InsertSocket, AddClient, RecvOut, RecvIn, ReadData,
                    RestructFrame, ReadNothing, ReadEnd, EndQuit, EndRemove, maps, past
<1>4. ASSUME NEW w \in Workers, SendWorker(w)
      PROVE  G
  BY <1>1, <1>4 DEF SendWorker, SendTake, SendChain, maps, past
<1>5. ASSUME NEW w \in Workers, FrameWorker(w)
      PROVE  G
  <2>1. CASE Login(w)
    <3> DEFINE task == Head(frames[w])
               c == ClientMap[task.fd]
    <3>1. task.fd \in Fds /\ task.frame \in Frame /\ task.frame.code = "login"
      BY <2>1, FrameTaken, TaskType DEF Login
    <3>2. c \in Conns \cup {None} /\ task.frame.camera \in Nat
      BY <3>1 DEF Frame
    <3>3. NoLonger(c) \subseteq due
      BY DEF NoLonger
    <3>4. /\ UNCHANGED kicked
          /\ \/ /\ task.frame.type \in {"phone", "pc"} /\ c # None
                /\ client' = [client EXCEPT ![c] = [type |-> task.frame.type, camera |-> task.frame.camera]]
                /\ due' = NoLonger(c)
             \/ UNCHANGED <<client, due>>
      BY <2>1 DEF Login
    <3> HIDE DEF task, c
    <3> QED
      BY <1>0, <3>2, <3>3, <3>4
  <2>2. CASE ResetCameraId(w)
    <3> DEFINE task == Head(frames[w])
               c == ClientMap[task.fd]
    <3>1. task.fd \in Fds /\ task.frame \in Frame /\ task.frame.code = "camera"
      BY <2>2, FrameTaken, TaskType DEF ResetCameraId
    <3>2. c \in Conns \cup {None} /\ task.frame.camera \in Nat
      BY <3>1 DEF Frame
    <3>3. NoLonger(c) \subseteq due
      BY DEF NoLonger
    <3>4. /\ UNCHANGED kicked
          /\ \/ /\ c # None
                /\ client' = [client EXCEPT ![c] = [type |-> client[c].type, camera |-> task.frame.camera]]
             \/ UNCHANGED client
          /\ due' = NoLonger(c)
      BY <2>2 DEF ResetCameraId
    <3>5. c # None => client[c].type \in {"none", "phone", "pc"}
      BY <1>0, <3>2
    <3> HIDE DEF task, c
    <3>6. client' \in [Conns -> [type : {"none", "phone", "pc"}, camera : Nat]]
      BY <1>0, <3>2, <3>4, <3>5
    <3> QED
      BY <1>0, <3>3, <3>4, <3>6
  <2>3. CASE Seek(w)
    <3>1. proc[w].task.from \in Conns
      BY <2>3, ProcThere, TaskType DEF Seek, ProcAt
    <3>2. due' = due \/ \E S \in SUBSET Conns : due' = due \cup {<<proc[w].task.from, d>> : d \in S}
      BY <2>3 DEF Seek
    <3>3. UNCHANGED <<client, kicked>>
      BY <2>3 DEF Seek
    <3> QED
      BY <1>0, <3>1, <3>2, <3>3
  <2>4. CASE KickClose(w)
    <3>1. proc[w].task.fd \in Fds
      BY <2>4, ProcThere, TaskType DEF KickClose, ProcAt
    <3>2. kicked' = kicked \cup ({file[proc[w].task.fd]} \ {None}) /\ UNCHANGED <<client, due>>
      BY <2>4 DEF KickClose, maps
    <3> QED
      BY <1>0, <3>1, <3>2
  <2>5. CASE Walk(w)
    <3>1. due' \subseteq due /\ UNCHANGED <<client, kicked>>
      BY <2>5 DEF Walk
    <3> QED
      BY <1>0, <3>1
  <2>6. CASE KickQuit(w) \/ Picture(w) \/ SendFind(w) \/ SendPush(w)
    BY <1>1, <2>6 DEF KickQuit, Picture, SendFind, SendPush, maps, past
  <2> QED
    BY <1>5, <2>1, <2>2, <2>3, <2>4, <2>5, <2>6 DEF FrameWorker
<1> QED
  BY <1>2, <1>3, <1>4, <1>5 DEF Next, Server

\* What has changed in ClientMap since a frame worker came to where it is.
LEMMA ChangesType ==
  ASSUME TypeOK, Next
  PROVE  changes' \in [Workers -> SUBSET (Fds \X Conns)]
<1>0. changes \in [Workers -> SUBSET (Fds \X Conns)]
  BY DEF TypeOK
<1>1. CASE UNCHANGED changes
  BY <1>0, <1>1
<1>2. CASE ChangeClientMap
  BY <1>0, <1>2 DEF ChangeClientMap
<1>3. CASE Peers \/ EpollThread
  BY <1>1, <1>3 DEF Peers, Connect, PeerSend, PeerClose, EpollThread, EpollListen, EpollWait, maps
<1>4. ASSUME NEW w \in Workers, RecvWorker(w)
      PROVE  changes' \in [Workers -> SUBSET (Fds \X Conns)]
  BY <1>1, <1>2, <1>4 DEF RecvWorker, Accept, AddToEpoll, InsertSocket, AddClient, RecvOut, RecvIn, ReadData,
                          RestructFrame, ReadNothing, ReadEnd, EndQuit, EndRemove, maps
<1>5. ASSUME NEW w \in Workers, SendWorker(w)
      PROVE  changes' \in [Workers -> SUBSET (Fds \X Conns)]
  BY <1>1, <1>5 DEF SendWorker, SendTake, SendChain, maps
<1>6. ASSUME NEW w \in Workers, FrameWorker(w)
      PROVE  changes' \in [Workers -> SUBSET (Fds \X Conns)]
  <2>1. CASE Seek(w) \/ Walk(w)
    <3>1. PICK S \in SUBSET (Fds \X Conns) : changes' = [changes EXCEPT ![w] = S]
      BY <1>0, <2>1 DEF Seek, Walk
    <3> QED
      BY <1>0, <3>1
  <2>2. CASE ~ (Seek(w) \/ Walk(w))
    BY <1>1, <1>2, <1>6, <2>2 DEF FrameWorker, Login, KickQuit, KickClose, ResetCameraId, Picture, SendFind,
                                  SendPush, maps
  <2> QED
    BY <2>1, <2>2
<1> QED
  BY <1>3, <1>4, <1>5, <1>6 DEF Next, Server

LEMMA ChainsType ==
  ASSUME TypeOK, Next
  PROVE  chain' \in [Conns -> Seq(Message)] /\ inbox' \in [Conns -> SUBSET Message]
<1> USE Typed
<1> DEFINE G == chain' \in [Conns -> Seq(Message)] /\ inbox' \in [Conns -> SUBSET Message]
<1>0. chain \in [Conns -> Seq(Message)] /\ inbox \in [Conns -> SUBSET Message]
  BY DEF TypeOK
<1>1. ASSUME UNCHANGED <<chain, inbox>>
      PROVE  G
  BY <1>0, <1>1
<1>2. ASSUME NEW s \in Conns, chain' = [chain EXCEPT ![s] = <<>>]
      PROVE  chain' \in [Conns -> Seq(Message)]
  <2> DEFINE empty == <<>>
  <2>1. empty \in Seq(Message)
    OBVIOUS
  <2>2. chain' = [chain EXCEPT ![s] = empty]
    BY <1>2
  <2> HIDE DEF empty
  <2> QED
    BY <1>0, <2>1, <2>2
<1>3. CASE Peers \/ EpollThread
  BY <1>1, <1>3 DEF Peers, Connect, PeerSend, PeerClose, EpollThread, EpollListen, EpollWait, sending
<1>4. ASSUME NEW w \in Workers, RecvWorker(w)
      PROVE  G
  <2>1. CASE EndRemove(w)
    <3>1. UNCHANGED inbox /\ (UNCHANGED chain \/ \E s \in Conns : chain' = [chain EXCEPT ![s] = <<>>])
      <4>1. recv[w].fd \in Fds
        BY <2>1, RecvThere, OwnType DEF EndRemove, RecvAt
      <4>2. m_SocketInfo[recv[w].fd] \in Conns \cup {None}
        BY <4>1
      <4> QED
        BY <2>1, <4>2 DEF EndRemove
    <3> QED
      BY <1>0, <1>2, <3>1
  <2>2. CASE ~ EndRemove(w)
    BY <1>1, <1>4, <2>2 DEF RecvWorker, Accept, AddToEpoll, InsertSocket, AddClient, RecvOut, RecvIn, ReadData,
                            RestructFrame, ReadNothing, ReadEnd, EndQuit, sending
  <2> QED
    BY <2>1, <2>2
<1>5. ASSUME NEW w \in Workers, FrameWorker(w)
      PROVE  G
  <2>1. CASE SendPush(w)
    <3> DEFINE message == [what |-> proc[w].what, from |-> proc[w].task.from]
    <3>1. Sending(proc[w], w) /\ proc[w].at = "push"
      BY <2>1, ProcThere DEF SendPush, ProcAt
    <3>2. proc[w].of \in Conns /\ proc[w].what \in {"ack", "picture"} /\ proc[w].task \in FrameTask(w)
      BY <3>1 DEF Sending
    <3>3. message \in Message
      BY <3>2, TaskType DEF Message
    <3>4. chain' = [chain EXCEPT ![proc[w].of] = Append(chain[proc[w].of], message)] /\ UNCHANGED inbox
      BY <2>1 DEF SendPush
    <3> HIDE DEF message
    <3>5. Append(chain[proc[w].of], message) \in Seq(Message)
      BY <1>0, <3>2, <3>3, AppendProperties
    <3> QED
      BY <1>0, <3>4, <3>5
  <2>2. CASE ~ SendPush(w)
    BY <1>1, <1>5, <2>2 DEF FrameWorker, Login, KickQuit, KickClose, ResetCameraId, Picture, Seek, Walk, SendFind, sending
  <2> QED
    BY <2>1, <2>2
<1>6. ASSUME NEW w \in Workers, SendWorker(w)
      PROVE  G
  <2>1. CASE SendChain(w)
    <3> DEFINE c == file[send[w].fd]
               s == send[w].of
    <3>1. s \in Conns /\ send[w].fd \in Fds
      BY <2>1, OwnType DEF SendChain, SendPlace
    <3>2. {chain[s][i] : i \in DOMAIN chain[s]} \subseteq Message
      <4>1. chain[s] \in Seq(Message)
        BY <1>0, <3>1
      <4> HIDE DEF s
      <4>2. \A i \in DOMAIN chain[s] : chain[s][i] \in Message
        BY <4>1, LenProperties, ElementOfSeq
      <4> QED
        BY <4>2
    <3>3. \/ UNCHANGED <<chain, inbox>>
          \/ /\ c # None
             /\ inbox' = [inbox EXCEPT ![c] = inbox[c] \cup {chain[s][i] : i \in DOMAIN chain[s]}]
             /\ chain' = [chain EXCEPT ![s] = <<>>]
      BY <2>1 DEF SendChain
    <3>4. c # None => c \in Conns
      BY <3>1
    <3> HIDE DEF c, s
    <3>5. c # None => inbox[c] \cup {chain[s][i] : i \in DOMAIN chain[s]} \in SUBSET Message
      BY <1>0, <3>2, <3>4
    <3>6. chain' \in [Conns -> Seq(Message)]
      BY <1>0, <1>2, <3>1, <3>3
    <3> DEFINE arrived == {chain[s][i] : i \in DOMAIN chain[s]}
    <3>7. UNCHANGED inbox \/ (c # None /\ inbox' = [inbox EXCEPT ![c] = inbox[c] \cup arrived])
      BY <3>3
    <3>8. c # None => inbox[c] \cup arrived \in SUBSET Message
      BY <3>5
    <3> HIDE DEF arrived
    <3>9. inbox' \in [Conns -> SUBSET Message]
      BY <1>0, <3>4, <3>7, <3>8
    <3> QED
      BY <3>6, <3>9
  <2>2. CASE SendTake(w)
    BY <1>1, <2>2 DEF SendTake
  <2> QED
    BY <1>6, <2>1, <2>2 DEF SendWorker
<1> QED
  BY <1>3, <1>4, <1>5, <1>6 DEF Next, Server

LEMMA EventsType ==
  ASSUME TypeOK, Next
  PROVE  listenEvent' \in BOOLEAN /\ missed' \in Nat
<1>0. listenEvent \in BOOLEAN /\ missed \in Nat
  BY DEF TypeOK
<1>1. CASE Peers
  <2>1. ASSUME NEW c \in Conns, Connect(c)
        PROVE  listenEvent' \in BOOLEAN /\ missed' \in Nat
    <3>1. listenEvent' = TRUE /\ missed' = IF listenEvent THEN missed + 1 ELSE missed
      BY <2>1 DEF Connect
    <3> QED
      BY <1>0, <3>1
  <2>2. ASSUME NEW c \in Conns, PeerSend(c) \/ PeerClose(c)
        PROVE  listenEvent' \in BOOLEAN /\ missed' \in Nat
    BY <1>0, <2>2 DEF PeerSend, PeerClose
  <2> QED
    BY <1>1, <2>1, <2>2 DEF Peers
<1>2. CASE EpollThread
  BY <1>0, <1>2 DEF EpollThread, EpollListen, EpollWait, peers
<1>3. ASSUME NEW w \in Workers, RecvWorker(w)
      PROVE  listenEvent' \in BOOLEAN /\ missed' \in Nat
  <2>1. CASE Accept(w)
    <3>1. UNCHANGED listenEvent /\ missed' \in {missed, missed + 1}
      BY <2>1 DEF Accept
    <3> QED
      BY <1>0, <3>1
  <2>2. CASE ~ Accept(w)
    BY <1>0, <1>3, <2>2 DEF RecvWorker, AddToEpoll, InsertSocket, AddClient, RecvOut, RecvIn, ReadData,
                            RestructFrame, ReadNothing, ReadEnd, EndQuit, EndRemove, peers
  <2> QED
    BY <2>1, <2>2
<1>4. ASSUME NEW w \in Workers, FrameWorker(w)
      PROVE  listenEvent' \in BOOLEAN /\ missed' \in Nat
  BY <1>0, <1>4 DEF FrameWorker, Login, KickQuit, KickClose, ResetCameraId, Picture, Seek, Walk, SendFind, SendPush, peers
<1>5. ASSUME NEW w \in Workers, SendWorker(w)
      PROVE  listenEvent' \in BOOLEAN /\ missed' \in Nat
  BY <1>0, <1>5 DEF SendWorker, SendTake, SendChain, peers
<1> QED
  BY <1>1, <1>2, <1>3, <1>4, <1>5 DEF Next, Server

\* The types hold at first.
LEMMA TypeInit ==
  ASSUME Init
  PROVE  TypeOK
<1> USE DEF Init
<1>1. /\ setup \in Setups
      /\ conn \in [Conns -> {"new", "backlog", "open", "closed"}]
      /\ sent \in [Conns -> Nat] /\ got \in [Conns -> Nat]
      /\ \A c \in Conns : got[c] <= sent[c]
      /\ \A c \in Conns : conn[c] = "new" /\ sent[c] = 0
  OBVIOUS
<1>2. /\ gone \subseteq Conns /\ kicked \subseteq Conns /\ due \subseteq Conns \X Conns
      /\ ready \subseteq watched /\ watched \subseteq {file[f] : f \in Fds} \ {None}
  OBVIOUS
<1>7. backlog \in Seq(Conns) /\ missed \in Nat
  BY EmptySeq
<1>8. listenEvent \in BOOLEAN
  OBVIOUS
<1>6. {file, m_SocketInfo, ClientMap} \subseteq [Fds -> Conns \cup {None}]
  OBVIOUS
<1>3. /\ client \in [Conns -> [type : {"none", "phone", "pc"}, camera : Nat]]
      /\ changes \in [Workers -> SUBSET (Fds \X Conns)]
  OBVIOUS
<1>4. chain \in [Conns -> Seq(Message)] /\ inbox \in [Conns -> SUBSET Message]
  <2> DEFINE empty == <<>>
  <2>1. empty \in Seq(Message) /\ chain = [c \in Conns |-> empty]
    OBVIOUS
  <2> HIDE DEF empty
  <2> QED
    BY <2>1
<1>5. WorkersTypeOK
  <2> DEFINE empty == <<>>
  <2>1. /\ tasks = [w \in Workers |-> empty] /\ frames = [w \in Workers |-> empty]
        /\ sendTasks = [w \in Workers |-> empty]
        /\ \A T : empty \in Seq(T)
    OBVIOUS
  <2> HIDE DEF empty
  <2>2. /\ PerWorker(tasks) /\ PerWorker(frames) /\ PerWorker(sendTasks)
        /\ \A w \in Workers : /\ tasks[w] \in Seq(RecvTask(w)) /\ frames[w] \in Seq(FrameTask(w))
                              /\ sendTasks[w] \in Seq(Own(w))
    BY <2>1 DEF PerWorker
  <2>3. /\ PerWorker(recv) /\ PerWorker(proc) /\ PerWorker(send)
        /\ \A w \in Workers : recv[w] = Idle /\ proc[w] = Idle /\ send[w] = Idle
    BY DEF PerWorker
  <2>4. \A w : RecvPlace(Idle, w) /\ ProcPlace(Idle, w) /\ SendPlace(Idle, w)
    BY DEF RecvPlace, ProcPlace, SendPlace, Idle
  <2> QED
    BY <2>2, <2>3, <2>4 DEF WorkersTypeOK
<1> HIDE DEF Init
<1> QED
  BY <1>1, <1>2, <1>3, <1>4, <1>5, <1>6, <1>7, <1>8 DEF TypeOK

\* Every step keeps the types.
LEMMA TypeStep ==
  ASSUME TypeOK, FilesOpen, Next
  PROVE  TypeOK'
<1>1. setup \in Setups /\ setup' = setup
  BY Kept DEF TypeOK
<1>2. WorkersTypeOK'
  <2>1. Listener' = Listener
    BY <1>1 DEF Listener
  <2>2. /\ PerWorker(tasks)' /\ PerWorker(recv)' /\ PerWorker(frames)' /\ PerWorker(proc)'
        /\ PerWorker(sendTasks)' /\ PerWorker(send)'
    BY TasksType, RecvType, FramesType, ProcType, SendTasksType, SendType DEF PerWorker
  <2>3. \A w \in Workers :
          /\ tasks'[w] \in Seq(RecvTask(w)) /\ RecvPlace(recv'[w], w)
          /\ frames'[w] \in Seq(FrameTask(w)) /\ ProcPlace(proc'[w], w)
          /\ sendTasks'[w] \in Seq(Own(w)) /\ SendPlace(send'[w], w)
    BY TasksType, RecvType, FramesType, ProcType, SendTasksType, SendType DEF RecvTasks, FrameTasks, Owns
  <2>4. \A w \in Workers :
          /\ tasks'[w] \in Seq(RecvTask(w)') /\ RecvPlace(recv[w], w)'
          /\ frames'[w] \in Seq(FrameTask(w)) /\ ProcPlace(proc[w], w)'
          /\ sendTasks'[w] \in Seq(Own(w)) /\ SendPlace(send[w], w)'
    BY ZenonT(40), <2>1, <2>3 DEF RecvTask, RecvPlace, ProcPlace, SendPlace, Walking, Sending
  <2> QED
    BY <2>2, <2>4 DEF WorkersTypeOK
<1>3. Setups = Setups' /\ \A c : Script(c)' = Script(c)
  BY <1>1 DEF Script
<1>4. /\ conn' \in [Conns -> {"new", "backlog", "open", "closed"}]
      /\ sent' \in [Conns -> Nat] /\ got' \in [Conns -> Nat]
      /\ \A c \in Conns : got'[c] <= sent'[c]
      /\ \A c \in Conns : IF conn'[c] = "new" THEN sent'[c] = 0
                          ELSE c \in DOMAIN setup'.script /\ sent'[c] <= Len(Script(c)')
      /\ gone' \subseteq Conns
  BY <1>1, <1>3, ConnFileType, SentGotType
<1> QED
  BY <1>1, <1>2, <1>4, ConnFileType, WatchedType, MapsType, ClientsType, ChangesType, ChainsType, EventsType DEF TypeOK

-----------------------------------------------------------------------------
(* What one step can change                                                 *)

\* A connection goes from new to backlog, open and closed.
LEMMA ConnMoves ==
  ASSUME TypeOK, FilesOpen, Next, NEW c \in Conns
  PROVE  \/ conn'[c] = conn[c]
         \/ conn[c] = "new" /\ conn'[c] = "backlog"
         \/ conn[c] = "backlog" /\ conn'[c] = "open"
         \/ conn[c] = "open" /\ conn'[c] = "closed"
<1> USE Typed
<1>1. CASE UNCHANGED <<conn, file, backlog>>
  BY <1>1
<1>2. ASSUME NEW d \in Conns, Connect(d)
      PROVE  conn'[c] = conn[c] \/ (conn[c] = "new" /\ conn'[c] = "backlog")
  BY <1>2 DEF Connect
<1>3. ASSUME NEW w \in Workers, Accepted(w)
      PROVE  conn'[c] = conn[c] \/ (conn[c] = "backlog" /\ conn'[c] = "open")
  <2>1. PICK d \in Conns : d = Head(backlog) /\ conn' = [conn EXCEPT ![d] = "open"]
    BY <1>3, AcceptDoes
  <2>2. conn[d] = "backlog"
    BY <1>3, <2>1, FirstWaits DEF Accepted
  <2> QED
    BY <2>1, <2>2
<1>4. ASSUME NEW w \in Workers, ReadEnd(w) \/ KickClose(w)
      PROVE  conn'[c] = conn[c] \/ (conn[c] = "open" /\ conn'[c] = "closed")
  <2>1. PICK fd \in Fds : Close(fd)
    BY <1>4, Closes
  <2>2. conn'[c] = IF c = file[fd] THEN "closed" ELSE conn[c]
    BY <2>1, CloseDoes
  <2> QED
    BY <2>2 DEF FilesOpen
<1> QED
  BY <1>1, <1>2, <1>3, <1>4, KernelSteps

\* A descriptor is taken by the accepting worker, for a connection of the backlog, and
\* is closed by its own worker, after a read or for a bad login.
FileMove(f) ==
  LET w == WorkerOf(f) IN
  \/ file'[f] = file[f]
  \/ /\ file[f] = None /\ file'[f] \in Conns
     /\ conn[file'[f]] = "backlog" /\ conn'[file'[f]] = "open" /\ recv[Listener].at = "idle"
  \/ /\ file'[f] = None /\ file[f] \in Conns /\ conn'[file[f]] = "closed"
     /\ \/ recv[w].at = "read" /\ recv[w].fd = f /\ recv'[w].at = "quit" /\ recv'[w].fd = f
        \/ file[f] \in kicked'

LEMMA FileMoves ==
  ASSUME TypeOK, FilesOpen, Next, NEW f \in Fds
  PROVE  FileMove(f)
<1> USE Typed DEF FileMove
<1>1. CASE UNCHANGED <<conn, file, backlog>>
  BY <1>1
<1>2. ASSUME NEW d \in Conns, Connect(d)
      PROVE  FileMove(f)
  BY <1>2 DEF Connect
<1>3. ASSUME NEW w \in Workers, Accepted(w)
      PROVE  FileMove(f)
  <2>1. PICK d \in Conns, fd \in Fds :
          /\ w = Listener /\ d = Head(backlog) /\ file[fd] = None
          /\ conn' = [conn EXCEPT ![d] = "open"] /\ file' = [file EXCEPT ![fd] = d]
    BY <1>3, AcceptDoes
  <2>2. conn[d] = "backlog"
    BY <1>3, <2>1, FirstWaits DEF Accepted
  <2>3. recv[w].at = "idle"
    BY <1>3 DEF Accepted, Accept, HasTask, RecvAt
  <2> QED
    BY <2>1, <2>2, <2>3
<1>4. ASSUME NEW w \in Workers, ReadEnd(w) \/ KickClose(w)
      PROVE  FileMove(f)
  <2>1. PICK fd \in Fds :
           /\ WorkerOf(fd) = w /\ Close(fd)
           /\ \/ recv[w].at = "read" /\ recv[w].fd = fd
                 /\ RecvGoto(w, [at |-> "quit", fd |-> fd, of |-> m_SocketInfo[fd]])
              \/ kicked' = kicked \cup ({file[fd]} \ {None})
    BY <1>4, Closes
  <2>2. file' = [file EXCEPT ![fd] = None]
        /\ \A c \in Conns : conn'[c] = IF c = file[fd] THEN "closed" ELSE conn[c]
    BY <2>1, CloseDoes
  <2>3. CASE f # fd
    BY <2>2, <2>3
  <2>4. CASE f = fd
    <3>1. file'[f] = None
      BY <2>2, <2>4
    <3>2. CASE file[f] = None
      BY <3>1, <3>2
    <3>3. CASE file[f] # None
      <4>1. file[f] \in Conns /\ conn'[file[f]] = "closed"
        BY <2>2, <2>4, <3>3
      <4>2. CASE RecvGoto(w, [at |-> "quit", fd |-> fd, of |-> m_SocketInfo[fd]])
                 /\ recv[w].at = "read" /\ recv[w].fd = fd
        <5>1. recv'[w] = [at |-> "quit", fd |-> fd, of |-> m_SocketInfo[fd]]
          BY <4>2, RecvGoes
        <5>2. recv'[w].at = "quit" /\ recv'[w].fd = fd
          BY <5>1
        <5> QED
          BY <2>1, <2>4, <3>1, <4>1, <4>2, <5>2
      <4>3. CASE kicked' = kicked \cup ({file[fd]} \ {None})
        BY <2>4, <3>1, <3>3, <4>1, <4>3
      <4> QED
        BY <2>1, <4>2, <4>3
    <3> QED
      BY <3>2, <3>3
  <2> QED
    BY <2>3, <2>4
<1> QED
  BY <1>1, <1>2, <1>3, <1>4, KernelSteps

\* The entry of a socket: the accepting worker makes it where there is none, the
\* descriptor's own erases it.
SocketMove(f) ==
  LET w == WorkerOf(f) IN
  \/ m_SocketInfo'[f] = m_SocketInfo[f]
  \/ /\ m_SocketInfo[f] = None /\ m_SocketInfo'[f] = recv[Listener].of
     /\ recv[Listener].at = "insert" /\ recv[Listener].fd = f
  \/ m_SocketInfo'[f] = None /\ recv[w].at = "remove" /\ recv[w].fd = f /\ recv'[w].at = "idle"

\* The entry of a client: the same, and a bad login.
ClientMove(f) ==
  LET w == WorkerOf(f) IN
  \/ ClientMap'[f] = ClientMap[f]
  \/ /\ ClientMap[f] = None /\ ClientMap'[f] = recv[Listener].of
     /\ recv[Listener].at = "client" /\ recv[Listener].fd = f
  \/ /\ ClientMap'[f] = None
     /\ \/ recv[w].at = "quit" /\ recv[w].fd = f /\ recv'[w].at = "remove"
        \/ proc'[w].at = "close" /\ proc'[w].task.fd = f

LEMMA MapMoves ==
  ASSUME TypeOK, Next, NEW f \in Fds
  PROVE  SocketMove(f) /\ ClientMove(f)
<1> USE Typed
<1>1. CASE UNCHANGED <<m_SocketInfo, ClientMap>>
  BY <1>1 DEF SocketMove, ClientMove
<1>2. ASSUME NEW w \in Workers, InsertSocket(w) \/ AddClient(w)
      PROVE  SocketMove(f) /\ ClientMove(f)
  <2>1. recv[w].fd \in Fds /\ recv[w].of \in Conns /\ w = Listener
    BY <1>2, RecvThere DEF InsertSocket, AddClient, RecvAt
  <2>2. CASE InsertSocket(w)
    <3>1. recv[w].at = "insert" /\ UNCHANGED ClientMap /\ m_SocketInfo' = Enter(m_SocketInfo, recv[w].fd, recv[w].of)
      BY <2>2 DEF InsertSocket, RecvAt
    <3>2. m_SocketInfo'[f] = IF f = recv[w].fd /\ m_SocketInfo[f] = None THEN recv[w].of ELSE m_SocketInfo[f]
      BY <2>1, <3>1 DEF Enter
    <3> QED
      BY <2>1, <3>1, <3>2 DEF SocketMove, ClientMove
  <2>3. CASE AddClient(w)
    <3>1. recv[w].at = "client" /\ UNCHANGED m_SocketInfo /\ ClientMap' = Enter(ClientMap, recv[w].fd, recv[w].of)
      BY <2>3 DEF AddClient, RecvAt
    <3>2. ClientMap'[f] = IF f = recv[w].fd /\ ClientMap[f] = None THEN recv[w].of ELSE ClientMap[f]
      BY <2>1, <3>1 DEF Enter
    <3> QED
      BY <2>1, <3>1, <3>2 DEF SocketMove, ClientMove
  <2> QED
    BY <1>2, <2>2, <2>3
<1>3. ASSUME NEW w \in Workers, EndQuit(w)
      PROVE  SocketMove(f) /\ ClientMove(f)
  <2>1. recv[w].at = "quit" /\ recv[w].fd \in Fds /\ WorkerOf(recv[w].fd) = w
    BY <1>3, RecvThere, OwnType DEF EndQuit, RecvAt
  <2>2. /\ ClientMap' = [ClientMap EXCEPT ![recv[w].fd] = None] /\ UNCHANGED m_SocketInfo
        /\ RecvGoto(w, [at |-> "remove", fd |-> recv[w].fd, of |-> recv[w].of])
    BY <1>3 DEF EndQuit
  <2>3. recv'[w].at = "remove"
    BY <2>2, RecvGoes
  <2> QED
    BY <2>1, <2>2, <2>3 DEF SocketMove, ClientMove
<1>4. ASSUME NEW w \in Workers, EndRemove(w)
      PROVE  SocketMove(f) /\ ClientMove(f)
  <2>1. recv[w].at = "remove" /\ recv[w].fd \in Fds /\ WorkerOf(recv[w].fd) = w
    BY <1>4, RecvThere, OwnType DEF EndRemove, RecvAt
  <2>2. /\ m_SocketInfo' = [m_SocketInfo EXCEPT ![recv[w].fd] = None] /\ UNCHANGED ClientMap
        /\ RecvGoto(w, Idle)
    BY <1>4 DEF EndRemove
  <2>3. recv'[w].at = "idle"
    BY <2>2, RecvGoes DEF Idle
  <2> QED
    BY <2>1, <2>2, <2>3 DEF SocketMove, ClientMove
<1>5. ASSUME NEW w \in Workers, KickQuit(w)
      PROVE  SocketMove(f) /\ ClientMove(f)
  <2>1. proc[w].at = "quit" /\ proc[w].task.fd \in Fds /\ WorkerOf(proc[w].task.fd) = w
    BY <1>5, ProcThere, TaskType, OwnType DEF KickQuit, ProcAt
  <2>2. /\ ClientMap' = [ClientMap EXCEPT ![proc[w].task.fd] = None] /\ UNCHANGED m_SocketInfo
        /\ ProcGoto(w, [at |-> "close", task |-> proc[w].task])
    BY <1>5 DEF KickQuit
  <2>3. proc'[w].at = "close" /\ proc'[w].task = proc[w].task
    BY <2>2, ProcGoes
  <2> QED
    BY <2>1, <2>2, <2>3 DEF SocketMove, ClientMove
<1> QED
  BY <1>1, <1>2, <1>3, <1>4, <1>5, MapSteps

\* The ways of a receive worker.
RecvMove(w) ==
  LET p == recv[w]
      q == recv'[w]
  IN
  \/ q = p
  \/ q.at = "idle" /\ p.at # "quit" /\ (p.at = "remove" => m_SocketInfo'[p.fd] = None)
  \/ q.at = "add" /\ p.at = "idle" /\ file'[q.fd] = q.of
  \/ q.at \in {"insert", "client"} /\ p.at \in {"add", "insert"} /\ q.fd = p.fd /\ q.of = p.of
  \/ q.at = "read" /\ p.at \in {"idle", "restruct"}
  \/ /\ q.at = "restruct" /\ p.at = "read"
     /\ q.of = ClientMap[q.fd] /\ q.of # None /\ q.from = file[q.fd] /\ q.from # None
  \/ /\ q.at = "quit" /\ p.at = "read" /\ q.of = m_SocketInfo[q.fd]
     /\ file'[q.fd] = None /\ (file[q.fd] # None => conn'[file[q.fd]] = "closed")
  \/ q.at = "remove" /\ p.at = "quit" /\ q.fd = p.fd /\ q.of = p.of

LEMMA RecvMoves ==
  ASSUME TypeOK, Next, NEW w \in Workers
  PROVE  RecvMove(w)
<1> USE Typed
<1>1. CASE UNCHANGED recv
  BY <1>1 DEF RecvMove
<1>2. CASE Peers \/ EpollThread
  BY <1>1, <1>2 DEF Peers, Connect, PeerSend, PeerClose, EpollThread, EpollListen, EpollWait
<1>3. ASSUME NEW u \in Workers, FrameWorker(u) \/ SendWorker(u)
      PROVE  RecvMove(w)
  BY <1>1, <1>3 DEF FrameWorker, Login, KickQuit, KickClose, ResetCameraId, Picture, Seek, Walk, SendFind, SendPush,
                    SendWorker, SendTake, SendChain
<1>4. ASSUME NEW u \in Workers, NEW p, RecvGoto(u, p), u # w
      PROVE  RecvMove(w)
  <2>1. recv'[w] = recv[w]
    BY <1>4, RecvGoes
  <2> QED
    BY <2>1 DEF RecvMove
<1>5. ASSUME NEW u \in Workers, RecvWorker(u), u # w
      PROVE  RecvMove(w)
  <2>1. UNCHANGED recv \/ \E p : RecvGoto(u, p)
    BY <1>5 DEF RecvWorker, Accept, AddToEpoll, InsertSocket, AddClient, RecvOut, RecvIn, ReadData,
                RestructFrame, ReadNothing, ReadEnd, EndQuit, EndRemove
  <2> QED
    BY <1>1, <1>4, <1>5, <2>1
<1>6. ASSUME RecvWorker(w)
      PROVE  RecvMove(w)
  <2>0. ASSUME NEW p, RecvGoto(w, p)
        PROVE  recv'[w] = p
    BY <2>0, RecvGoes
  <2>1. CASE Accept(w)
    <3>1. CASE Accepted(w)
      <4>1. PICK c \in Conns, fd \in Fds : /\ file' = [file EXCEPT ![fd] = c]
                                           /\ RecvGoto(w, [at |-> "add", fd |-> fd, of |-> c])
        BY <3>1, AcceptDoes
      <4>2. recv'[w] = [at |-> "add", fd |-> fd, of |-> c]
        BY <4>1, <2>0
      <4>3. recv[w].at = "idle"
        BY <2>1 DEF Accept, HasTask, RecvAt
      <4> QED
        BY <4>1, <4>2, <4>3 DEF RecvMove
    <3>2. CASE ~ Accepted(w)
      BY <1>1, <2>1, <3>2 DEF Accept, Accepted
    <3> QED
      BY <3>1, <3>2
  <2>2. CASE AddToEpoll(w)
    <3>1. recv[w].at = "add" /\ (RecvGoto(w, Idle) \/ RecvGoto(w, [at |-> "insert", fd |-> recv[w].fd, of |-> recv[w].of]))
      BY <2>2 DEF AddToEpoll, RecvAt
    <3>2. recv'[w] = Idle \/ recv'[w] = [at |-> "insert", fd |-> recv[w].fd, of |-> recv[w].of]
      BY <3>1, <2>0
    <3> QED
      BY <3>1, <3>2 DEF RecvMove, Idle
  <2>3. CASE InsertSocket(w)
    <3>1. recv[w].at = "insert" /\ recv'[w] = [at |-> "client", fd |-> recv[w].fd, of |-> recv[w].of]
      BY <2>0, <2>3 DEF InsertSocket, RecvAt
    <3> QED
      BY <3>1 DEF RecvMove
  <2>4. CASE AddClient(w) \/ ReadNothing(w)
    <3>1. recv[w].at \in {"client", "read"} /\ recv'[w] = Idle
      BY <2>0, <2>4 DEF AddClient, ReadNothing, RecvAt
    <3> QED
      BY <3>1 DEF RecvMove, Idle
  <2>5. CASE RecvOut(w)
    BY <1>1, <2>5 DEF RecvOut
  <2>6. CASE RecvIn(w)
    <3>1. recv[w].at = "idle" /\ recv'[w] = [at |-> "read", fd |-> Head(tasks[w]).fd]
      BY <2>0, <2>6 DEF RecvIn, HasTask, RecvAt
    <3> QED
      BY <3>1 DEF RecvMove
  <2>7. CASE ReadData(w)
    <3> DEFINE fd == recv[w].fd
               c == file[fd]
    <3>1. recv[w].at = "read" /\ c # None
      BY <2>7 DEF ReadData, RecvAt
    <3>2. RecvGoto(w, recv[w]) \/ (ClientMap[fd] # None /\
             RecvGoto(w, [at |-> "restruct", fd |-> fd, from |-> c, of |-> ClientMap[fd], read |-> Unread(c)]))
      BY <2>7 DEF ReadData
    <3>3. recv'[w] = recv[w] \/ (ClientMap[fd] # None /\
             recv'[w] = [at |-> "restruct", fd |-> fd, from |-> c, of |-> ClientMap[fd], read |-> Unread(c)])
      BY <3>2, <2>0
    <3>4. CASE recv'[w] = recv[w]
      BY <3>4 DEF RecvMove
    <3>5. CASE /\ ClientMap[fd] # None
               /\ recv'[w] = [at |-> "restruct", fd |-> fd, from |-> c, of |-> ClientMap[fd], read |-> Unread(c)]
      <4>1. recv'[w].at = "restruct" /\ recv'[w].fd = fd /\ recv'[w].from = c /\ recv'[w].of = ClientMap[fd]
        BY <3>5
      <4>2. ClientMap[recv'[w].fd] = ClientMap[fd] /\ file[recv'[w].fd] = c
        BY <4>1
      <4> QED
        BY <3>1, <3>5, <4>1, <4>2 DEF RecvMove
    <3> QED
      BY <3>3, <3>4, <3>5
  <2>8. CASE RestructFrame(w)
    <3>1. recv[w].at = "restruct" /\ recv'[w] = [at |-> "read", fd |-> recv[w].fd]
      BY <2>0, <2>8 DEF RestructFrame, RecvAt
    <3> QED
      BY <3>1 DEF RecvMove
  <2>9. CASE ReadEnd(w)
    <3> DEFINE fd == recv[w].fd
    <3>1. /\ recv[w].at = "read" /\ fd \in Fds /\ Close(fd)
          /\ recv'[w] = [at |-> "quit", fd |-> fd, of |-> m_SocketInfo[fd]]
      BY <2>0, <2>9, RecvThere, OwnType DEF ReadEnd, RecvAt
    <3>2. file'[fd] = None /\ \A c \in Conns : conn'[c] = IF c = file[fd] THEN "closed" ELSE conn[c]
      <4>1. PICK g \in Fds : g = fd /\ Close(g)
        BY <3>1
      <4>2. file' = [file EXCEPT ![g] = None] /\ \A c \in Conns : conn'[c] = IF c = file[g] THEN "closed" ELSE conn[c]
        BY <4>1, CloseDoes
      <4> QED
        BY <4>1, <4>2
    <3>3. file[fd] # None => conn'[file[fd]] = "closed"
      BY <3>1, <3>2
    <3> QED
      BY <3>1, <3>2, <3>3 DEF RecvMove
  <2>10. CASE EndQuit(w)
    <3>1. recv[w].at = "quit" /\ recv'[w] = [at |-> "remove", fd |-> recv[w].fd, of |-> recv[w].of]
      BY <2>0, <2>10 DEF EndQuit, RecvAt
    <3> QED
      BY <3>1 DEF RecvMove
  <2>11. CASE EndRemove(w)
    <3>1. recv[w].at = "remove" /\ recv'[w] = Idle /\ recv[w].fd \in Fds
      BY <2>0, <2>11, RecvThere, OwnType DEF EndRemove, RecvAt
    <3>2. m_SocketInfo' = [m_SocketInfo EXCEPT ![recv[w].fd] = None]
      BY <2>11 DEF EndRemove
    <3>3. m_SocketInfo'[recv[w].fd] = None
      BY <3>1, <3>2
    <3> QED
      BY <3>1, <3>3 DEF RecvMove, Idle
  <2> QED
    BY <1>6, <2>1, <2>2, <2>3, <2>4, <2>5, <2>6, <2>7, <2>8, <2>9, <2>10, <2>11 DEF RecvWorker
<1> QED
  BY <1>2, <1>3, <1>5, <1>6 DEF Next, Server

\* A frame worker that is about to close a descriptor closes it.
LEMMA CloseMoves ==
  ASSUME TypeOK, Next, NEW w \in Workers, proc[w].at = "close"
  PROVE  proc'[w] = proc[w] \/ file'[proc[w].task.fd] = None
<1> USE Typed
<1>1. CASE Peers \/ EpollThread
  BY <1>1 DEF Peers, Connect, PeerSend, PeerClose, EpollThread, EpollListen, EpollWait
<1>2. ASSUME NEW u \in Workers, RecvWorker(u) \/ SendWorker(u)
      PROVE  UNCHANGED proc
  BY <1>2 DEF RecvWorker, Accept, AddToEpoll, InsertSocket, AddClient, RecvOut, RecvIn, ReadData, RestructFrame,
              ReadNothing, ReadEnd, EndQuit, EndRemove, SendWorker, SendTake, SendChain
<1>3. ASSUME NEW u \in Workers, FrameWorker(u), u # w
      PROVE  proc'[w] = proc[w]
  <2>1. UNCHANGED proc \/ \E p : ProcGoto(u, p)
    BY <1>3 DEF FrameWorker, Login, KickQuit, KickClose, ResetCameraId, Picture, Seek, Walk, SendFind, SendPush
  <2>2. ASSUME NEW p, ProcGoto(u, p)
        PROVE  proc'[w] = proc[w]
    BY <1>3, <2>2, ProcGoes
  <2> QED
    BY <2>1, <2>2
<1>4. ASSUME FrameWorker(w)
      PROVE  file'[proc[w].task.fd] = None
  <2>1. KickClose(w)
    BY <1>4 DEF FrameWorker, Login, KickQuit, ResetCameraId, Picture, Seek, Walk, SendFind, SendPush, HasFrame, ProcAt
  <2>2. PICK fd \in Fds : fd = proc[w].task.fd /\ Close(fd)
    BY <2>1, ProcThere, TaskType DEF KickClose
  <2>3. file' = [file EXCEPT ![fd] = None]
    BY <2>2, CloseDoes
  <2> QED
    BY <2>2, <2>3
<1> QED
  BY <1>1, <1>2, <1>3, <1>4 DEF Next, Server

LEMMA KickedGrows ==
  ASSUME TypeOK, Next
  PROVE  kicked \subseteq kicked'
<1>1. CASE Peers \/ EpollThread
  BY <1>1 DEF Peers, Connect, PeerSend, PeerClose, EpollThread, EpollListen, EpollWait, past
<1>2. ASSUME NEW u \in Workers, RecvWorker(u) \/ SendWorker(u)
      PROVE  UNCHANGED kicked
  BY <1>2 DEF RecvWorker, Accept, AddToEpoll, InsertSocket, AddClient, RecvOut, RecvIn, ReadData, RestructFrame,
              ReadNothing, ReadEnd, EndQuit, EndRemove, SendWorker, SendTake, SendChain, past
<1>3. ASSUME NEW u \in Workers, FrameWorker(u)
      PROVE  kicked \subseteq kicked'
  BY <1>3 DEF FrameWorker, Login, KickQuit, KickClose, ResetCameraId, Picture, Seek, Walk, SendFind, SendPush, past
<1> QED
  BY <1>1, <1>2, <1>3 DEF Next, Server

-----------------------------------------------------------------------------
(* Each part of the invariant is kept                                       *)

LEMMA FilesOpenStep ==
  ASSUME TypeOK, FilesOpen, Next
  PROVE  FilesOpen'
<1> USE Typed
<1>0. backlog \in Seq(Conns)
  BY DEF TypeOK
<1>1. \A f \in Fds : file'[f] # None => conn'[file'[f]] = "open"
  <2> SUFFICES ASSUME NEW f \in Fds, file'[f] # None, conn'[file'[f]] # "open" PROVE FALSE
    OBVIOUS
  <2>1. file'[f] = file[f] /\ file[f] \in Conns
    BY FileMoves DEF FileMove
  <2>2. conn[file[f]] = "open"
    BY <2>1 DEF FilesOpen
  <2>3. conn'[file[f]] = "closed"
    BY <2>1, <2>2, ConnMoves
  <2>4. CASE UNCHANGED <<conn, file, backlog>>
    BY <2>2, <2>3, <2>4
  <2>5. ASSUME NEW c \in Conns, Connect(c)
        PROVE  FALSE
    BY <2>1, <2>3, <2>2, <2>5 DEF Connect
  <2>6. ASSUME NEW w \in Workers, Accepted(w)
        PROVE  FALSE
    <3>1. PICK c \in Conns : conn' = [conn EXCEPT ![c] = "open"]
      BY <2>6, AcceptDoes
    <3> QED
      BY <2>1, <2>2, <2>3, <3>1
  <2>7. ASSUME NEW w \in Workers, ReadEnd(w) \/ KickClose(w)
        PROVE  FALSE
    <3>1. PICK fd \in Fds : Close(fd)
      BY <2>7, Closes
    <3>2. /\ file' = [file EXCEPT ![fd] = None]
          /\ \A c \in Conns : conn'[c] = IF c = file[fd] THEN "closed" ELSE conn[c]
      BY <3>1, CloseDoes
    <3>3. file[f] = file[fd]
      BY <2>1, <2>2, <2>3, <3>2
    <3>4. f = fd
      BY <2>1, <3>3 DEF FilesOpen
    <3> QED
      BY <2>1, <3>2, <3>4
  <2> QED
    BY <2>4, <2>5, <2>6, <2>7, KernelSteps
<1>2. \A f, g \in Fds : file'[f] # None /\ file'[f] = file'[g] => f = g
  <2> SUFFICES ASSUME NEW f \in Fds, NEW g \in Fds, file'[f] # None, file'[f] = file'[g], f # g PROVE FALSE
    OBVIOUS
  <2>1. CASE UNCHANGED <<conn, file, backlog>>
    BY <2>1 DEF FilesOpen
  <2>2. ASSUME NEW c \in Conns, Connect(c)
        PROVE  FALSE
    BY <2>2 DEF Connect, FilesOpen
  <2>3. ASSUME NEW w \in Workers, Accepted(w)
        PROVE  FALSE
    <3>1. PICK c \in Conns, fd \in Fds : c = Head(backlog) /\ file' = [file EXCEPT ![fd] = c]
      BY <2>3, AcceptDoes
    <3>2. conn[c] = "backlog"
      BY <2>3, <3>1, FirstWaits DEF Accepted
    <3>3. \A h \in Fds : file[h] # c
      BY <3>2 DEF FilesOpen
    <3> QED
      BY <3>1, <3>3 DEF FilesOpen
  <2>4. ASSUME NEW w \in Workers, ReadEnd(w) \/ KickClose(w)
        PROVE  FALSE
    <3>1. PICK fd \in Fds : Close(fd)
      BY <2>4, Closes
    <3>2. file' = [file EXCEPT ![fd] = None]
      BY <3>1, CloseDoes
    <3> QED
      BY <3>2 DEF FilesOpen
  <2> QED
    BY <2>1, <2>2, <2>3, <2>4, KernelSteps
<1>3. \A i, j \in DOMAIN backlog' :
        conn'[backlog'[i]] = "backlog" /\ (backlog'[i] = backlog'[j] => i = j)
  <2> SUFFICES ASSUME NEW i \in DOMAIN backlog', NEW j \in DOMAIN backlog'
               PROVE  conn'[backlog'[i]] = "backlog" /\ (backlog'[i] = backlog'[j] => i = j)
    OBVIOUS
  <2>0. /\ \A k, l \in 1 .. Len(backlog) : conn[backlog[k]] = "backlog" /\ (backlog[k] = backlog[l] => k = l)
        /\ Len(backlog) \in Nat /\ \A k \in 1 .. Len(backlog) : backlog[k] \in Conns
    BY <1>0, LenProperties, ElementOfSeq DEF FilesOpen
  <2>1. CASE UNCHANGED <<conn, file, backlog>>
    BY <2>1 DEF FilesOpen
  <2>2. ASSUME NEW c \in Conns, Connect(c)
        PROVE  conn'[backlog'[i]] = "backlog" /\ (backlog'[i] = backlog'[j] => i = j)
    <3>1. conn[c] = "new" /\ conn' = [conn EXCEPT ![c] = "backlog"] /\ backlog' = Append(backlog, c)
      BY <2>2 DEF Connect
    <3>2. /\ DOMAIN backlog' = 1 .. Len(backlog) + 1
          /\ \A k \in 1 .. Len(backlog) + 1 : backlog'[k] = IF k <= Len(backlog) THEN backlog[k] ELSE c
      BY <1>0, <2>0, <3>1, AppendProperties, LenProperties
    <3>3. \A k \in 1 .. Len(backlog) : backlog[k] # c
      BY <2>0, <3>1
    <3> QED
      BY <2>0, <3>1, <3>2, <3>3
  <2>3. ASSUME NEW w \in Workers, Accepted(w)
        PROVE  conn'[backlog'[i]] = "backlog" /\ (backlog'[i] = backlog'[j] => i = j)
    <3>1. PICK c \in Conns : c = Head(backlog) /\ conn' = [conn EXCEPT ![c] = "open"] /\ backlog' = Tail(backlog)
      BY <2>3, AcceptDoes
    <3>2. backlog # <<>>
      BY <2>3 DEF Accepted
    <3>3. /\ c = backlog[1] /\ Len(backlog) >= 1
          /\ DOMAIN backlog' = 1 .. Len(backlog) - 1
          /\ \A k \in 1 .. Len(backlog) - 1 : backlog'[k] = backlog[k + 1]
      BY <1>0, <2>0, <3>1, <3>2, EmptySeq, HeadTailProperties, LenProperties
    <3>4. i + 1 \in 1 .. Len(backlog) /\ j + 1 \in 1 .. Len(backlog) /\ 1 \in 1 .. Len(backlog) /\ i + 1 # 1 /\ i \in Int /\ j \in Int
      BY <2>0, <3>3
    <3>5. backlog'[i] = backlog[i + 1] /\ backlog'[j] = backlog[j + 1]
      BY <3>3
    <3>6. backlog[i + 1] # c /\ conn[backlog[i + 1]] = "backlog" /\ backlog[i + 1] \in Conns
      BY <2>0, <3>3, <3>4
    <3>7. backlog'[i] = backlog'[j] => i = j
      <4>1. backlog[i + 1] = backlog[j + 1] => i + 1 = j + 1
        BY <2>0, <3>4
      <4> QED
        BY <3>4, <3>5, <4>1
    <3> QED
      BY <3>1, <3>5, <3>6, <3>7
  <2>4. ASSUME NEW w \in Workers, ReadEnd(w) \/ KickClose(w)
        PROVE  conn'[backlog'[i]] = "backlog" /\ (backlog'[i] = backlog'[j] => i = j)
    <3>1. PICK fd \in Fds : Close(fd) /\ UNCHANGED backlog
      BY <2>4, Closes
    <3>2. \A c \in Conns : conn'[c] = IF c = file[fd] THEN "closed" ELSE conn[c]
      BY <3>1, CloseDoes
    <3>3. backlog[i] \in Conns /\ conn[backlog[i]] = "backlog" /\ (backlog[i] = backlog[j] => i = j)
      BY <1>0, <3>1, LenProperties, ElementOfSeq DEF FilesOpen
    <3>4. backlog[i] # file[fd]
      BY <3>3 DEF FilesOpen
    <3> QED
      BY <3>1, <3>2, <3>3, <3>4
  <2> QED
    BY <2>1, <2>2, <2>3, <2>4, KernelSteps
<1> QED
  BY <1>1, <1>2, <1>3 DEF FilesOpen

\* A worker that is adding a connection is the accepting one, also afterwards.
LEMMA AddsNext ==
  ASSUME TypeOK, FilesOpen, Next, NEW w \in Workers, recv'[w].at \in {"add", "insert", "client"}
  PROVE  w = Listener /\ recv'[w].fd \in Fds /\ recv'[w].of \in Conns
<1>1. TypeOK' /\ Listener' = Listener
  BY TypeStep, Kept DEF Listener
<1>2. RecvPlace(recv'[w], w)
  BY RecvType
<1> QED
  BY <1>2 DEF RecvPlace

LEMMA RemovingNext ==
  ASSUME TypeOK, Next, NEW w \in Workers, recv'[w].at \in {"quit", "remove"}
  PROVE  recv'[w].fd \in Fds /\ WorkerOf(recv'[w].fd) = w /\ recv'[w].of \in Conns \cup {None}
<1>1. RecvPlace(recv'[w], w)
  BY RecvType
<1> QED
  BY <1>1, OwnType DEF RecvPlace

LEMMA EntriesOwnStep ==
  ASSUME TypeOK, FilesOpen, EntriesOwn, Next
  PROVE  EntriesOwn'
<1> USE Typed
\* A closed connection stays closed.
<1>1. \A c \in Conns : conn[c] = "closed" => conn'[c] = "closed"
  BY ConnMoves
\* What is the descriptor's or closed stays so.
<1>2. ASSUME NEW f \in Fds, NEW c \in Conns, file[f] = c \/ conn[c] = "closed"
      PROVE  file'[f] = c \/ conn'[c] = "closed"
  <2>1. CASE conn[c] = "closed"
    BY <1>1, <2>1
  <2>2. CASE file[f] = c
    BY <2>2, FileMoves DEF FileMove
  <2> QED
    BY <1>2, <2>1, <2>2
<1>3. \A w \in Workers : recv[w].at \in {"add", "insert", "client"} =>
         /\ w = Listener /\ recv[w].fd \in Fds /\ recv[w].of \in Conns
         /\ file[recv[w].fd] = recv[w].of \/ conn[recv[w].of] = "closed"
  BY RecvThere DEF EntriesOwn
<1>4. ASSUME NEW f \in Fds, NEW c \in {m_SocketInfo'[f], ClientMap'[f]} \ {None}
      PROVE  file'[f] = c \/ conn'[c] = "closed"
  <2>1. SocketMove(f) /\ ClientMove(f)
    BY MapMoves
  <2>2. \/ c \in {m_SocketInfo[f], ClientMap[f]} \ {None}
        \/ /\ recv[Listener].at \in {"insert", "client"} /\ recv[Listener].fd = f
           /\ c = recv[Listener].of
    BY <2>1 DEF SocketMove, ClientMove
  <2>3. c \in Conns
    BY MapsType
  <2>4. CASE c \in {m_SocketInfo[f], ClientMap[f]} \ {None}
    <3>1. file[f] = c \/ conn[c] = "closed"
      BY <2>4 DEF EntriesOwn
    <3> QED
      BY <1>2, <2>3, <3>1
  <2>5. CASE recv[Listener].at \in {"insert", "client"} /\ recv[Listener].fd = f /\ c = recv[Listener].of
    <3>1. file[f] = c \/ conn[c] = "closed"
      BY <1>3, <2>5, SetupType
    <3> QED
      BY <1>2, <2>3, <3>1
  <2> QED
    BY <2>2, <2>4, <2>5
<1>5. ASSUME NEW w \in Workers, recv'[w].at \in {"add", "insert", "client"}
      PROVE  \/ file'[recv'[w].fd] = recv'[w].of
             \/ conn'[recv'[w].of] = "closed" /\ (WorkerOf(recv'[w].fd) = w => recv'[w].of \in kicked')
  <2>1. w = Listener /\ recv'[w].fd \in Fds /\ recv'[w].of \in Conns
    BY <1>5, AddsNext
  <2>2. \/ recv'[w].at = "add" /\ file'[recv'[w].fd] = recv'[w].of
        \/ recv[w].at \in {"add", "insert", "client"} /\ recv'[w].fd = recv[w].fd /\ recv'[w].of = recv[w].of
    BY <1>5, RecvMoves DEF RecvMove
  <2>3. CASE recv[w].at \in {"add", "insert", "client"} /\ recv'[w].fd = recv[w].fd /\ recv'[w].of = recv[w].of
    <3> DEFINE f == recv[w].fd
               c == recv[w].of
    <3>1. file[f] = c \/ (conn[c] = "closed" /\ (WorkerOf(f) = w => c \in kicked))
      BY <2>3 DEF EntriesOwn
    <3>2. f \in Fds /\ c \in Conns
      BY <2>1, <2>3
    <3>3. CASE conn[c] = "closed" /\ (WorkerOf(f) = w => c \in kicked)
      BY <1>1, <2>3, <3>2, <3>3, KickedGrows
    <3>4. CASE file[f] = c
      <4>1. FileMove(f)
        BY <3>2, FileMoves
      <4>2. WorkerOf(f) = w => recv[WorkerOf(f)].at # "read"
        BY <2>3
      <4>3. file'[f] = c \/ (conn'[c] = "closed" /\ (WorkerOf(f) = w => c \in kicked'))
        BY <3>2, <3>4, <4>1, <4>2 DEF FileMove
      <4> QED
        BY <2>3, <4>3
    <3> QED
      BY <3>1, <3>3, <3>4
  <2> QED
    BY <2>2, <2>3
<1> QED
  BY <1>4, <1>5 DEF EntriesOwn, WorkerOf

LEMMA EntryStaysStep ==
  ASSUME TypeOK, FilesOpen, EntriesOwn, EntryStays, Next
  PROVE  EntryStays'
<1> USE Typed
<1>1. \A c \in Conns : conn[c] = "closed" => conn'[c] = "closed"
  BY ConnMoves
<1>2. Listener' = Listener
  BY Kept DEF Listener
<1>3. ASSUME NEW f \in Fds, recv'[WorkerOf(f)].at \in {"quit", "remove"}, recv'[WorkerOf(f)].fd = f
      PROVE  /\ recv'[WorkerOf(f)].of # None =>
                  m_SocketInfo'[f] = recv'[WorkerOf(f)].of /\ conn'[recv'[WorkerOf(f)].of] = "closed"
             /\ recv'[WorkerOf(f)].of = None /\ WorkerOf(f) = Listener => m_SocketInfo'[f] = None
  <2> DEFINE w == WorkerOf(f)
             of == recv'[w].of
  <2>0. w \in Workers /\ of \in Conns \cup {None}
    BY <1>3, RemovingNext, WorkerOfType
  \* The entry is what it was when the end was read.
  <2>1. /\ of # None => m_SocketInfo[f] = of /\ conn'[of] = "closed"
        /\ of = None /\ w = Listener => m_SocketInfo[f] = None
    <3>1. \/ recv[w].at \in {"quit", "remove"} /\ recv[w].fd = f /\ of = recv[w].of
          \/ /\ recv[w].at = "read" /\ of = m_SocketInfo[f]
             /\ file'[f] = None /\ (file[f] # None => conn'[file[f]] = "closed")
      BY <1>3, <2>0, RecvMoves DEF RecvMove
    <3>2. CASE recv[w].at \in {"quit", "remove"} /\ recv[w].fd = f /\ of = recv[w].of
      BY <1>1, <2>0, <3>2 DEF EntryStays, Removing
    <3>3. CASE /\ recv[w].at = "read" /\ of = m_SocketInfo[f]
               /\ file'[f] = None /\ (file[f] # None => conn'[file[f]] = "closed")
      <4>1. of # None => file[f] = of \/ conn[of] = "closed"
        BY <3>3 DEF EntriesOwn
      <4> QED
        BY <1>1, <2>0, <3>3, <4>1
    <3> QED
      BY <3>1, <3>2, <3>3
  <2>2. recv[w].at # "insert" /\ recv'[w].at # "idle"
    BY <1>3, <2>0, RecvMoves DEF RecvMove
  <2>3. SocketMove(f)
    BY MapMoves
  <2> QED
    BY <2>1, <2>2, <2>3 DEF SocketMove
<1>4. \A f \in Fds : WorkerOf(f)' = WorkerOf(f)
  BY DEF WorkerOf
<1> QED
  BY <1>2, <1>3, <1>4 DEF EntryStays, Removing

LEMMA ReadFromOldStep ==
  ASSUME TypeOK, FilesOpen, ReadFromOld, Next
  PROVE  ReadFromOld'
<1> USE Typed
<1>1. ASSUME NEW w \in Workers, recv'[w].at = "restruct"
      PROVE  conn'[recv'[w].from] \in {"open", "closed"}
  <2>1. RecvPlace(recv'[w], w)
    BY RecvType
  <2>2. recv'[w].from \in Conns /\ recv'[w].fd \in Fds
    BY <1>1, <2>1, OwnType DEF RecvPlace
  <2>3. recv'[w] = recv[w] \/ recv'[w].from = file[recv'[w].fd]
    BY <1>1, RecvMoves DEF RecvMove
  <2>4. conn[recv'[w].from] \in {"open", "closed"}
    <3>1. CASE recv'[w] = recv[w]
      BY <1>1, <3>1 DEF ReadFromOld
    <3>2. CASE recv'[w].from = file[recv'[w].fd]
      BY ZenonT(40), <2>2, <3>2 DEF FilesOpen
    <3> QED
      BY <2>3, <3>1, <3>2
  <2> QED
    BY <2>2, <2>4, ConnMoves
<1> QED
  BY <1>1 DEF ReadFromOld

LEMMA LeftoversStep ==
  ASSUME TypeOK, FilesOpen, EntriesOwn, LeftoversExplained, Next
  PROVE  LeftoversExplained'
<1> USE Typed, SetupType
<1>1. Listener' = Listener /\ \A f \in Fds : WorkerOf(f)' = WorkerOf(f)
  BY Kept DEF Listener, WorkerOf
<1>2. ASSUME NEW f \in Fds, m_SocketInfo'[f] # None, file'[f] # m_SocketInfo'[f], WorkerOf(f) = Listener,
             m_SocketInfo'[f] \notin kicked'
      PROVE  recv'[Listener].at \in {"quit", "remove"} /\ recv'[Listener].fd = f
  <2> DEFINE c == m_SocketInfo'[f]
  <2>0. c \in Conns /\ SocketMove(f) /\ FileMove(f) /\ kicked \subseteq kicked' /\ RecvMove(Listener)
    BY <1>2, MapsType, MapMoves, FileMoves, KickedGrows, RecvMoves
  \* Either there was an explanation, or the descriptor is being closed.
  <2>1. CASE m_SocketInfo'[f] = m_SocketInfo[f]
    <3>1. CASE file[f] = c
      BY <1>2, <2>0, <2>1, <3>1 DEF FileMove
    <3>2. CASE file[f] # c
      <4>1. recv[Listener].at \in {"quit", "remove"} /\ recv[Listener].fd = f
        BY <1>2, <2>0, <2>1, <3>2 DEF LeftoversExplained, Removing
      <4> QED
        BY <1>2, <2>0, <2>1, <4>1 DEF RecvMove
    <3> QED
      BY <3>1, <3>2
  <2>2. CASE m_SocketInfo'[f] # m_SocketInfo[f]
    <3>1. c = recv[Listener].of /\ recv[Listener].at = "insert" /\ recv[Listener].fd = f
      BY <1>2, <2>0, <2>2 DEF SocketMove
    <3>2. file[f] = c \/ c \in kicked
      BY <1>2, <3>1 DEF EntriesOwn
    <3>3. file[f] = c
      BY <1>2, <2>0, <3>2
    <3> QED
      BY <1>2, <2>0, <3>1, <3>3 DEF FileMove
  <2> QED
    BY <2>1, <2>2
<1> QED
  BY <1>1, <1>2 DEF LeftoversExplained, Removing

LEMMA ReaderStep ==
  ASSUME TypeOK, FilesOpen, ReadFromOld, ReaderHasClient, Next
  PROVE  ReaderHasClient'
<1> USE Typed
<1>1. ASSUME NEW w \in Workers, recv'[w].at = "restruct",
             ClientMap'[recv'[w].fd] # recv'[w].of, file'[recv'[w].fd] = recv'[w].from
      PROVE  proc'[w].at = "close" /\ proc'[w].task.fd = recv'[w].fd
  <2> DEFINE f == recv'[w].fd
             p == recv'[w]
  <2>0. f \in Fds /\ WorkerOf(f) = w /\ p.of \in Conns /\ p.from \in Conns
    <3>1. RecvPlace(p, w)
      BY RecvType
    <3> QED
      BY <1>1, <3>1, OwnType DEF RecvPlace
  <2>1. ClientMove(f) /\ FileMove(f) /\ RecvMove(w)
    BY <2>0, MapMoves, FileMoves, RecvMoves
  <2>2. recv[w].at # "quit"
    BY <1>1, <2>1 DEF RecvMove
  <2>3. CASE ClientMap[f] = p.of
    BY <1>1, <2>0, <2>1, <2>2, <2>3 DEF ClientMove
  <2>4. CASE ClientMap[f] # p.of
    <3>1. recv'[w] = recv[w]
      BY <1>1, <2>1, <2>4 DEF RecvMove
    <3>2. conn[p.from] \in {"open", "closed"}
      BY <1>1, <3>1 DEF ReadFromOld
    <3>3. file[f] = p.from
      BY <1>1, <2>0, <2>1, <3>2 DEF FileMove
    <3>4. proc[w].at = "close" /\ proc[w].task.fd = f
      BY <1>1, <2>4, <3>1, <3>3 DEF ReaderHasClient
    <3> QED
      BY <1>1, <2>0, <3>4, CloseMoves
  <2> QED
    BY <2>3, <2>4
<1> QED
  BY <1>1 DEF ReaderHasClient

\* The listen tasks of a queue, counted as one is added or taken.
Listens(q) == {i \in DOMAIN q : q[i].kind = "listen"}

LEMMA ListensFinite ==
  ASSUME NEW T, NEW q \in Seq(T)
  PROVE  IsFiniteSet(Listens(q)) /\ Cardinality(Listens(q)) \in Nat
<1>1. Len(q) \in Nat /\ DOMAIN q = 1 .. Len(q)
  BY LenProperties
<1>2. IsFiniteSet(1 .. Len(q))
  BY <1>1, FS_Interval
<1>3. Listens(q) \in SUBSET (1 .. Len(q))
  BY <1>1 DEF Listens
<1>4. IsFiniteSet(Listens(q))
  BY <1>2, <1>3, FS_Subset
<1> QED
  BY <1>4, FS_CardinalityType

LEMMA ListensAdd ==
  ASSUME NEW T, NEW q \in Seq(T), NEW t \in T
  PROVE  Cardinality(Listens(Append(q, t))) = Cardinality(Listens(q)) + (IF t.kind = "listen" THEN 1 ELSE 0)
<1> DEFINE n == Len(q) + 1
<1>1. /\ Len(q) \in Nat /\ DOMAIN q = 1 .. Len(q)
      /\ DOMAIN Append(q, t) = 1 .. n /\ Append(q, t)[n] = t
      /\ \A i \in 1 .. Len(q) : Append(q, t)[i] = q[i]
  BY LenProperties, AppendProperties
<1>2. IsFiniteSet(Listens(q)) /\ Cardinality(Listens(q)) \in Nat
  BY ListensFinite
<1>3. CASE t.kind = "listen"
  <2>1. Listens(Append(q, t)) = Listens(q) \cup {n} /\ n \notin Listens(q)
    BY <1>1, <1>3 DEF Listens
  <2>2. Cardinality(Listens(q) \cup {n}) = Cardinality(Listens(q)) + 1
    BY <1>2, <2>1, FS_AddElement
  <2> QED
    BY <1>3, <2>1, <2>2
<1>4. CASE t.kind # "listen"
  <2>1. Listens(Append(q, t)) = Listens(q)
    BY <1>1, <1>4 DEF Listens
  <2> QED
    BY <1>2, <1>4, <2>1
<1> QED
  BY <1>3, <1>4

LEMMA ListensRest ==
  ASSUME NEW T, NEW q \in Seq(T), q # <<>>
  PROVE  Cardinality(Listens(Tail(q))) = Cardinality(Listens(q)) - (IF Head(q).kind = "listen" THEN 1 ELSE 0)
<1> DEFINE A == Listens(Tail(q))
           B == Listens(q) \ {1}
           shift == [i \in A |-> i + 1]
<1>1. /\ Len(q) \in Nat /\ Len(q) >= 1 /\ DOMAIN q = 1 .. Len(q) /\ Head(q) = q[1]
      /\ DOMAIN Tail(q) = 1 .. Len(q) - 1 /\ \A i \in 1 .. Len(q) - 1 : Tail(q)[i] = q[i + 1]
      /\ Tail(q) \in Seq(T)
  BY EmptySeq, LenProperties, HeadTailProperties
<1>2. IsFiniteSet(A) /\ Cardinality(A) \in Nat
  BY <1>1, ListensFinite
<1>3. IsFiniteSet(Listens(q)) /\ Cardinality(Listens(q)) \in Nat
  BY ListensFinite
<1>4. shift \in Bijection(A, B)
  <2>1. \A i \in A : i \in Nat /\ i + 1 \in B
    BY <1>1 DEF Listens
  <2>2. \A j \in B : j \in Nat /\ j - 1 \in A /\ (j - 1) + 1 = j
    BY <1>1 DEF Listens
  <2> HIDE DEF A, B
  <2>3. shift \in [A -> B] /\ \A i, j \in A : shift[i] = shift[j] => i = j
    BY <2>1
  <2>4. \A j \in B : \E i \in A : shift[i] = j
    BY <2>2
  <2> QED
    BY <2>3, <2>4 DEF Bijection, Injection, Surjection, IsInjective
<1>5. Cardinality(B) = Cardinality(A)
  <2> HIDE DEF A, B, shift
  <2>1. ExistsBijection(A, B)
    BY <1>4 DEF ExistsBijection
  <2> QED
    BY <1>2, <2>1, FS_Bijection
<1>6. Cardinality(B) = IF 1 \in Listens(q) THEN Cardinality(Listens(q)) - 1 ELSE Cardinality(Listens(q))
  BY <1>3, FS_RemoveElement
<1>7. 1 \in Listens(q) <=> Head(q).kind = "listen"
  BY <1>1 DEF Listens
<1> HIDE DEF A, B
<1>8. CASE Head(q).kind = "listen"
  <2>1. Cardinality(A) = Cardinality(Listens(q)) - 1
    BY ONLY <1>2, <1>3, <1>5, <1>6, <1>7, <1>8, SMT
  <2> QED
    BY <1>8, <2>1 DEF A
<1>9. CASE Head(q).kind # "listen"
  <2>1. Cardinality(A) = Cardinality(Listens(q)) - 0
    BY ONLY <1>2, <1>3, <1>5, <1>6, <1>7, <1>9, SMT
  <2> QED
    BY <1>9, <2>1 DEF A
<1> QED
  BY <1>8, <1>9

\* What the listening socket owes.
Pending == IF listenEvent THEN 1 ELSE 0
Listening == Cardinality(Listens(tasks[Listener]))

LEMMA Counted ==
  ASSUME TypeOK
  PROVE  /\ Len(backlog) \in Nat /\ missed \in Nat /\ Pending \in Nat /\ Listening \in Nat
         /\ BacklogAccounted <=> Len(backlog) = missed + Pending + Listening
<1>1. backlog \in Seq(Conns) /\ missed \in Nat /\ tasks[Listener] \in Seq(RecvTasks[Listener])
  BY Typed, SetupType DEF TypeOK
<1>2. Len(backlog) \in Nat /\ missed \in Nat
  BY <1>1, LenProperties
<1>3. Listening \in Nat
  BY <1>1, ListensFinite DEF Listening
<1> QED
  BY <1>2, <1>3 DEF Pending, Listening, Listens, BacklogAccounted

LEMMA BacklogStep ==
  ASSUME TypeOK, FilesOpen, BacklogAccounted, Next
  PROVE  BacklogAccounted'
<1> USE Typed, SetupType
<1>0. TypeOK' /\ Listener' = Listener /\ Listener \in Workers
  BY TypeStep, Kept DEF Listener
<1>1. /\ Len(backlog)' \in Nat /\ missed' \in Nat /\ Pending' \in Nat /\ Listening' \in Nat
      /\ BacklogAccounted' <=> Len(backlog)' = missed' + Pending' + Listening'
  <2>1. TypeOK => /\ Len(backlog) \in Nat /\ missed \in Nat /\ Pending \in Nat /\ Listening \in Nat
                  /\ BacklogAccounted <=> Len(backlog) = missed + Pending + Listening
    BY Counted
  <2>2. (TypeOK => /\ Len(backlog) \in Nat /\ missed \in Nat /\ Pending \in Nat /\ Listening \in Nat
                   /\ BacklogAccounted <=> Len(backlog) = missed + Pending + Listening)'
    BY Counted, PTL
  <2> QED
    BY <1>0, <2>2
<1>2. /\ Len(backlog) \in Nat /\ missed \in Nat /\ Pending \in Nat /\ Listening \in Nat
      /\ Len(backlog) = missed + Pending + Listening
  BY Counted
<1>14. Len(backlog)' \in Nat /\ missed' \in Nat /\ Pending' \in Nat /\ Listening' \in Nat
  BY <1>1
<1>3. backlog \in Seq(Conns)
  BY DEF TypeOK
<1> DEFINE Changes(b, m, p, l) ==
      Len(backlog)' = Len(backlog) + b /\ missed' = missed + m /\ Pending' = Pending + p /\ Listening' = Listening + l
<1>4. ASSUME NEW b \in Int, NEW m \in Int, NEW p \in Int, NEW l \in Int, b = m + p + l, Changes(b, m, p, l)
      PROVE  BacklogAccounted'
  BY <1>1, <1>2, <1>4
<1> HIDE DEF Changes
\* What happens to the tasks.
<1>5. ASSUME NEW w \in Workers, NEW t \in RecvTasks[w], tasks' = Add(tasks, w, t), t.kind = "listen" => w = Listener
      PROVE  Listening' = Listening + (IF t.kind = "listen" THEN 1 ELSE 0)
  <2>0. \A u \in Workers : Add(tasks, w, t)[u] = IF u = w THEN Append(tasks[w], t) ELSE tasks[u]
    BY DEF Add, PerWorker
  <2>1. tasks'[Listener] = IF w = Listener THEN Append(tasks[w], t) ELSE tasks[Listener]
    BY <1>0, <1>5, <2>0
  <2>2. CASE w = Listener
    <3>1. tasks[w] \in Seq(RecvTasks[w])
      OBVIOUS
    <3> QED
      BY <1>0, <2>1, <2>2, <3>1, ListensAdd DEF Listening
  <2>3. CASE w # Listener
    BY <1>0, <1>2, <1>5, <2>1, <2>3 DEF Listening
  <2> QED
    BY <2>2, <2>3
<1>6. ASSUME NEW w \in Workers, tasks[w] # <<>>, tasks' = Rest(tasks, w), Head(tasks[w]).kind = "listen" => w = Listener
      PROVE  Listening' = Listening - (IF Head(tasks[w]).kind = "listen" THEN 1 ELSE 0)
  <2>0. PerWorker(tasks) /\ \A u \in Workers : tasks[u] \in Seq(RecvTasks[u])
    OBVIOUS
  <2>4. \A u \in Workers : Rest(tasks, w)[u] = IF u = w THEN Tail(tasks[w]) ELSE tasks[u]
    BY ONLY <1>6, <2>0, QueueRest
  <2>1. tasks'[Listener] = IF w = Listener THEN Tail(tasks[w]) ELSE tasks[Listener]
    BY <1>0, <1>6, <2>4
  <2>2. CASE w = Listener
    <3>1. tasks[w] \in Seq(RecvTasks[w])
      OBVIOUS
    <3> QED
      BY <1>0, <1>6, <2>1, <2>2, <3>1, ListensRest DEF Listening
  <2>3. CASE w # Listener
    BY <1>0, <1>2, <1>6, <2>1, <2>3 DEF Listening
  <2> QED
    BY <2>2, <2>3
<1>7. ASSUME UNCHANGED <<backlog, missed, listenEvent, tasks>>
      PROVE  BacklogAccounted'
  <2>1. Changes(0, 0, 0, 0)
    BY <1>0, <1>2, <1>7 DEF Changes, Pending, Listening
  <2> QED
    BY ONLY <1>4, <2>1
<1>8. ASSUME NEW c \in Conns, Connect(c) \/ PeerSend(c) \/ PeerClose(c)
      PROVE  BacklogAccounted'
  <2>1. CASE PeerSend(c) \/ PeerClose(c)
    BY <1>7, <2>1 DEF PeerSend, PeerClose
  <2>2. CASE Connect(c)
    <3>1. /\ backlog' = Append(backlog, c) /\ listenEvent' = TRUE /\ UNCHANGED tasks
          /\ missed' = IF listenEvent THEN missed + 1 ELSE missed
      BY <2>2 DEF Connect
    <3>2. Len(backlog)' = Len(backlog) + 1
      BY <1>3, <3>1, AppendProperties
    <3>3. Listening' = Listening
      BY <1>0, <3>1 DEF Listening
    <3>4. CASE listenEvent
      <4>1. missed' = missed + 1 /\ Pending' = Pending
        BY <3>1, <3>4 DEF Pending
      <4>2. Changes(1, 1, 0, 0)
        BY <1>2, <3>2, <3>3, <4>1 DEF Changes
      <4> QED
        BY ONLY <1>4, <4>2
    <3>5. CASE ~ listenEvent
      <4>1. missed' = missed /\ Pending = 0 /\ Pending' = 1
        BY <3>1, <3>5 DEF Pending
      <4>2. Changes(1, 0, 1, 0)
        BY <1>2, <3>2, <3>3, <4>1 DEF Changes
      <4> QED
        BY ONLY <1>4, <4>2
    <3> QED
      BY <3>4, <3>5
  <2> QED
    BY <1>8, <2>1, <2>2
<1>9. CASE EpollListen
  <2> DEFINE t == [kind |-> "listen"]
  <2>1. t \in RecvTasks[Listener] /\ t.kind = "listen"
    BY <1>0 DEF RecvTasks, RecvTask
  <2>2. listenEvent /\ listenEvent' = FALSE /\ tasks' = Add(tasks, Listener, t) /\ UNCHANGED <<backlog, missed>>
    BY <1>9 DEF EpollListen
  <2> HIDE DEF t
  <2>3. Listening' = Listening + 1
    BY <1>0, <1>5, <2>1, <2>2
  <2>4. Changes(0, 0, -1, 1)
    BY <1>2, <2>2, <2>3 DEF Changes, Pending
  <2> QED
    BY ONLY <1>4, <2>4
<1>10. ASSUME NEW fd \in Fds, EpollWait(fd)
       PROVE  BacklogAccounted'
  <2>1. PICK kind \in {"in", "out"} : tasks' = Add(tasks, WorkerOf(fd), [kind |-> kind, fd |-> fd])
    BY <1>10 DEF EpollWait
  <2> DEFINE t == [kind |-> kind, fd |-> fd]
  <2>2. t \in RecvTasks[WorkerOf(fd)] /\ t.kind # "listen" /\ WorkerOf(fd) \in Workers
    BY WorkerOfType DEF RecvTasks, RecvTask
  <2> HIDE DEF t
  <2>3. Listening' = Listening + 0
    BY <1>5, <2>1, <2>2 DEF t
  <2>4. UNCHANGED <<backlog, missed, listenEvent>>
    BY <1>10 DEF EpollWait, peers
  <2>5. Pending' = Pending /\ Len(backlog)' = Len(backlog)
    BY <2>4 DEF Pending
  <2>6. Changes(0, 0, 0, 0)
    BY <1>2, <2>3, <2>4, <2>5 DEF Changes
  <2> QED
    BY ONLY <1>4, <2>6
<1>11. ASSUME NEW w \in Workers, RecvWorker(w)
       PROVE  BacklogAccounted'
  <2>1. CASE Accept(w)
    <3>1. tasks[w] # <<>> /\ Head(tasks[w]).kind = "listen" /\ tasks' = Rest(tasks, w) /\ UNCHANGED listenEvent
      BY <2>1 DEF Accept, HasTask
    <3>2. w = Listener
      <4>1. Head(tasks[w]) \in RecvTasks[w]
        BY <3>1, HeadTailProperties
      <4> QED
        BY <3>1, <4>1 DEF RecvTasks, RecvTask
    <3>3. Listening' = Listening - 1
      BY <1>6, <3>1, <3>2
    <3>6. Pending' = Pending
      BY <3>1 DEF Pending
    <3>4. CASE Accepted(w)
      <4>1. backlog' = Tail(backlog) /\ UNCHANGED missed
        BY <3>4, AcceptDoes
      <4>2. Len(backlog)' = Len(backlog) - 1
        BY <1>3, <3>4, <4>1, HeadTailProperties DEF Accepted
      <4>3. Changes(-1, 0, 0, -1)
        <5>1. Listening' = Listening + (-1)
          BY ONLY <1>14, <1>2, <3>3
        <5>2. Pending' = Pending + 0 /\ missed' = missed + 0 /\ Len(backlog)' = Len(backlog) + (-1)
          BY ONLY <1>14, <1>2, <3>6, <4>1, <4>2
        <5> QED
          BY <5>1, <5>2 DEF Changes
      <4> QED
        BY ONLY <1>4, <4>3
    <3>5. CASE ~ Accepted(w)
      <4>1. missed' = missed + 1 /\ UNCHANGED backlog
        BY <2>1, <3>5 DEF Accept, Accepted
      <4>2. Changes(0, 1, 0, -1)
        <5>1. Listening' = Listening + (-1)
          BY ONLY <1>14, <1>2, <3>3
        <5>2. Pending' = Pending + 0 /\ Len(backlog)' = Len(backlog) + 0
          BY ONLY <1>14, <1>2, <3>6, <4>1
        <5> QED
          BY <4>1, <5>1, <5>2 DEF Changes
      <4> QED
        BY ONLY <1>4, <4>2
    <3> QED
      BY <3>4, <3>5
  <2>2. CASE RecvOut(w) \/ RecvIn(w)
    <3>1. tasks[w] # <<>> /\ Head(tasks[w]).kind # "listen" /\ tasks' = Rest(tasks, w)
          /\ UNCHANGED <<listenEvent, missed, backlog>>
      BY <2>2 DEF RecvOut, RecvIn, HasTask, peers
    <3>2. Listening' = Listening - 0
      BY <1>6, <3>1
    <3>4. Pending' = Pending
      BY <3>1 DEF Pending
    <3>3. Changes(0, 0, 0, 0)
      <4>1. Listening' = Listening + 0
        BY ONLY <1>14, <1>2, <3>2
      <4>2. Pending' = Pending + 0 /\ missed' = missed + 0 /\ Len(backlog)' = Len(backlog) + 0
        BY ONLY <1>14, <1>2, <3>1, <3>4
      <4> QED
        BY <4>1, <4>2 DEF Changes
    <3> QED
      BY ONLY <1>4, <3>3
  <2>3. CASE AddToEpoll(w) \/ InsertSocket(w) \/ AddClient(w) \/ ReadData(w) \/ RestructFrame(w)
             \/ ReadNothing(w) \/ ReadEnd(w) \/ EndQuit(w) \/ EndRemove(w)
    BY <1>7, <2>3 DEF AddToEpoll, InsertSocket, AddClient, ReadData, RestructFrame, ReadNothing, ReadEnd,
                      EndQuit, EndRemove, peers
  <2> QED
    BY <1>11, <2>1, <2>2, <2>3 DEF RecvWorker
<1>12. ASSUME NEW w \in Workers, FrameWorker(w)
       PROVE  BacklogAccounted'
  BY <1>7, <1>12 DEF FrameWorker, Login, KickQuit, KickClose, ResetCameraId, Picture, Seek, Walk, SendFind, SendPush, peers
<1>13. ASSUME NEW w \in Workers, SendWorker(w)
       PROVE  BacklogAccounted'
  BY <1>7, <1>13 DEF SendWorker, SendTake, SendChain, peers
<1> QED
  BY <1>8, <1>9, <1>10, <1>11, <1>12, <1>13 DEF Next, Peers, Server, EpollThread

-----------------------------------------------------------------------------
(* The theorems                                                             *)

LEMMA EntriesInit ==
  ASSUME Init
  PROVE  Entries
<1>1. TypeOK
  BY TypeInit
<1>2. /\ \A w \in Workers : recv[w].at = "idle"
      /\ \A f \in Fds : file[f] = None /\ m_SocketInfo[f] = None /\ ClientMap[f] = None
      /\ backlog = <<>> /\ DOMAIN backlog = {}
  BY EmptySeq, LenProperties DEF Init, Idle
<1>3. FilesOpen /\ EntriesOwn
  BY <1>2 DEF FilesOpen, EntriesOwn
<1>4. EntryStays /\ ReadFromOld /\ LeftoversExplained /\ ReaderHasClient
  BY <1>2, WorkerOfType DEF EntryStays, ReadFromOld, LeftoversExplained, ReaderHasClient, Removing
<1>5. BacklogAccounted
  <2>1. Pending = 0 /\ missed = 0 /\ Len(backlog) = 0
    BY EmptySeq DEF Pending, Init
  <2>2. Listening = 0
    <3>1. tasks[Listener] = <<>>
      BY <1>1, SetupType DEF Init, TypeOK
    <3>2. Listens(tasks[Listener]) = {}
      BY <3>1 DEF Listens
    <3> QED
      BY <3>2, FS_EmptySet DEF Listening
  <2> QED
    BY <1>1, <2>1, <2>2, Counted
<1> QED
  BY <1>1, <1>3, <1>4, <1>5 DEF Entries

LEMMA EntriesStep ==
  ASSUME Entries, [Next]_vars
  PROVE  Entries'
<1>1. CASE Next
  BY <1>1, TypeStep, FilesOpenStep, EntriesOwnStep, EntryStaysStep, ReadFromOldStep, BacklogStep, LeftoversStep,
     ReaderStep DEF Entries
<1>2. CASE UNCHANGED vars
  <2>1. UNCHANGED <<setup, conn, sent, got, gone, backlog, listenEvent, missed, file, watched, ready, tasks, recv>>
        /\ UNCHANGED <<m_SocketInfo, ClientMap, client, changes, frames, proc, chain, sendTasks, send, inbox, kicked, due>>
    BY <1>2 DEF vars, peers, kernel, maps, sending, past
  <2>2. TypeOK'
    <3>1. Setups' = Setups /\ (\A c : Script(c)' = Script(c)) /\ Listener' = Listener
      BY <2>1 DEF Script, Listener
    <3>2. WorkersTypeOK'
      <4>1. WorkersTypeOK
        BY DEF Entries, TypeOK
      <4>2. \A w \in Workers : RecvTask(w)' = RecvTask(w)
        BY <3>1 DEF RecvTask
      <4>3. \A w \in Workers : RecvPlace(recv[w], w) => RecvPlace(recv[w], w)'
        BY <2>1, <3>1 DEF RecvPlace
      <4>4. \A w \in Workers : ProcPlace(proc[w], w) => ProcPlace(proc[w], w)'
        BY <2>1 DEF ProcPlace, Walking, Sending
      <4>5. \A w \in Workers : SendPlace(send[w], w) => SendPlace(send[w], w)'
        BY <2>1 DEF SendPlace
      <4> QED
        BY <2>1, <4>1, <4>2, <4>3, <4>4, <4>5 DEF WorkersTypeOK, PerWorker
    <3> QED
      BY SMTT(30), <2>1, <3>1, <3>2 DEF Entries, TypeOK
  <2>3. FilesOpen' /\ EntriesOwn' /\ ReadFromOld' /\ ReaderHasClient'
    BY <2>1 DEF Entries, FilesOpen, EntriesOwn, ReadFromOld, ReaderHasClient, WorkerOf
  <2>4. EntryStays' /\ LeftoversExplained' /\ BacklogAccounted'
    BY <2>1 DEF Entries, EntryStays, LeftoversExplained, BacklogAccounted, Removing, WorkerOf, Listener
  <2> QED
    BY <2>2, <2>3, <2>4 DEF Entries
<1> QED
  BY <1>1, <1>2

\* Entries always holds, for any number of connections, descriptors and workers, and
\* whatever the peers send (EpollServer.cpp, RecvDataProc.cpp).
THEOREM EntriesHold == Spec => []Entries
<1>1. Init => Entries
  BY EntriesInit
<1>2. Entries /\ [Next]_vars => Entries'
  BY EntriesStep
<1> QED
  BY <1>1, <1>2, PTL DEF Spec

\* The listening socket is edge-triggered and one connection is accepted for an event:
\* what waits is always the events there are and those that were missed
\* (EpollServer.cpp:37).
THEOREM BacklogIsAccounted == Spec => []BacklogAccounted
<1>1. Entries => BacklogAccounted
  BY DEF Entries
<1> QED
  BY <1>1, EntriesHold, PTL

\* An entry of m_SocketInfo without its connection has one of the three explanations
\* (RecvDataProc.cpp:211).
THEOREM LeftoversAreExplained == Spec => []LeftoversExplained
<1>1. Entries => LeftoversExplained
  BY DEF Entries
<1> QED
  BY <1>1, EntriesHold, PTL

\* The ClientInfo that RestructFrame uses without the lock is still the descriptor's, but
\* for a bad login (RecvDataProc.cpp:116).
THEOREM ReaderKeepsClient == Spec => []ReaderHasClient
<1>1. Entries => ReaderHasClient
  BY DEF Entries
<1> QED
  BY <1>1, EntriesHold, PTL

\* RemoveSocket, which comes after close, removes the entry of a connection that has
\* ended, unless there was none and another worker accepts (EpollServer.cpp:109).
THEOREM RemovesItsOwn == Spec => []RemovesOwn
<1>1. ASSUME Entries
      PROVE  RemovesOwn
  <2> SUFFICES ASSUME NEW f \in Fds, Removing(f), m_SocketInfo[f] # None,
                      ~ (recv[WorkerOf(f)].of = None /\ WorkerOf(f) # Listener)
               PROVE  conn[m_SocketInfo[f]] = "closed"
    BY DEF RemovesOwn
  <2> QED
    BY <1>1 DEF Entries, EntryStays
<1> QED
  BY <1>1, EntriesHold, PTL
=============================================================================
