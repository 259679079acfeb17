------------------------- MODULE ConnectionRestProofs -------------------------
(***************************************************************************)
(* Inv of Connection, which goes on from Entries, is inductive too, and     *)
(* implies what holds at rest: logins are answered, connections that ended  *)
(* are released, pictures that are due have come.                           *)
(***************************************************************************)
EXTENDS ConnectionProofs

USE ConnectionAssumption

-----------------------------------------------------------------------------
(* Lemmas about the operators                                               *)

\* The members of a sequence as one is added or taken, and of two in a row.
LEMMA MembersAppend ==
  ASSUME NEW T, NEW q \in Seq(T), NEW t \in T
  PROVE  ToSet(Append(q, t)) = ToSet(q) \cup {t}
<1>1. /\ DOMAIN q = 1 .. Len(q) /\ Len(q) \in Nat
      /\ DOMAIN Append(q, t) = 1 .. Len(q) + 1
      /\ \A i \in 1 .. Len(q) : Append(q, t)[i] = q[i]
      /\ Append(q, t)[Len(q) + 1] = t
  BY LenProperties, AppendProperties
<1>2. 1 .. Len(q) + 1 = (1 .. Len(q)) \cup {Len(q) + 1}
  BY <1>1
<1> QED
  BY <1>1, <1>2 DEF ToSet

LEMMA MembersRest ==
  ASSUME NEW T, NEW q \in Seq(T), q # <<>>
  PROVE  ToSet(q) = {Head(q)} \cup ToSet(Tail(q))
<1>1. /\ DOMAIN q = 1 .. Len(q) /\ Len(q) \in Nat \ {0} /\ Head(q) = q[1]
      /\ DOMAIN Tail(q) = 1 .. Len(q) - 1 /\ \A i \in 1 .. Len(q) - 1 : Tail(q)[i] = q[i + 1]
  BY LenProperties, HeadTailProperties, EmptySeq
<1>2. ASSUME NEW x \in ToSet(q)
      PROVE  x \in {Head(q)} \cup ToSet(Tail(q))
  <2>1. PICK i \in 1 .. Len(q) : x = q[i]
    BY <1>1, <1>2 DEF ToSet
  <2>2. CASE i = 1
    BY <1>1, <2>1, <2>2
  <2>3. CASE i # 1
    <3>1. i - 1 \in 1 .. Len(q) - 1 /\ (i - 1) + 1 = i
      BY <1>1, <2>3
    <3>2. x = Tail(q)[i - 1]
      BY <1>1, <2>1, <3>1
    <3> QED
      BY <1>1, <3>1, <3>2 DEF ToSet
  <2> QED
    BY <2>2, <2>3
<1>3. ASSUME NEW x \in ToSet(Tail(q))
      PROVE  x \in ToSet(q)
  <2>1. PICK i \in 1 .. Len(q) - 1 : x = Tail(q)[i]
    BY <1>1, <1>3 DEF ToSet
  <2>2. i + 1 \in 1 .. Len(q) /\ x = q[i + 1]
    BY <1>1, <2>1
  <2> QED
    BY <1>1, <2>2 DEF ToSet
<1>4. Head(q) \in ToSet(q)
  <2>1. 1 \in 1 .. Len(q)
    BY <1>1
  <2> QED
    BY <1>1, <2>1 DEF ToSet
<1> QED
  BY <1>2, <1>3, <1>4

LEMMA MembersConcat ==
  ASSUME NEW T, NEW q \in Seq(T), NEW r \in Seq(T)
  PROVE  ToSet(q) \subseteq ToSet(q \o r) /\ ToSet(r) \subseteq ToSet(q \o r)
<1>1. /\ DOMAIN q = 1 .. Len(q) /\ Len(q) \in Nat /\ DOMAIN r = 1 .. Len(r) /\ Len(r) \in Nat
      /\ DOMAIN (q \o r) = 1 .. Len(q) + Len(r)
      /\ \A i \in 1 .. Len(q) + Len(r) : (q \o r)[i] = IF i <= Len(q) THEN q[i] ELSE r[i - Len(q)]
  BY LenProperties, ConcatProperties
<1>2. ASSUME NEW x \in ToSet(q)
      PROVE  x \in ToSet(q \o r)
  <2>1. PICK i \in 1 .. Len(q) : x = q[i]
    BY <1>1, <1>2 DEF ToSet
  <2>2. i \in 1 .. Len(q) + Len(r) /\ i <= Len(q)
    BY <1>1
  <2>3. x = (q \o r)[i]
    BY <1>1, <2>1, <2>2
  <2> QED
    BY <1>1, <2>2, <2>3 DEF ToSet
<1>3. ASSUME NEW x \in ToSet(r)
      PROVE  x \in ToSet(q \o r)
  <2>1. PICK i \in 1 .. Len(r) : x = r[i]
    BY <1>1, <1>3 DEF ToSet
  <2>2. /\ Len(q) + i \in 1 .. Len(q) + Len(r) /\ ~ (Len(q) + i <= Len(q))
        /\ (Len(q) + i) - Len(q) = i
    BY <1>1
  <2>3. x = (q \o r)[Len(q) + i]
    BY <1>1, <2>1, <2>2
  <2> QED
    BY <1>1, <2>2, <2>3 DEF ToSet
<1> QED
  BY <1>2, <1>3

\* A part of a sequence has the members of the part.
LEMMA MembersPart ==
  ASSUME NEW T, NEW q \in Seq(T), NEW m \in Nat, NEW n \in Nat, n <= Len(q), NEW i \in m + 1 .. n
  PROVE  q[i] \in ToSet(SubSeq(q, m + 1, n))
<1>1. \A j \in m + 1 .. n : j \in 1 .. Len(q)
  BY LenProperties
<1>2. /\ SubSeq(q, m + 1, n) \in Seq(T)
      /\ Len(SubSeq(q, m + 1, n)) = n - (m + 1) + 1
      /\ \A j \in 1 .. n - (m + 1) + 1 : SubSeq(q, m + 1, n)[j] = q[(m + 1) + j - 1]
  BY <1>1, SubSeqProperties
<1>3. i - m \in 1 .. n - (m + 1) + 1 /\ (m + 1) + (i - m) - 1 = i
  OBVIOUS
<1>4. SubSeq(q, m + 1, n)[i - m] = q[i]
  BY <1>2, <1>3
<1>5. DOMAIN SubSeq(q, m + 1, n) = 1 .. n - (m + 1) + 1
  BY <1>2, LenProperties
<1> QED
  BY <1>3, <1>4, <1>5 DEF ToSet

-----------------------------------------------------------------------------
(* What one step can change, continued                                      *)

\* A worker's place changes by its own step.
LEMMA RecvOwn ==
  ASSUME TypeOK, Next, NEW w \in Workers
  PROVE  recv'[w] = recv[w] \/ RecvWorker(w)
<1>1. CASE Peers \/ EpollThread
  BY <1>1 DEF Peers, Connect, PeerSend, PeerClose, EpollThread, EpollListen, EpollWait
<1>2. ASSUME NEW u \in Workers, FrameWorker(u) \/ SendWorker(u)
      PROVE  UNCHANGED recv
  BY <1>2 DEF FrameWorker, Login, KickQuit, KickClose, ResetCameraId, Picture, Seek, Walk, SendFind, SendPush,
              SendWorker, SendTake, SendChain
<1>3. ASSUME NEW u \in Workers, RecvWorker(u), u # w
      PROVE  recv'[w] = recv[w]
  <2>1. UNCHANGED recv \/ \E p : RecvGoto(u, p)
    BY <1>3 DEF RecvWorker, Accept, AddToEpoll, InsertSocket, AddClient, RecvOut, RecvIn, ReadData,
                RestructFrame, ReadNothing, ReadEnd, EndQuit, EndRemove
  <2>2. ASSUME NEW p, RecvGoto(u, p)
        PROVE  recv'[w] = recv[w]
    BY <1>3, <2>2, RecvGoes
  <2> QED
    BY <2>1, <2>2
<1> QED
  BY <1>1, <1>2, <1>3 DEF Next, Server

LEMMA ProcOwn ==
  ASSUME TypeOK, Next, NEW w \in Workers
  PROVE  proc'[w] = proc[w] \/ FrameWorker(w)
<1>1. CASE Peers \/ EpollThread
  BY <1>1 DEF Peers, Connect, PeerSend, PeerClose, EpollThread, EpollListen, EpollWait
<1>2. ASSUME NEW u \in Workers, RecvWorker(u) \/ SendWorker(u)
      PROVE  UNCHANGED proc
  BY <1>2 DEF RecvWorker, Accept, AddToEpoll, InsertSocket, AddClient, RecvOut, RecvIn, ReadData, RestructFrame,
              ReadNothing, ReadEnd, EndQuit, EndRemove, SendWorker, SendTake, SendChain
<1>3. ASSUME NEW u \in Workers, FrameWorker(u), u # w
      PROVE  proc'[w] = proc[w]
  <2>1. UNCHANGED proc \/ \E p : ProcGoto(u, p)
    BY <1>3 DEF FrameWorker, Login, KickQuit, KickClose, ResetCameraId, Picture, Seek, Walk, SendFind, SendPush
  <2>2. ASSUME NEW p, ProcGoto(u, p)
        PROVE  proc'[w] = proc[w]
    BY <1>3, <2>2, ProcGoes
  <2> QED
    BY <2>1, <2>2
<1> QED
  BY <1>1, <1>2, <1>3 DEF Next, Server

LEMMA SendOwn ==
  ASSUME TypeOK, Next, NEW w \in Workers
  PROVE  send'[w] = send[w] \/ SendWorker(w)
<1> USE Typed
<1>1. CASE Peers \/ EpollThread
  BY <1>1 DEF Peers, Connect, PeerSend, PeerClose, EpollThread, EpollListen, EpollWait, sending
<1>2. ASSUME NEW u \in Workers, RecvWorker(u) \/ FrameWorker(u)
      PROVE  UNCHANGED send
  BY <1>2 DEF RecvWorker, Accept, AddToEpoll, InsertSocket, AddClient, RecvOut, RecvIn, ReadData, RestructFrame,
              ReadNothing, ReadEnd, EndQuit, EndRemove, FrameWorker, Login, KickQuit, KickClose, ResetCameraId,
              Picture, Seek, Walk, SendFind, SendPush, sending
<1>3. ASSUME NEW u \in Workers, SendWorker(u), u # w
      PROVE  send'[w] = send[w]
  <2>1. UNCHANGED send \/ \E p : send' = [send EXCEPT ![u] = p]
    BY <1>3 DEF SendWorker, SendTake, SendChain
  <2>2. ASSUME NEW p, send' = [send EXCEPT ![u] = p]
        PROVE  send'[w] = send[w]
    BY <1>3, <2>2, OneAssigned
  <2> QED
    BY <2>1, <2>2
<1> QED
  BY <1>1, <1>2, <1>3 DEF Next, Server

\* What the accepting worker does with a connection it adds.
LEMMA AddingMoves ==
  ASSUME TypeOK, Next, NEW w \in Workers, recv[w].at \in {"add", "insert", "client"}
  PROVE  LET p == recv[w]
         IN \/ recv'[w] = p
            \/ p.at = "add" /\ recv'[w] = Idle /\ file[p.fd] = None
            \/ /\ p.at = "add" /\ recv'[w] = [at |-> "insert", fd |-> p.fd, of |-> p.of]
               /\ file[p.fd] \in watched' /\ file[p.fd] \in ready'
            \/ /\ p.at = "insert" /\ recv'[w] = [at |-> "client", fd |-> p.fd, of |-> p.of]
               /\ m_SocketInfo'[p.fd] # None
            \/ p.at = "client" /\ recv'[w] = Idle /\ ClientMap'[p.fd] # None
<1> USE Typed
<1> DEFINE p == recv[w]
<1>1. p.fd \in Fds /\ p.of \in Conns
  BY RecvThere
<1>2. recv'[w] = p \/ AddToEpoll(w) \/ InsertSocket(w) \/ AddClient(w)
  BY RecvOwn DEF RecvWorker, Accept, RecvOut, RecvIn, ReadData, RestructFrame, ReadNothing, ReadEnd, EndQuit, EndRemove,
                 HasTask, RecvAt
<1>3. ASSUME NEW q, RecvGoto(w, q)
      PROVE  recv'[w] = q
  BY <1>3, RecvGoes
<1>4. CASE AddToEpoll(w)
  <2>1. /\ p.at = "add" /\ watched' = watched \cup ({file[p.fd]} \ {None})
        /\ ready' = ready \cup ({file[p.fd]} \ {None})
        /\ RecvGoto(w, IF file[p.fd] = None THEN Idle ELSE [at |-> "insert", fd |-> p.fd, of |-> p.of])
    BY <1>4 DEF AddToEpoll, RecvAt
  <2> QED
    BY <1>3, <2>1
<1>5. CASE InsertSocket(w)
  <2>1. /\ p.at = "insert" /\ RecvGoto(w, [at |-> "client", fd |-> p.fd, of |-> p.of])
        /\ m_SocketInfo' = Enter(m_SocketInfo, p.fd, p.of)
    BY <1>5 DEF InsertSocket, RecvAt
  <2>2. m_SocketInfo'[p.fd] = IF m_SocketInfo[p.fd] = None THEN p.of ELSE m_SocketInfo[p.fd]
    BY <1>1, <2>1 DEF Enter
  <2>3. m_SocketInfo'[p.fd] # None
    BY <1>1, <2>2
  <2> QED
    BY <1>3, <2>1, <2>3
<1>6. CASE AddClient(w)
  <2>1. p.at = "client" /\ RecvGoto(w, Idle) /\ ClientMap' = Enter(ClientMap, p.fd, p.of)
    BY <1>6 DEF AddClient, RecvAt
  <2>2. ClientMap'[p.fd] = IF ClientMap[p.fd] = None THEN p.of ELSE ClientMap[p.fd]
    BY <1>1, <2>1 DEF Enter
  <2>3. ClientMap'[p.fd] # None
    BY <1>1, <2>2
  <2> QED
    BY <1>3, <2>1, <2>3
<1> QED
  BY <1>2, <1>4, <1>5, <1>6

\* A worker that removes a client, and then its socket.
LEMMA QuitMoves ==
  ASSUME TypeOK, Next, NEW w \in Workers, recv[w].at = "quit"
  PROVE  recv'[w] = recv[w] \/ ClientMap'[recv[w].fd] = None
<1> USE Typed
<1>1. recv'[w] = recv[w] \/ EndQuit(w)
  BY RecvOwn DEF RecvWorker, Accept, AddToEpoll, InsertSocket, AddClient, RecvOut, RecvIn, ReadData, RestructFrame,
                 ReadNothing, ReadEnd, EndRemove, HasTask, RecvAt
<1>2. recv[w].fd \in Fds
  BY RecvThere, OwnType
<1> QED
  BY <1>1, <1>2 DEF EndQuit

\* Frames are read of the connection that a reading worker's descriptor has.
LEMMA GotMoves ==
  ASSUME TypeOK, Next, NEW c \in Conns
  PROVE  got'[c] = got[c] \/ \E w \in Workers : ReadData(w) /\ file[recv[w].fd] = c
<1>0. got \in [Conns -> Nat]
  BY DEF TypeOK
<1>1. CASE Peers \/ EpollThread
  BY <1>1 DEF Peers, Connect, PeerSend, PeerClose, EpollThread, EpollListen, EpollWait, kernel
<1>2. ASSUME NEW u \in Workers, RecvWorker(u), ~ ReadData(u)
      PROVE  UNCHANGED got
  BY <1>2 DEF RecvWorker, Accept, AddToEpoll, InsertSocket, AddClient, RecvOut, RecvIn, RestructFrame,
              ReadNothing, ReadEnd, Close, EndQuit, EndRemove, kernel
<1>3. ASSUME NEW u \in Workers, ReadData(u), file[recv[u].fd] # c
      PROVE  got'[c] = got[c]
  BY <1>0, <1>3 DEF ReadData
<1>4. ASSUME NEW u \in Workers, FrameWorker(u) \/ SendWorker(u)
      PROVE  UNCHANGED got
  BY <1>4 DEF FrameWorker, Login, KickQuit, KickClose, Close, ResetCameraId, Picture, Seek, Walk, SendFind, SendPush,
              SendWorker, SendTake, SendChain, kernel
<1> QED
  BY <1>1, <1>2, <1>3, <1>4 DEF Next, Server

\* A connection of the backlog gets a descriptor, and the accepting worker adds it.
LEMMA OpenMoves ==
  ASSUME TypeOK, FilesOpen, Next
  PROVE  /\ \A c \in Conns : conn[c] = "backlog" /\ conn'[c] = "open" => \E f \in Fds : file'[f] = c
         /\ \A f \in Fds : file[f] = None /\ file'[f] # None =>
              recv'[Listener].at = "add" /\ recv'[Listener].fd = f /\ recv'[Listener].of = file'[f]
         /\ \A w \in Workers : recv'[w].at = "add" /\ recv'[w] # recv[w] => conn[recv'[w].of] = "backlog"
<1> USE Typed
<1> DEFINE G == /\ \A c \in Conns : conn[c] = "backlog" /\ conn'[c] = "open" => \E f \in Fds : file'[f] = c
                /\ \A f \in Fds : file[f] = None /\ file'[f] # None =>
                     recv'[Listener].at = "add" /\ recv'[Listener].fd = f /\ recv'[Listener].of = file'[f]
<1>1. ASSUME UNCHANGED <<conn, file, backlog>>
      PROVE  G
  BY <1>1
<1>2. ASSUME NEW d \in Conns, Connect(d)
      PROVE  G
  BY <1>2 DEF Connect
<1>3. ASSUME NEW w \in Workers, Accepted(w)
      PROVE  G
  <2>1. PICK d \in Conns, fd \in Fds :
          /\ w = Listener
          /\ conn' = [conn EXCEPT ![d] = "open"] /\ file' = [file EXCEPT ![fd] = d]
          /\ RecvGoto(w, [at |-> "add", fd |-> fd, of |-> d])
    BY <1>3, AcceptDoes
  <2>2. recv'[w].at = "add" /\ recv'[w].fd = fd /\ recv'[w].of = d
    <3>1. recv'[w] = [at |-> "add", fd |-> fd, of |-> d]
      BY <2>1, RecvGoes
    <3> QED
      BY <3>1
  <2>3. /\ conn'[d] = "open" /\ \A c \in Conns : c # d => conn'[c] = conn[c]
        /\ file'[fd] = d /\ \A f \in Fds : f # fd => file'[f] = file[f]
    BY <2>1
  <2>4. \A c \in Conns : conn[c] = "backlog" /\ conn'[c] = "open" => \E f \in Fds : file'[f] = c
    BY <2>3
  <2> QED
    BY <2>1, <2>2, <2>3, <2>4
<1>4. ASSUME NEW w \in Workers, ReadEnd(w) \/ KickClose(w)
      PROVE  G
  <2>1. PICK fd \in Fds : Close(fd)
    BY <1>4, Closes
  <2>2. file' = [file EXCEPT ![fd] = None]
        /\ \A c \in Conns : conn'[c] = IF c = file[fd] THEN "closed" ELSE conn[c]
    BY <2>1, CloseDoes
  <2> QED
    BY <2>2
<1>5. G
  BY <1>1, <1>2, <1>3, <1>4, KernelSteps
<1>6. ASSUME NEW w \in Workers, recv'[w].at = "add", recv'[w] # recv[w]
      PROVE  conn[recv'[w].of] = "backlog"
  <2>1. recv[w].at = "idle"
    BY <1>6, RecvMoves DEF RecvMove
  <2>2. Accept(w) \/ RecvIn(w)
    BY <1>6, <2>1, RecvOwn DEF RecvWorker, AddToEpoll, InsertSocket, AddClient, RecvOut, ReadData, RestructFrame,
                               ReadNothing, ReadEnd, EndQuit, EndRemove, RecvAt
  <2>3. ~ RecvIn(w)
    <3>1. ASSUME RecvIn(w)
          PROVE  FALSE
      <4>1. recv'[w] = [at |-> "read", fd |-> Head(tasks[w]).fd]
        BY <3>1, RecvGoes DEF RecvIn
      <4> QED
        BY <1>6, <4>1
    <3> QED
      BY <3>1
  <2>4. Accepted(w)
    BY <1>6, <2>2, <2>3 DEF Accept, Accepted
  <2>5. PICK d \in Conns, fd \in Fds : d = Head(backlog) /\ RecvGoto(w, [at |-> "add", fd |-> fd, of |-> d])
    BY <2>4, AcceptDoes
  <2>6. recv'[w] = [at |-> "add", fd |-> fd, of |-> d]
    BY <2>5, RecvGoes
  <2>7. conn[d] = "backlog"
    BY <2>4, <2>5, FirstWaits DEF Accepted
  <2> QED
    BY <2>6, <2>7
<1> HIDE DEF G
<1>7. G => /\ \A c \in Conns : conn[c] = "backlog" /\ conn'[c] = "open" => \E f \in Fds : file'[f] = c
           /\ \A f \in Fds : file[f] = None /\ file'[f] # None =>
                     recv'[Listener].at = "add" /\ recv'[Listener].fd = f /\ recv'[Listener].of = file'[f]
  BY DEF G
<1> QED
  BY <1>5, <1>6, <1>7

LEMMA SendGoes ==
  ASSUME TypeOK, NEW w \in Workers, NEW p, send' = [send EXCEPT ![w] = p]
  PROVE  PerWorker(send') /\ \A u \in Workers : send'[u] = IF u = w THEN p ELSE send[u]
BY Typed DEF PerWorker

\* A send worker has the socket that its descriptor has when it takes the task, a frame
\* worker the socket that it finds.
LEMMA SendMoves ==
  ASSUME TypeOK, Next, NEW w \in Workers, send'[w].at = "send"
  PROVE  /\ send'[w].fd \in Fds /\ send'[w].of \in Conns
         /\ send'[w] = send[w] \/ m_SocketInfo[send'[w].fd] = send'[w].of
<1> USE Typed
<1>1. SendPlace(send'[w], w)
  BY SendType
<1>2. send'[w].fd \in Fds /\ send'[w].of \in Conns
  BY <1>1, OwnType DEF SendPlace
<1>3. send'[w] = send[w] \/ m_SocketInfo[send'[w].fd] = send'[w].of
  <2>1. CASE SendTake(w)
    <3> DEFINE fd == Head(sendTasks[w])
    <3>1. send' = send \/ send' = [send EXCEPT ![w] = [at |-> "send", fd |-> fd, of |-> m_SocketInfo[fd]]]
      BY <2>1 DEF SendTake
    <3>2. send' = send \/ send'[w] = [at |-> "send", fd |-> fd, of |-> m_SocketInfo[fd]]
      BY <3>1, SendGoes
    <3> QED
      BY <3>2
  <2>2. CASE SendChain(w)
    <3>1. send' = [send EXCEPT ![w] = Idle]
      BY <2>2 DEF SendChain
    <3>2. send'[w] = Idle
      BY <3>1 DEF PerWorker
    <3> QED
      BY <3>2 DEF Idle
  <2> QED
    BY <2>1, <2>2, SendOwn DEF SendWorker
<1> QED
  BY <1>2, <1>3

LEMMA PushMoves ==
  ASSUME TypeOK, Next, NEW w \in Workers, proc'[w].at = "push"
  PROVE  /\ proc'[w].to \in Fds /\ proc'[w].of \in Conns
         /\ proc'[w] = proc[w] \/ m_SocketInfo[proc'[w].to] = proc'[w].of
<1> USE Typed
<1>1. ProcPlace(proc'[w], w)
  BY ProcType
<1>2. proc'[w].to \in Fds /\ proc'[w].of \in Conns
  BY <1>1 DEF ProcPlace, Sending, Walking, Idle
<1>3. proc'[w] = proc[w] \/ m_SocketInfo[proc'[w].to] = proc'[w].of
  <2>1. ASSUME NEW q, ProcGoto(w, q)
        PROVE  proc'[w] = q
    BY <2>1, ProcGoes
  <2>2. CASE SendFind(w)
    <3> DEFINE s == m_SocketInfo[proc[w].to]
               q == [at |-> "push", of |-> s, what |-> proc[w].what, to |-> proc[w].to,
                     task |-> proc[w].task, walk |-> AfterSend(w)]
    <3>1. proc'[w] = IF s = None THEN AfterSend(w) ELSE q
      BY <2>1, <2>2 DEF SendFind
    <3>2. AfterSend(w).at # "push"
      BY <2>2, ProcThere DEF AfterSend, SendFind, ProcAt, Sending, Walking, Idle
    <3> QED
      BY <3>1, <3>2
  <2>3. CASE SendPush(w)
    <3>1. proc'[w] = proc[w].walk
      BY <2>1, <2>3 DEF SendPush
    <3>2. proc[w].walk.at # "push"
      BY <2>3, ProcThere DEF SendPush, ProcAt, Sending, Walking, Idle
    <3> QED
      BY <3>1, <3>2
  <2>4. CASE Login(w) \/ KickQuit(w) \/ KickClose(w) \/ ResetCameraId(w) \/ Picture(w)
    <3>1. proc'[w] = proc[w] \/ proc'[w].at \in {"find", "quit", "close", "idle", "seek"}
      <4>1. CASE Login(w)
        BY <2>1, <4>1 DEF Login
      <4>2. CASE KickQuit(w) \/ KickClose(w) \/ ResetCameraId(w)
        BY <2>1, <4>2 DEF KickQuit, KickClose, ResetCameraId, Idle
      <4>3. CASE Picture(w)
        BY <2>1, <4>3 DEF Picture
      <4> QED
        BY <2>4, <4>1, <4>2, <4>3
    <3> QED
      BY <3>1
  <2>5. CASE Walk(w)
    <3> DEFINE there(y) == [proc[w] EXCEPT !.last = y[1], !.on = y[2],
                                           !.backs = IF y[1] > proc[w].last THEN @ ELSE @ + 1]
               find(y) == [at |-> "find", task |-> proc[w].task, what |-> "picture", to |-> y[1], walk |-> there(y)]
    <3>1. ProcGoto(w, Idle) \/ \E y \in NextEntries(w) : ProcGoto(w, IF Watches(y, w) THEN find(y) ELSE there(y))
      BY <2>5 DEF Walk
    <3>2. Walking(proc[w], w)
      BY <2>5, ProcThere DEF Walk, ProcAt
    <3>3. \A y : there(y).at = "walk" /\ find(y).at = "find"
      BY <3>2 DEF Walking
    <3> HIDE DEF there, find
    <3>4. Idle.at = "idle"
      BY DEF Idle
    <3> QED
      BY <2>1, <3>1, <3>3, <3>4
  <2>6. CASE Seek(w)
    <3> DEFINE q(camera) == [at |-> "walk", task |-> proc[w].task, camera |-> camera, last |-> -1, on |-> None, backs |-> 0]
    <3>1. \E camera : ProcGoto(w, Idle) \/ ProcGoto(w, q(camera))
      BY <2>6 DEF Seek
    <3>2. PICK camera : ProcGoto(w, Idle) \/ ProcGoto(w, q(camera))
      BY <3>1
    <3>3. Idle.at = "idle" /\ q(camera).at = "walk"
      BY DEF Idle
    <3> QED
      BY <2>1, <3>2, <3>3
  <2> QED
    BY <2>2, <2>3, <2>4, <2>5, <2>6, ProcOwn DEF FrameWorker
<1> QED
  BY <1>2, <1>3

-----------------------------------------------------------------------------
(* Each part of the invariant is kept                                       *)

\* What has a connection under a descriptor had it there before, unless it was accepted.
LEMMA UnderBefore ==
  ASSUME TypeOK, FilesOpen, Next, NEW c \in Conns, NEW f \in Fds, Under(c, f)'
  PROVE  Under(c, f) \/ (conn[c] = "backlog" /\ conn'[c] = "open" /\ file'[f] = c)
<1> USE Typed, SetupType
<1> DEFINE G == Under(c, f) \/ (conn[c] = "backlog" /\ conn'[c] = "open" /\ file'[f] = c)
<1>1. ASSUME file'[f] = c
      PROVE  G
  BY <1>1, FileMoves DEF FileMove, Under
<1>2. ASSUME m_SocketInfo'[f] = c \/ ClientMap'[f] = c
      PROVE  G
  <2>1. SocketMove(f) /\ ClientMove(f)
    BY MapMoves
  <2>2. \/ c \in {m_SocketInfo[f], ClientMap[f]}
        \/ recv[Listener].at \in {"insert", "client"} /\ recv[Listener].fd = f /\ recv[Listener].of = c
    BY <1>2, <2>1 DEF SocketMove, ClientMove
  <2> QED
    BY <2>2 DEF Under, Adding
<1>3. ASSUME NEW w \in Workers, Adding(w)', recv'[w].fd = f, recv'[w].of = c
      PROVE  G
  <2>1. \/ file'[f] = c
        \/ Adding(w) /\ recv[w].fd = f /\ recv[w].of = c
    BY <1>3, RecvMoves DEF RecvMove, Adding
  <2> QED
    BY <1>1, <2>1 DEF Under
<1>4. ASSUME NEW w \in Workers, send'[w].at = "send", send'[w].fd = f, send'[w].of = c
      PROVE  G
  BY <1>4, SendMoves DEF Under
<1>5. ASSUME NEW w \in Workers, proc'[w].at = "push", proc'[w].to = f, proc'[w].of = c
      PROVE  G
  BY <1>5, PushMoves DEF Under
<1> HIDE DEF G
<1>6. G
  BY <1>1, <1>2, <1>3, <1>4, <1>5 DEF Under
<1> QED
  BY <1>6 DEF G

LEMMA OneDescriptorStep ==
  ASSUME TypeOK, FilesOpen, OneDescriptor, Next
  PROVE  OneDescriptor'
<1> USE Typed
<1>1. ASSUME NEW c \in Conns, NEW f \in Fds, NEW g \in Fds, Under(c, f)', Under(c, g)'
      PROVE  f = g
  <2>1. /\ Under(c, f) \/ (conn[c] = "backlog" /\ conn'[c] = "open" /\ file'[f] = c)
        /\ Under(c, g) \/ (conn[c] = "backlog" /\ conn'[c] = "open" /\ file'[g] = c)
    BY <1>1, UnderBefore
  <2>2. CASE conn[c] = "backlog"
    <3>1. ~ Under(c, f) /\ ~ Under(c, g)
      BY <2>2 DEF OneDescriptor
    <3>2. FilesOpen'
      BY FilesOpenStep
    <3> QED
      BY <2>1, <3>1, <3>2 DEF FilesOpen
  <2>3. CASE conn[c] # "backlog"
    BY <2>1, <2>3 DEF OneDescriptor
  <2> QED
    BY <2>2, <2>3
<1>2. ASSUME NEW c \in Conns, NEW f \in Fds, Under(c, f)'
      PROVE  conn'[c] \in {"open", "closed"}
  <2>1. Under(c, f) \/ conn'[c] = "open"
    BY <1>2, UnderBefore
  <2>2. Under(c, f) => conn[c] \in {"open", "closed"}
    BY DEF OneDescriptor
  <2> QED
    BY <2>1, <2>2, ConnMoves
<1>3. ASSUME NEW c \in Conns, conn'[c] = "open"
      PROVE  \E f \in Fds : file'[f] = c
  <2>1. CASE conn[c] = "open"
    <3>1. PICK f \in Fds : file[f] = c
      BY <2>1 DEF OneDescriptor
    <3> QED
      BY <1>3, <3>1, FileMoves DEF FileMove
  <2>2. CASE conn[c] # "open"
    BY <1>3, <2>2, ConnMoves, OpenMoves
  <2> QED
    BY <2>1, <2>2
<1>4. /\ \A c \in Conns : \A f, g \in Fds : Under(c, f)' /\ Under(c, g)' => f = g
      /\ \A c \in Conns : \A f \in Fds : Under(c, f)' => conn'[c] \in {"open", "closed"}
      /\ \A c \in Conns : conn'[c] = "open" => \E f \in Fds : file'[f] = c
  BY <1>1, <1>2, <1>3
<1> QED
  BY <1>4 DEF OneDescriptor

LEMMA ClientsStep ==
  ASSUME TypeOK, FilesOpen, EntriesOwn, ClientsExplained, Next
  PROVE  ClientsExplained'
<1> USE Typed, SetupType
<1>1. Listener' = Listener /\ \A f \in Fds : WorkerOf(f)' = WorkerOf(f)
  BY Kept DEF Listener, WorkerOf
<1>2. ASSUME NEW f \in Fds, ClientMap'[f] # None, file'[f] # ClientMap'[f], WorkerOf(f) = Listener,
             ClientMap'[f] \notin kicked'
      PROVE  recv'[Listener].at = "quit" /\ recv'[Listener].fd = f
  <2> DEFINE c == ClientMap'[f]
  <2>0. c \in Conns /\ ClientMove(f) /\ FileMove(f) /\ kicked \subseteq kicked'
    BY <1>2, MapsType, MapMoves, FileMoves, KickedGrows
  <2>1. CASE ClientMap'[f] = ClientMap[f]
    <3>1. CASE file[f] = c
      BY <1>2, <2>0, <2>1, <3>1 DEF FileMove
    <3>2. CASE file[f] # c
      <4>1. recv[Listener].at = "quit" /\ recv[Listener].fd = f
        BY <1>2, <2>0, <2>1, <3>2 DEF ClientsExplained
      <4> QED
        BY <1>2, <4>1, QuitMoves
    <3> QED
      BY <3>1, <3>2
  <2>2. CASE ClientMap'[f] # ClientMap[f]
    <3>1. c = recv[Listener].of /\ recv[Listener].at = "client" /\ recv[Listener].fd = f
      BY <1>2, <2>0, <2>2 DEF ClientMove
    <3>2. file[f] = c \/ c \in kicked
      BY <1>2, <3>1 DEF EntriesOwn
    <3>3. file[f] = c
      BY <1>2, <2>0, <3>2
    <3> QED
      BY <1>2, <2>0, <3>1, <3>3 DEF FileMove
  <2> QED
    BY <2>1, <2>2
<1> QED
  BY <1>1, <1>2 DEF ClientsExplained

LEMMA UnreadStep ==
  ASSUME TypeOK, FilesOpen, UnreadAtFirst, Next
  PROVE  UnreadAtFirst'
<1>1. ASSUME NEW c \in Conns, conn'[c] \in {"new", "backlog"}
      PROVE  got'[c] = 0
  <2>1. conn[c] \in {"new", "backlog"} /\ got[c] = 0
    BY <1>1, ConnMoves DEF UnreadAtFirst
  <2>2. ASSUME NEW w \in Workers, ReadData(w), file[recv[w].fd] = c
        PROVE  FALSE
    <3>1. recv[w].fd \in Fds
      BY <2>2, RecvThere, OwnType DEF ReadData, RecvAt
    <3>2. c # None
      OBVIOUS
    <3> QED
      BY <2>1, <2>2, <3>1, <3>2 DEF FilesOpen
  <2> QED
    BY <2>1, <2>2, GotMoves
<1> QED
  BY <1>1 DEF UnreadAtFirst

LEMMA EntriesFirstStep ==
  ASSUME TypeOK, FilesOpen, UnreadAtFirst, EntriesFirst, Next
  PROVE  EntriesFirst'
<1> USE Typed, SetupType
<1>1. Listener' = Listener /\ \A f \in Fds : WorkerOf(f)' = WorkerOf(f)
  BY Kept DEF Listener, WorkerOf
<1> DEFINE L == Listener
           p == recv[L]
           q == recv'[L]
<1>2. ASSUME NEW f \in Fds, WorkerOf(f) = L, file'[f] # None
      PROVE  /\ ~ (q.at \in {"quit", "remove"} /\ q.fd = f)
             /\ \/ /\ q.at \in {"add", "insert", "client"} /\ q.fd = f /\ got'[file'[f]] = 0
                   /\ q.at = "client" => m_SocketInfo'[f] # None
                \/ /\ m_SocketInfo'[f] # None
                   /\ ClientMap'[f] # None \/ (proc'[L].at = "close" /\ proc'[L].task.fd = f)
  <2>0. /\ L \in Workers /\ FileMove(f) /\ RecvMove(L) /\ SocketMove(f) /\ ClientMove(f)
        /\ file'[f] \in Conns
    BY <1>2, FileMoves, RecvMoves, MapMoves, ConnFileType
  <2>1. CASE file[f] = None
    <3>1. q.at = "add" /\ q.fd = f /\ conn[file'[f]] = "backlog"
      BY <1>2, <2>0, <2>1, OpenMoves DEF FileMove
    <3>2. got[file'[f]] = 0
      BY <2>0, <3>1 DEF UnreadAtFirst
    <3>3. got'[file'[f]] = got[file'[f]]
      <4>1. ASSUME NEW w \in Workers, ReadData(w), file[recv[w].fd] = file'[f]
            PROVE  FALSE
        <5>1. recv[w].fd \in Fds
          BY <4>1, RecvThere, OwnType DEF ReadData, RecvAt
        <5>2. conn[file[recv[w].fd]] = "open"
          BY <1>2, <4>1, <5>1 DEF FilesOpen
        <5> QED
          BY <3>1, <4>1, <5>2
      <4> QED
        BY <2>0, <4>1, GotMoves
    <3> QED
      BY <3>1, <3>2, <3>3
  <2>2. CASE file[f] # None
    <3>1. file'[f] = file[f] /\ file[f] \in Conns
      BY <1>2, <2>0, <2>2 DEF FileMove
    <3>2. ~ (p.at \in {"quit", "remove"} /\ p.fd = f)
      BY <1>2, <2>2 DEF EntriesFirst, Removing
    <3>3. ~ (q.at \in {"quit", "remove"} /\ q.fd = f)
      BY <1>2, <2>0, <3>2 DEF RecvMove
    <3>4. CASE /\ m_SocketInfo[f] # None
               /\ ClientMap[f] # None \/ (proc[L].at = "close" /\ proc[L].task.fd = f)
      <4>1. m_SocketInfo'[f] # None
        BY <1>2, <2>0, <3>2, <3>4 DEF SocketMove
      <4>2. CASE ClientMap[f] # None
        BY <1>2, <2>0, <3>2, <3>3, <4>1, <4>2 DEF ClientMove
      <4>3. CASE proc[L].at = "close" /\ proc[L].task.fd = f
        <5>1. proc'[L] = proc[L]
          BY <1>2, <2>0, <4>3, CloseMoves
        <5> QED
          BY <3>3, <4>1, <4>3, <5>1
      <4> QED
        BY <3>4, <4>2, <4>3
    <3>5. CASE /\ p.at \in {"add", "insert", "client"} /\ p.fd = f /\ got[file[f]] = 0
               /\ p.at = "client" => m_SocketInfo[f] # None
      <4>1. got'[file'[f]] = 0
        <5>1. ASSUME NEW w \in Workers, ReadData(w), file[recv[w].fd] = file[f]
              PROVE  FALSE
          <6>1. recv[w].at = "read" /\ recv[w].fd \in Fds /\ WorkerOf(recv[w].fd) = w
            BY <5>1, RecvThere, OwnType DEF ReadData, RecvAt
          <6>2. recv[w].fd = f
            BY <2>2, <5>1, <6>1 DEF FilesOpen
          <6> QED
            BY <1>2, <3>5, <6>1, <6>2
        <5> QED
          BY <3>1, <3>5, <5>1, GotMoves
      <4>2. m_SocketInfo[f] # None => m_SocketInfo'[f] # None
        BY <1>2, <2>0, <3>5 DEF SocketMove
      <4>3. \/ q = p
            \/ p.at = "add" /\ q = [at |-> "insert", fd |-> p.fd, of |-> p.of]
            \/ /\ p.at = "insert" /\ q = [at |-> "client", fd |-> p.fd, of |-> p.of]
               /\ m_SocketInfo'[p.fd] # None
            \/ p.at = "client" /\ ClientMap'[p.fd] # None
        BY <2>0, <2>2, <3>5, AddingMoves
      <4>4. CASE q = p
        BY <3>3, <3>5, <4>1, <4>2, <4>4
      <4>5. CASE p.at = "add" /\ q = [at |-> "insert", fd |-> p.fd, of |-> p.of]
        BY <3>3, <3>5, <4>1, <4>5
      <4>6. CASE /\ p.at = "insert" /\ q = [at |-> "client", fd |-> p.fd, of |-> p.of]
                 /\ m_SocketInfo'[p.fd] # None
        BY <3>3, <3>5, <4>1, <4>6
      <4>7. CASE p.at = "client" /\ ClientMap'[p.fd] # None
        BY <3>3, <3>5, <4>2, <4>7
      <4> QED
        BY <4>3, <4>4, <4>5, <4>6, <4>7
    <3> QED
      BY <1>2, <2>2, <3>4, <3>5 DEF EntriesFirst, Adding
  <2> QED
    BY <2>1, <2>2
<1> QED
  BY <1>1, <1>2 DEF EntriesFirst, Removing, Adding

\* An event stays until it is fetched or its connection closed, a task until it is taken.
LEMMA WatchMoves ==
  ASSUME TypeOK, Next, NEW c \in Conns
  PROVE  /\ c \in watched => c \in watched' \/ conn'[c] = "closed"
         /\ c \in ready => c \in ready' \/ conn'[c] = "closed" \/ \E f \in Fds : EpollWait(f) /\ file[f] = c
<1> USE Typed
<1> DEFINE G == /\ c \in watched => c \in watched' \/ conn'[c] = "closed"
                /\ c \in ready => c \in ready' \/ conn'[c] = "closed" \/ \E f \in Fds : EpollWait(f) /\ file[f] = c
<1>1. ASSUME watched \subseteq watched', ready \subseteq ready'
      PROVE  G
  BY <1>1
<1>2. CASE Peers \/ EpollListen
  <2>1. watched \subseteq watched' /\ ready \subseteq ready'
    BY <1>2 DEF Peers, Connect, PeerSend, PeerClose, EpollListen, kernel
  <2> QED
    BY <1>1, <2>1
<1>3. ASSUME NEW f \in Fds, EpollWait(f)
      PROVE  G
  BY <1>3 DEF EpollWait
<1>4. ASSUME NEW w \in Workers, ReadEnd(w) \/ KickClose(w)
      PROVE  G
  <2>1. PICK fd \in Fds : Close(fd)
    BY <1>4, Closes
  <2>2. /\ \A d \in Conns : conn'[d] = IF d = file[fd] THEN "closed" ELSE conn[d]
        /\ watched' = watched \ {file[fd]} /\ ready' = ready \ {file[fd]}
    BY <2>1, CloseDoes
  <2> QED
    BY <2>2
<1>5. ASSUME NEW w \in Workers, RecvWorker(w), ~ ReadEnd(w)
      PROVE  G
  <2>1. watched \subseteq watched' /\ ready \subseteq ready'
    BY <1>5 DEF RecvWorker, Accept, AddToEpoll, InsertSocket, AddClient, RecvOut, RecvIn, ReadData, RestructFrame,
                ReadNothing, EndQuit, EndRemove, kernel
  <2> QED
    BY <1>1, <2>1
<1>6. ASSUME NEW w \in Workers, (FrameWorker(w) /\ ~ KickClose(w)) \/ SendWorker(w)
      PROVE  G
  <2>1. watched \subseteq watched' /\ ready \subseteq ready'
    BY <1>6 DEF FrameWorker, Login, KickQuit, ResetCameraId, Picture, Seek, Walk, SendFind, SendPush,
                SendWorker, SendTake, SendChain, kernel
  <2> QED
    BY <1>1, <2>1
<1>7. G
  BY <1>2, <1>3, <1>4, <1>5, <1>6 DEF Next, Server, EpollThread
<1> HIDE DEF G
<1> QED
  BY <1>7 DEF G

LEMMA TaskMoves ==
  ASSUME TypeOK, Next, NEW w \in Workers, NEW t \in ToSet(tasks[w]), t.kind = "in"
  PROVE  t \in ToSet(tasks'[w]) \/ (recv'[w].at = "read" /\ recv'[w].fd = t.fd)
<1> USE Typed, SetupType
<1> DEFINE G == t \in ToSet(tasks'[w]) \/ (recv'[w].at = "read" /\ recv'[w].fd = t.fd)
<1>1. CASE UNCHANGED tasks
  BY <1>1
<1>2. ASSUME NEW u \in Workers, NEW task \in RecvTasks[u], tasks' = Add(tasks, u, task)
      PROVE  G
  <2>1. tasks'[w] = IF w = u THEN Append(tasks[w], task) ELSE tasks[w]
    BY <1>2 DEF Add, PerWorker
  <2>2. w = u => ToSet(tasks'[w]) = ToSet(tasks[w]) \cup {task}
    BY <2>1, MembersAppend
  <2> QED
    BY <2>1, <2>2
<1>3. ASSUME NEW u \in Workers, tasks[u] # <<>>, tasks' = Rest(tasks, u), u # w \/ Head(tasks[u]) # t
      PROVE  G
  <2>1. tasks'[w] = IF w = u THEN Tail(tasks[w]) ELSE tasks[w]
    BY <1>3 DEF Rest, PerWorker
  <2>2. w = u => ToSet(tasks[w]) = {Head(tasks[w])} \cup ToSet(Tail(tasks[w]))
    BY <1>3, MembersRest
  <2> QED
    BY <1>3, <2>1, <2>2
<1>4. CASE Peers
  BY <1>1, <1>4 DEF Peers, Connect, PeerSend, PeerClose
<1>5. CASE EpollListen
  <2>1. [kind |-> "listen"] \in RecvTasks[Listener]
    BY DEF RecvTasks, RecvTask
  <2> QED
    BY <1>2, <1>5, <2>1 DEF EpollListen
<1>6. ASSUME NEW fd \in Fds, EpollWait(fd)
      PROVE  G
  <2>1. PICK kind \in {"in", "out"} : tasks' = Add(tasks, WorkerOf(fd), [kind |-> kind, fd |-> fd])
    BY <1>6 DEF EpollWait
  <2>2. [kind |-> kind, fd |-> fd] \in RecvTasks[WorkerOf(fd)]
    BY WorkerOfType DEF RecvTasks, RecvTask
  <2> QED
    BY <1>2, <2>1, <2>2, WorkerOfType
<1>7. ASSUME NEW u \in Workers, RecvWorker(u)
      PROVE  G
  <2>1. CASE Accept(u) \/ RecvOut(u)
    <3>1. tasks[u] # <<>> /\ tasks' = Rest(tasks, u) /\ Head(tasks[u]) # t
      BY <2>1 DEF Accept, RecvOut, HasTask
    <3> QED
      BY <1>3, <3>1
  <2>2. CASE RecvIn(u)
    <3>1. tasks[u] # <<>> /\ tasks' = Rest(tasks, u) /\ RecvGoto(u, [at |-> "read", fd |-> Head(tasks[u]).fd])
      BY <2>2 DEF RecvIn, HasTask
    <3>2. CASE u # w \/ Head(tasks[u]) # t
      BY <1>3, <3>1, <3>2
    <3>3. CASE u = w /\ Head(tasks[u]) = t
      BY <3>1, <3>3, RecvGoes
    <3> QED
      BY <3>2, <3>3
  <2>3. CASE AddToEpoll(u) \/ InsertSocket(u) \/ AddClient(u) \/ ReadData(u) \/ RestructFrame(u)
             \/ ReadNothing(u) \/ ReadEnd(u) \/ EndQuit(u) \/ EndRemove(u)
    BY <1>1, <2>3 DEF AddToEpoll, InsertSocket, AddClient, ReadData, RestructFrame, ReadNothing, ReadEnd,
                      EndQuit, EndRemove
  <2> QED
    BY <1>7, <2>1, <2>2, <2>3 DEF RecvWorker
<1>8. ASSUME NEW u \in Workers, FrameWorker(u) \/ SendWorker(u)
      PROVE  G
  BY <1>1, <1>8 DEF FrameWorker, Login, KickQuit, KickClose, ResetCameraId, Picture, Seek, Walk, SendFind, SendPush,
                    SendWorker, SendTake, SendChain
<1> QED
  BY <1>4, <1>5, <1>6, <1>7, <1>8 DEF Next, Server, EpollThread

\* There is more to read, or an end, by a peer's step.
Wants(c) == got[c] < sent[c] \/ c \in gone

LEMMA WantMoves ==
  ASSUME TypeOK, Next, NEW c \in Conns, got'[c] < sent'[c] \/ c \in gone'
  PROVE  Wants(c) \/ PeerSend(c) \/ PeerClose(c)
<1> USE DEF Wants
<1>0. got \in [Conns -> Nat] /\ sent \in [Conns -> Nat]
  BY DEF TypeOK
<1>1. CASE UNCHANGED <<got, sent, gone>>
  BY <1>1
<1>2. ASSUME NEW d \in Conns, Connect(d) \/ PeerSend(d) \/ PeerClose(d)
      PROVE  Wants(c) \/ PeerSend(c) \/ PeerClose(c)
  <2>1. CASE Connect(d)
    BY <1>1, <2>1 DEF Connect
  <2>2. CASE d = c
    BY <1>1, <1>2, <2>1, <2>2
  <2>3. CASE d # c /\ PeerSend(d)
    BY <1>0, <2>3 DEF PeerSend
  <2>4. CASE d # c /\ PeerClose(d)
    BY <1>0, <2>4 DEF PeerClose
  <2> QED
    BY <1>2, <2>1, <2>2, <2>3, <2>4
<1>3. CASE EpollThread
  BY <1>1, <1>3 DEF EpollThread, EpollListen, EpollWait, peers, kernel
<1>4. ASSUME NEW w \in Workers, RecvWorker(w)
      PROVE  Wants(c) \/ PeerSend(c) \/ PeerClose(c)
  <2>1. CASE ReadData(w)
    <3>1. UNCHANGED <<sent, gone>> /\ got' = [got EXCEPT ![file[recv[w].fd]] = sent[file[recv[w].fd]]]
      BY <2>1 DEF ReadData, peers
    <3>2. CASE file[recv[w].fd] = c
      <4>1. got'[c] = sent[c] /\ sent'[c] = sent[c]
        BY <1>0, <3>1, <3>2
      <4>3. sent[c] \in Nat
        BY DEF TypeOK
      <4>2. ~ (got'[c] < sent'[c])
        BY ONLY <4>1, <4>3
      <4> QED
        BY <3>1, <4>2 DEF Wants
    <3>3. CASE file[recv[w].fd] # c
      <4>1. got'[c] = got[c] /\ sent'[c] = sent[c]
        BY <1>0, <3>1, <3>3
      <4> QED
        BY <3>1, <4>1 DEF Wants
    <3> QED
      BY <3>2, <3>3
  <2>2. CASE Accept(w) \/ AddToEpoll(w) \/ InsertSocket(w) \/ AddClient(w) \/ RecvOut(w) \/ RecvIn(w)
             \/ RestructFrame(w) \/ ReadNothing(w) \/ ReadEnd(w) \/ EndQuit(w) \/ EndRemove(w)
    <3>1. UNCHANGED <<got, sent, gone>>
      BY <2>2 DEF Accept, AddToEpoll, InsertSocket, AddClient, RecvOut, RecvIn, RestructFrame, ReadNothing,
                  ReadEnd, Close, EndQuit, EndRemove, peers, kernel
    <3> QED
      BY <1>1, <3>1
  <2> QED
    BY <1>4, <2>1, <2>2 DEF RecvWorker
<1>5. ASSUME NEW w \in Workers, FrameWorker(w) \/ SendWorker(w)
      PROVE  Wants(c) \/ PeerSend(c) \/ PeerClose(c)
  <2>1. UNCHANGED <<got, sent, gone>>
    BY <1>5 DEF FrameWorker, Login, KickQuit, KickClose, Close, ResetCameraId, Picture, Seek, Walk, SendFind, SendPush,
                SendWorker, SendTake, SendChain, peers, kernel
  <2> QED
    BY <1>1, <2>1
<1> QED
  BY <1>2, <1>3, <1>4, <1>5 DEF Next, Server, Peers

LEMMA AttendedStep ==
  ASSUME TypeOK, FilesOpen, Attended, Next
  PROVE  Attended'
<1> USE Typed, SetupType
<1>1. Listener' = Listener /\ \A f \in Fds : WorkerOf(f)' = WorkerOf(f)
  BY Kept DEF Listener, WorkerOf
<1> DEFINE adding(f) == recv[Listener].at = "add" /\ recv[Listener].fd = f
           addingN(f) == recv'[Listener].at = "add" /\ recv'[Listener].fd = f
           reading(f) == recv[WorkerOf(f)].at \in {"read", "restruct"} /\ recv[WorkerOf(f)].fd = f
           readingN(f) == recv'[WorkerOf(f)].at \in {"read", "restruct"} /\ recv'[WorkerOf(f)].fd = f
           In(f) == [kind |-> "in", fd |-> f]
           wantsN(d) == got'[d] < sent'[d] \/ d \in gone'
<1>2. ASSUME NEW f \in Fds, file'[f] # None
      PROVE  /\ file'[f] \in watched' \/ addingN(f)
             /\ wantsN(file'[f]) =>
                  addingN(f) \/ file'[f] \in ready' \/ In(f) \in ToSet(tasks'[WorkerOf(f)]) \/ readingN(f)
  <2> DEFINE w == WorkerOf(f)
             c == file[f]
  <2>1. CASE file[f] = None
    BY <1>2, <2>1, OpenMoves
  <2>2. CASE file[f] # None
    <3>0. w \in Workers /\ FileMove(f) /\ FilesOpen' /\ file'[f] \in Conns
      BY <1>2, WorkerOfType, FileMoves, FilesOpenStep, ConnFileType
    <3>1. file'[f] = c /\ c \in Conns /\ conn'[c] = "open"
      BY <1>2, <2>2, <3>0 DEF FileMove, FilesOpen
    <3> HIDE DEF w, c
    <3>2. adding(f) => addingN(f) \/ (c \in watched' /\ c \in ready')
      <4>1. ASSUME adding(f), ~ addingN(f)
            PROVE  c \in watched' /\ c \in ready'
        BY <2>2, <3>1, <4>1, AddingMoves DEF c
      <4> QED
        BY <4>1
    <3>3. c \in watched' \/ addingN(f)
      <4>1. c \in watched \/ adding(f)
        BY <2>2 DEF Attended, c
      <4> QED
        BY <3>1, <3>2, <4>1, WatchMoves
    <3>4. CASE Wants(c)
      <4>1. adding(f) \/ c \in ready \/ In(f) \in ToSet(tasks[w]) \/ reading(f)
        BY <2>2, <3>4 DEF Attended, Wants, c, w
      <4>2. CASE adding(f)
        BY <3>1, <3>2, <3>3, <4>2
      <4>3. CASE c \in ready
        <5>1. CASE c \in ready'
          BY <3>1, <3>3, <5>1
        <5>2. CASE c \notin ready'
          <6>1. PICK g \in Fds : EpollWait(g) /\ file[g] = c
            BY <3>1, <4>3, <5>2, WatchMoves
          <6>2. g = f
            BY <2>2, <6>1 DEF FilesOpen, c
          <6>3. tasks' = Add(tasks, w, In(f))
            BY <3>4, <6>1, <6>2 DEF EpollWait, Wants, w, c
          <6>4. In(f) \in RecvTasks[w]
            BY <3>0, WorkerOfType DEF RecvTasks, RecvTask, w
          <6>5. tasks'[w] = Append(tasks[w], In(f))
            BY <3>0, <6>3 DEF Add, PerWorker
          <6>6. ToSet(tasks'[w]) = ToSet(tasks[w]) \cup {In(f)}
            BY <3>0, <6>4, <6>5, MembersAppend
          <6> QED
            BY <3>1, <3>3, <6>6 DEF w
        <5> QED
          BY <5>1, <5>2
      <4>4. CASE In(f) \in ToSet(tasks[w])
        <5>1. In(f) \in ToSet(tasks'[w]) \/ (recv'[w].at = "read" /\ recv'[w].fd = f)
          BY <3>0, <4>4, TaskMoves
        <5> QED
          BY <3>1, <3>3, <5>1 DEF w
      <4>5. CASE reading(f)
        <5>1. CASE recv'[w] = recv[w]
          BY <3>1, <3>3, <4>5, <5>1 DEF w
        <5>2. CASE ReadData(w)
          <6>1. \/ RecvGoto(w, recv[w])
                \/ RecvGoto(w, [at |-> "restruct", fd |-> f, from |-> c, of |-> ClientMap[f], read |-> Unread(c)])
            BY <4>5, <5>2 DEF ReadData, w, c
          <6>2. readingN(f)
            BY <3>0, <4>5, <6>1, RecvGoes DEF w
          <6> QED
            BY <3>1, <3>3, <6>2
        <5>3. CASE RestructFrame(w)
          <6>1. RecvGoto(w, [at |-> "read", fd |-> f])
            BY <4>5, <5>3 DEF RestructFrame, w
          <6>2. readingN(f)
            BY <3>0, <6>1, RecvGoes DEF w
          <6> QED
            BY <3>1, <3>3, <6>2
        <5>4. ~ ReadNothing(w)
          <6>1. ASSUME ReadNothing(w)
                PROVE  got[c] = sent[c] /\ c \notin gone
            BY <2>2, <4>5, <6>1 DEF ReadNothing, w, c
          <6>2. got[c] \in Nat /\ sent[c] \in Nat
            BY <3>1 DEF TypeOK
          <6> QED
            BY <3>4, <6>1, <6>2 DEF Wants
        <5>5. ~ ReadEnd(w)
          <6>1. ASSUME ReadEnd(w)
                PROVE  FALSE
            <7>1. Close(f)
              BY <4>5, <6>1 DEF ReadEnd, w
            <7> QED
              BY <1>2, <7>1, CloseDoes
          <6> QED
            BY <6>1
        <5>6. recv'[w] = recv[w] \/ ReadData(w) \/ RestructFrame(w) \/ ReadNothing(w) \/ ReadEnd(w)
          <6>1. recv[w].at \in {"read", "restruct"}
            BY <4>5 DEF w
          <6> QED
            BY <3>0, <6>1, RecvOwn DEF RecvWorker, Accept, AddToEpoll, InsertSocket, AddClient, RecvOut, RecvIn,
                                        EndQuit, EndRemove, HasTask, RecvAt
        <5> QED
          BY <5>1, <5>2, <5>3, <5>4, <5>5, <5>6
      <4> QED
        BY <4>1, <4>2, <4>3, <4>4, <4>5
    <3>5. CASE PeerSend(c) \/ PeerClose(c)
      <4>1. ready' = ready \cup ({c} \cap watched) /\ UNCHANGED <<watched, recv>>
        BY <3>5 DEF PeerSend, PeerClose
      <4>2. c \in ready' \/ addingN(f)
        BY <3>3, <4>1
      <4> QED
        BY <3>1, <3>3, <4>2
    <3>6. wantsN(c) => Wants(c) \/ PeerSend(c) \/ PeerClose(c)
      BY <3>1, WantMoves
    <3> QED
      BY <3>1, <3>3, <3>4, <3>5, <3>6
  <2> QED
    BY <2>1, <2>2
<1> QED
  BY <1>1, <1>2 DEF Attended, Wants

\* What is received stays, a message stays on its chain until it is sent or the chain is
\* emptied, a task until it is taken.
LEMMA InboxMoves ==
  ASSUME TypeOK, Next, NEW c \in Conns, NEW m \in inbox[c]
  PROVE  m \in inbox'[c]
<1>0. inbox \in [Conns -> SUBSET Message]
  BY DEF TypeOK
<1>1. CASE UNCHANGED inbox
  BY <1>1
<1>2. CASE Peers \/ EpollThread
  BY <1>1, <1>2 DEF Peers, Connect, PeerSend, PeerClose, EpollThread, EpollListen, EpollWait, sending
<1>3. ASSUME NEW w \in Workers, RecvWorker(w)
      PROVE  UNCHANGED inbox
  BY <1>3 DEF RecvWorker, Accept, AddToEpoll, InsertSocket, AddClient, RecvOut, RecvIn, ReadData, RestructFrame,
              ReadNothing, ReadEnd, EndQuit, EndRemove, sending
<1>4. ASSUME NEW w \in Workers, FrameWorker(w)
      PROVE  UNCHANGED inbox
  BY <1>4 DEF FrameWorker, Login, KickQuit, KickClose, ResetCameraId, Picture, Seek, Walk, SendFind, SendPush, sending
<1>5. ASSUME NEW w \in Workers, SendWorker(w)
      PROVE  m \in inbox'[c]
  <2>1. UNCHANGED inbox \/ \E d, M : inbox' = [inbox EXCEPT ![d] = @ \cup M]
    BY <1>5 DEF SendWorker, SendTake, SendChain
  <2>2. ASSUME NEW d, NEW M, inbox' = [inbox EXCEPT ![d] = @ \cup M]
        PROVE  m \in inbox'[c]
    BY <1>0, <2>2
  <2> QED
    BY <1>1, <2>1, <2>2
<1> QED
  BY <1>1, <1>2, <1>3, <1>4, <1>5 DEF Next, Server

LEMMA ChainMoves ==
  ASSUME TypeOK, Next, NEW s \in Conns, NEW m \in ToSet(chain[s])
  PROVE  \/ m \in ToSet(chain'[s])
         \/ \E u \in Workers : SendChain(u) /\ send[u].of = s /\ file[send[u].fd] # None
         \/ \E u \in Workers : EndRemove(u) /\ m_SocketInfo[recv[u].fd] = s
<1> USE Typed
<1>0. chain \in [Conns -> Seq(Message)]
  BY DEF TypeOK
<1> DEFINE G == \/ m \in ToSet(chain'[s])
                \/ \E u \in Workers : SendChain(u) /\ send[u].of = s /\ file[send[u].fd] # None
                \/ \E u \in Workers : EndRemove(u) /\ m_SocketInfo[recv[u].fd] = s
<1>1. ASSUME chain' = chain
      PROVE  G
  BY <1>1
<1>2. CASE Peers \/ EpollThread
  <2>1. chain' = chain
    BY <1>2 DEF Peers, Connect, PeerSend, PeerClose, EpollThread, EpollListen, EpollWait, sending
  <2> QED
    BY <1>1, <2>1
<1>3. ASSUME NEW w \in Workers, RecvWorker(w), ~ EndRemove(w)
      PROVE  G
  <2>1. chain' = chain
    BY <1>3 DEF RecvWorker, Accept, AddToEpoll, InsertSocket, AddClient, RecvOut, RecvIn, ReadData, RestructFrame,
                ReadNothing, ReadEnd, EndQuit, sending
  <2> QED
    BY <1>1, <2>1
<1>4. ASSUME NEW w \in Workers, EndRemove(w)
      PROVE  G
  <2>1. \/ chain' = chain
        \/ chain' = [chain EXCEPT ![m_SocketInfo[recv[w].fd]] = <<>>]
    BY <1>4 DEF EndRemove
  <2>2. CASE m_SocketInfo[recv[w].fd] = s
    BY <1>4, <2>2
  <2>3. CASE m_SocketInfo[recv[w].fd] # s
    <3>1. chain'[s] = chain[s]
      BY <1>0, <2>1, <2>3
    <3> QED
      BY <3>1
  <2> QED
    BY <2>2, <2>3
<1>5. ASSUME NEW w \in Workers, FrameWorker(w), ~ SendPush(w)
      PROVE  G
  <2>1. chain' = chain
    BY <1>5 DEF FrameWorker, Login, KickQuit, KickClose, ResetCameraId, Picture, Seek, Walk, SendFind, sending
  <2> QED
    BY <1>1, <2>1
<1>6. ASSUME NEW w \in Workers, SendPush(w)
      PROVE  G
  <2> DEFINE n == [what |-> proc[w].what, from |-> proc[w].task.from]
  <2>1. n \in Message /\ proc[w].of \in Conns
    BY <1>6, ProcThere, TaskType DEF SendPush, ProcAt, Sending, Message
  <2>2. chain' = [chain EXCEPT ![proc[w].of] = Append(chain[proc[w].of], n)]
    BY <1>6 DEF SendPush
  <2> HIDE DEF n
  <2>3. chain'[s] = chain[s] \/ chain'[s] = Append(chain[s], n)
    BY <1>0, <2>1, <2>2
  <2>4. ToSet(Append(chain[s], n)) = ToSet(chain[s]) \cup {n}
    BY <1>0, <2>1, MembersAppend
  <2> QED
    BY <2>3, <2>4
<1>7. ASSUME NEW w \in Workers, SendTake(w)
      PROVE  G
  BY <1>1, <1>7 DEF SendTake
<1>8. ASSUME NEW w \in Workers, SendChain(w)
      PROVE  G
  <2>1. chain' = chain \/ (file[send[w].fd] # None /\ chain' = [chain EXCEPT ![send[w].of] = <<>>])
    BY <1>8 DEF SendChain
  <2>2. CASE chain' = chain
    BY <1>1, <2>2
  <2>3. CASE file[send[w].fd] # None /\ send[w].of = s
    BY <1>8, <2>3
  <2>4. CASE send[w].of # s
    <3>1. chain'[s] = chain[s]
      BY <1>0, <2>1, <2>4
    <3> QED
      BY <3>1
  <2> QED
    BY <2>1, <2>2, <2>3, <2>4
<1>9. G
  BY <1>2, <1>3, <1>4, <1>5, <1>6, <1>7, <1>8 DEF Next, Server, SendWorker
<1> HIDE DEF G
<1> QED
  BY <1>9 DEF G

LEMMA SendTaskMoves ==
  ASSUME TypeOK, Next, NEW w \in Workers, NEW f \in ToSet(sendTasks[w])
  PROVE  f \in ToSet(sendTasks'[w]) \/ (SendTake(w) /\ Head(sendTasks[w]) = f)
<1> USE Typed
<1> DEFINE G == f \in ToSet(sendTasks'[w]) \/ (SendTake(w) /\ Head(sendTasks[w]) = f)
<1>1. CASE sendTasks' = sendTasks
  BY <1>1
<1>2. ASSUME NEW u \in Workers, NEW fd \in Owns[u], sendTasks' = Add(sendTasks, u, fd)
      PROVE  G
  <2>1. sendTasks'[w] = IF w = u THEN Append(sendTasks[w], fd) ELSE sendTasks[w]
    BY <1>2 DEF Add, PerWorker
  <2>2. w = u => ToSet(sendTasks'[w]) = ToSet(sendTasks[w]) \cup {fd}
    BY <2>1, MembersAppend
  <2> QED
    BY <2>1, <2>2
<1>3. CASE Peers \/ EpollThread
  BY <1>1, <1>3 DEF Peers, Connect, PeerSend, PeerClose, EpollThread, EpollListen, EpollWait, sending
<1>4. ASSUME NEW u \in Workers, RecvWorker(u)
      PROVE  G
  <2>1. CASE RecvOut(u)
    <3>1. Head(tasks[u]) \in RecvTasks[u] /\ Head(tasks[u]).kind = "out"
      BY <2>1, HeadTailProperties DEF RecvOut, HasTask
    <3>2. Head(tasks[u]).fd \in Owns[u]
      BY <3>1 DEF RecvTasks, RecvTask, Owns
    <3>3. sendTasks' = sendTasks \/ sendTasks' = Add(sendTasks, u, Head(tasks[u]).fd)
      BY <2>1 DEF RecvOut
    <3> QED
      BY <1>1, <1>2, <3>2, <3>3
  <2>2. CASE ~ RecvOut(u)
    <3>1. sendTasks' = sendTasks
      BY <1>4, <2>2 DEF RecvWorker, Accept, AddToEpoll, InsertSocket, AddClient, RecvIn, ReadData, RestructFrame,
                        ReadNothing, ReadEnd, EndQuit, EndRemove, sending
    <3> QED
      BY <1>1, <3>1
  <2> QED
    BY <2>1, <2>2
<1>5. ASSUME NEW u \in Workers, FrameWorker(u)
      PROVE  G
  <2>1. CASE SendPush(u)
    <3>1. proc[u].to \in Fds /\ sendTasks' = Add(sendTasks, WorkerOf(proc[u].to), proc[u].to)
      BY <2>1, ProcThere DEF SendPush, ProcAt, Sending
    <3>2. WorkerOf(proc[u].to) \in Workers /\ proc[u].to \in Owns[WorkerOf(proc[u].to)]
      BY <3>1, WorkerOfType DEF Owns
    <3> QED
      BY <1>2, <3>1, <3>2
  <2>2. CASE ~ SendPush(u)
    <3>1. sendTasks' = sendTasks
      BY <1>5, <2>2 DEF FrameWorker, Login, KickQuit, KickClose, ResetCameraId, Picture, Seek, Walk, SendFind, sending
    <3> QED
      BY <1>1, <3>1
  <2> QED
    BY <2>1, <2>2
<1>6. ASSUME NEW u \in Workers, SendTake(u)
      PROVE  G
  <2>1. sendTasks[u] # <<>> /\ sendTasks' = Rest(sendTasks, u)
    BY <1>6 DEF SendTake
  <2>2. sendTasks'[w] = IF w = u THEN Tail(sendTasks[w]) ELSE sendTasks[w]
    BY <2>1 DEF Rest, PerWorker
  <2>3. w = u => ToSet(sendTasks[w]) = {Head(sendTasks[w])} \cup ToSet(Tail(sendTasks[w]))
    BY <2>1, MembersRest
  <2> QED
    BY <1>6, <2>2, <2>3
<1>7. ASSUME NEW u \in Workers, SendChain(u)
      PROVE  G
  BY <1>1, <1>7 DEF SendChain
<1> QED
  BY <1>3, <1>4, <1>5, <1>6, <1>7 DEF Next, Server, SendWorker

\* A message on its way stays on its way, as long as the descriptor keeps its
\* connection and its socket.
LEMMA OnWayStep ==
  ASSUME TypeOK, OneDescriptor, Next, NEW f \in Fds, NEW m \in Message, OnWay(m, f),
         m_SocketInfo[f] # None, m_SocketInfo'[f] = m_SocketInfo[f],
         file[f] # None, file'[f] = file[f]
  PROVE  OnWay(m, f)'
<1> USE Typed
<1> DEFINE s == m_SocketInfo[f]
           c == file[f]
           w == WorkerOf(f)
<1>0. s \in Conns /\ c \in Conns /\ w \in Workers /\ m_SocketInfo'[f] = s /\ file'[f] = c
  BY WorkerOfType
<1>1. /\ \A u \in Workers : send[u].at = "send" /\ send[u].of = s => send[u].fd = f
      /\ \A g \in Fds : m_SocketInfo[g] = s => g = f
  <2>1. \A g \in Fds : Under(s, g) => g = f
    <3>1. Under(s, f)
      BY DEF Under
    <3> QED
      BY <1>0, <3>1 DEF OneDescriptor
  <2>2. ASSUME NEW u \in Workers, send[u].at = "send", send[u].of = s
        PROVE  send[u].fd = f
    <3>1. send[u].fd \in Fds
      BY <2>2, OwnType DEF SendPlace
    <3>2. Under(s, send[u].fd)
      BY <2>2 DEF Under
    <3> QED
      BY <2>1, <3>1, <3>2
  <2>3. ASSUME NEW g \in Fds, m_SocketInfo[g] = s
        PROVE  g = f
    <3>1. Under(s, g)
      BY <2>3 DEF Under
    <3> QED
      BY <2>1, <3>1
  <2> QED
    BY <2>2, <2>3
<1> HIDE DEF s, c, w
<1>2. WorkerOf(f)' = w
  BY DEF WorkerOf, w
\* In these three places it is on its way in the next state.
<1>3. ASSUME m \in inbox'[c]
      PROVE  OnWay(m, f)'
  BY <1>0, <1>3 DEF OnWay
<1>4. ASSUME m \in ToSet(chain'[s]),
             f \in ToSet(sendTasks'[w]) \/ (send'[w].at = "send" /\ send'[w].fd = f /\ send'[w].of = s)
      PROVE  OnWay(m, f)'
  BY <1>0, <1>2, <1>4 DEF OnWay, OnChain
<1>5. ASSUME NEW u \in Workers, proc'[u].at = "find" \/ (proc'[u].at = "push" /\ proc'[u].of = s),
             proc'[u].to = f, proc'[u].what = m.what, proc'[u].task.from = m.from
      PROVE  OnWay(m, f)'
  BY <1>0, <1>5 DEF OnWay, Carries
<1>6. CASE m \in inbox[c]
  BY <1>0, <1>3, <1>6, InboxMoves
\* The chain of the socket is sent to the connection.
<1>7. ASSUME NEW u \in Workers, SendChain(u), send[u].fd = f, send[u].of = s, m \in ToSet(chain[s])
      PROVE  OnWay(m, f)'
  <2>1. inbox' = [inbox EXCEPT ![c] = @ \cup {chain[s][i] : i \in DOMAIN chain[s]}]
    BY <1>0, <1>7 DEF SendChain, c
  <2>2. m \in inbox'[c]
    BY <1>0, <1>7, <2>1 DEF ToSet, TypeOK
  <2> QED
    BY <1>3, <2>2
<1>8. CASE OnChain(m, s, f)
  <2>1. m \in ToSet(chain[s]) /\ (f \in ToSet(sendTasks[w]) \/ (send[w].at = "send" /\ send[w].fd = f /\ send[w].of = s))
    BY <1>8 DEF OnChain, w
  <2>2. CASE \E u \in Workers : SendChain(u) /\ send[u].of = s
    BY <1>1, <1>7, <2>1, <2>2 DEF SendChain
  <2>3. CASE ~ \E u \in Workers : SendChain(u) /\ send[u].of = s
    <3>1. m \in ToSet(chain'[s])
      <4>1. ASSUME NEW u \in Workers, EndRemove(u), m_SocketInfo[recv[u].fd] = s
            PROVE  FALSE
        <5>1. recv[u].fd \in Fds
          BY <4>1, RecvThere, OwnType DEF EndRemove, RecvAt
        <5>2. recv[u].fd = f
          BY <1>1, <4>1, <5>1
        <5>3. m_SocketInfo' = [m_SocketInfo EXCEPT ![f] = None]
          BY <4>1, <5>2 DEF EndRemove
        <5> QED
          BY <1>0, <5>3
      <4> QED
        BY <1>0, <2>1, <2>3, <4>1, ChainMoves
    <3>2. CASE f \in ToSet(sendTasks[w])
      <4>1. CASE SendTake(w) /\ Head(sendTasks[w]) = f
        <5>1. send' = [send EXCEPT ![w] = [at |-> "send", fd |-> f, of |-> s]]
          BY <1>0, <4>1 DEF SendTake, s
        <5>2. send'[w] = [at |-> "send", fd |-> f, of |-> s]
          BY <1>0, <5>1 DEF PerWorker
        <5> QED
          BY <1>4, <3>1, <5>2
      <4>2. CASE f \in ToSet(sendTasks'[w])
        BY <1>4, <3>1, <4>2
      <4> QED
        BY <1>0, <3>2, <4>1, <4>2, SendTaskMoves
    <3>3. CASE send[w].at = "send" /\ send[w].fd = f /\ send[w].of = s
      <4>1. send'[w] = send[w]
        BY <1>0, <2>3, <3>3, SendOwn DEF SendWorker, SendTake
      <4> QED
        BY <1>4, <3>1, <3>3, <4>1
    <3> QED
      BY <2>1, <3>2, <3>3
  <2> QED
    BY <2>2, <2>3
\* A frame worker finds the socket, then pushes.
<1>9. ASSUME NEW u \in Workers, Carries(proc[u], m, f)
      PROVE  OnWay(m, f)'
  <2>1. /\ proc[u].at = "find" \/ (proc[u].at = "push" /\ proc[u].of = s)
        /\ proc[u].to = f /\ proc[u].what = m.what /\ proc[u].task.from = m.from
    BY <1>9 DEF Carries, s
  <2>2. proc'[u] = proc[u] \/ SendFind(u) \/ SendPush(u)
    BY <2>1, ProcOwn DEF FrameWorker, Login, KickQuit, KickClose, ResetCameraId, Picture, Seek, Walk, HasFrame, ProcAt
  <2>3. CASE proc'[u] = proc[u]
    BY <1>5, <2>1, <2>3
  <2>4. CASE SendFind(u)
    <3>1. ProcGoto(u, [at |-> "push", of |-> s, what |-> m.what, to |-> f, task |-> proc[u].task, walk |-> AfterSend(u)])
      BY <1>0, <2>1, <2>4 DEF SendFind, s
    <3>2. proc'[u] = [at |-> "push", of |-> s, what |-> m.what, to |-> f, task |-> proc[u].task, walk |-> AfterSend(u)]
      BY <3>1, ProcGoes
    <3>3. /\ proc'[u].at = "push" /\ proc'[u].of = s /\ proc'[u].to = f /\ proc'[u].what = m.what
          /\ proc'[u].task = proc[u].task
      BY <3>2
    <3> QED
      BY <1>5, <2>1, <3>3
  <2>5. CASE SendPush(u)
    <3>1. proc[u].at = "push" /\ proc[u].of = s
      BY <2>1, <2>5 DEF SendPush, ProcAt
    <3>2. m = [what |-> m.what, from |-> m.from]
      BY DEF Message
    <3>3. chain' = [chain EXCEPT ![s] = Append(chain[s], m)]
      BY <2>1, <2>5, <3>1, <3>2 DEF SendPush
    <3>4. chain \in [Conns -> Seq(Message)]
      BY DEF TypeOK
    <3>5. m \in ToSet(chain'[s])
      <4>1. s \in Conns /\ chain[s] \in Seq(Message) /\ chain'[s] = Append(chain[s], m)
        BY <1>0, <3>3, <3>4
      <4> QED
        BY ONLY <4>1, MembersAppend, m \in Message
    <3>6. sendTasks' = Add(sendTasks, w, f)
      BY <2>1, <2>5 DEF SendPush, w
    <3>7. f \in ToSet(sendTasks'[w])
      <4>1. sendTasks'[w] = Append(sendTasks[w], f)
        BY <1>0, <3>6 DEF Add, PerWorker
      <4>2. f \in Owns[w] /\ sendTasks[w] \in Seq(Owns[w])
        BY <1>0, WorkerOfType DEF Owns, w
      <4> QED
        BY <4>1, <4>2, MembersAppend
    <3> QED
      BY <1>4, <3>5, <3>7
  <2> QED
    BY <2>2, <2>3, <2>4, <2>5
<1> QED
  BY <1>6, <1>8, <1>9 DEF OnWay, s, c

\* A frame stays in its queue until its worker takes it.
LEMMA FrameMoves ==
  ASSUME TypeOK, Next, NEW w \in Workers, NEW t \in ToSet(frames[w])
  PROVE  \/ t \in ToSet(frames'[w])
         \/ (Login(w) \/ ResetCameraId(w) \/ Picture(w)) /\ Head(frames[w]) = t
<1> USE Typed
<1> DEFINE G == \/ t \in ToSet(frames'[w])
                \/ (Login(w) \/ ResetCameraId(w) \/ Picture(w)) /\ Head(frames[w]) = t
<1>1. CASE frames' = frames
  BY <1>1
<1>2. CASE Peers \/ EpollThread
  BY <1>1, <1>2 DEF Peers, Connect, PeerSend, PeerClose, EpollThread, EpollListen, EpollWait
<1>3. ASSUME NEW u \in Workers, RecvWorker(u), ~ RestructFrame(u)
      PROVE  G
  <2>1. frames' = frames
    BY <1>3 DEF RecvWorker, Accept, AddToEpoll, InsertSocket, AddClient, RecvOut, RecvIn, ReadData,
                ReadNothing, ReadEnd, EndQuit, EndRemove
  <2> QED
    BY <1>1, <2>1
<1>4. ASSUME NEW u \in Workers, RestructFrame(u)
      PROVE  G
  <2> DEFINE new == [i \in DOMAIN recv[u].read |->
                       [fd |-> recv[u].fd, frame |-> recv[u].read[i], from |-> recv[u].from]]
  <2>1. recv[u].fd \in Own(u) /\ recv[u].from \in Conns /\ recv[u].read \in Seq(Frame)
    BY <1>4, RecvThere DEF RestructFrame, RecvAt
  <2>2. new \in Seq(FrameTasks[u])
    <3>1. /\ DOMAIN recv[u].read = 1 .. Len(recv[u].read) /\ Len(recv[u].read) \in Nat
          /\ \A i \in 1 .. Len(recv[u].read) : recv[u].read[i] \in Frame
      BY <2>1, LenProperties, ElementOfSeq
    <3> QED
      BY <2>1, <3>1 DEF FrameTasks, FrameTask
  <2>3. frames' = [frames EXCEPT ![u] = frames[u] \o new]
    BY <1>4 DEF RestructFrame
  <2> HIDE DEF new
  <2>4. frames'[w] = IF w = u THEN frames[u] \o new ELSE frames[w]
    BY <2>3 DEF PerWorker
  <2>5. ToSet(frames[u]) \subseteq ToSet(frames[u] \o new)
    BY <2>2, MembersConcat
  <2> QED
    BY <2>4, <2>5
<1>5. ASSUME NEW u \in Workers, FrameWorker(u)
      PROVE  G
  <2>1. CASE Login(u) \/ ResetCameraId(u) \/ Picture(u)
    <3>1. frames[u] # <<>> /\ frames' = Rest(frames, u)
      BY <2>1 DEF Login, ResetCameraId, Picture, HasFrame
    <3>2. frames'[w] = IF w = u THEN Tail(frames[w]) ELSE frames[w]
      BY <3>1 DEF Rest, PerWorker
    <3>3. w = u => ToSet(frames[w]) = {Head(frames[w])} \cup ToSet(Tail(frames[w]))
      BY <3>1, MembersRest
    <3> QED
      BY <2>1, <3>2, <3>3
  <2>2. CASE KickQuit(u) \/ KickClose(u) \/ Seek(u) \/ Walk(u) \/ SendFind(u) \/ SendPush(u)
    <3>1. frames' = frames
      BY <2>2 DEF KickQuit, KickClose, Seek, Walk, SendFind, SendPush
    <3> QED
      BY <1>1, <3>1
  <2> QED
    BY <1>5, <2>1, <2>2 DEF FrameWorker
<1>6. ASSUME NEW u \in Workers, SendWorker(u)
      PROVE  G
  BY <1>1, <1>6 DEF SendWorker, SendTake, SendChain
<1> QED
  BY <1>2, <1>3, <1>4, <1>5, <1>6 DEF Next, Server

\* What has been read of a connection is handed to its frame worker.
LEMMA ReadMoves ==
  ASSUME TypeOK, Next, NEW w \in Workers, recv[w].at = "restruct", NEW frame \in ToSet(recv[w].read)
  PROVE  \/ recv'[w] = recv[w]
         \/ [fd |-> recv[w].fd, frame |-> frame, from |-> recv[w].from] \in ToSet(frames'[w])
<1> USE Typed
<1> DEFINE p == recv[w]
           new == [i \in DOMAIN p.read |-> [fd |-> p.fd, frame |-> p.read[i], from |-> p.from]]
<1>1. recv'[w] = p \/ RestructFrame(w)
  BY RecvOwn DEF RecvWorker, Accept, AddToEpoll, InsertSocket, AddClient, RecvOut, RecvIn, ReadData,
                 ReadNothing, ReadEnd, EndQuit, EndRemove, HasTask, RecvAt
<1>2. ASSUME RestructFrame(w)
      PROVE  [fd |-> p.fd, frame |-> frame, from |-> p.from] \in ToSet(frames'[w])
  <2>1. p.fd \in Own(w) /\ p.from \in Conns /\ p.read \in Seq(Frame)
    BY <1>2, RecvThere
  <2>2. new \in Seq(FrameTasks[w])
    <3>1. /\ DOMAIN p.read = 1 .. Len(p.read) /\ Len(p.read) \in Nat
          /\ \A i \in 1 .. Len(p.read) : p.read[i] \in Frame
      BY <2>1, LenProperties, ElementOfSeq
    <3> QED
      BY <2>1, <3>1 DEF FrameTasks, FrameTask
  <2>3. [fd |-> p.fd, frame |-> frame, from |-> p.from] \in ToSet(new)
    BY DEF ToSet
  <2>4. frames' = [frames EXCEPT ![w] = frames[w] \o new]
    BY <1>2 DEF RestructFrame
  <2> HIDE DEF new
  <2>5. frames'[w] = frames[w] \o new
    BY <2>4 DEF PerWorker
  <2>6. ToSet(new) \subseteq ToSet(frames[w] \o new)
    BY <2>2, MembersConcat
  <2> QED
    BY <2>3, <2>5, <2>6
<1> QED
  BY <1>1, <1>2

LEMMA LoginsStep ==
  ASSUME TypeOK, FilesOpen, OneDescriptor, UnreadAtFirst, EntriesFirst, LoginsOnWay, Next
  PROVE  LoginsOnWay'
<1> USE Typed, SetupType
<1>1. Listener' = Listener /\ (\A f \in Fds : WorkerOf(f)' = WorkerOf(f)) /\ \A c : Script(c)' = Script(c)
  BY Kept DEF Listener, WorkerOf, Script
<1> DEFINE w == Listener
           Ack(c) == [what |-> "ack", from |-> c]
           Reading(p, f, c) == /\ p.at = "restruct" /\ p.fd = f /\ p.from = c
                               /\ \E frame \in ToSet(p.read) : frame.code = "login"
           Queued(q, f, c) == \E t \in ToSet(q) : t.fd = f /\ t.from = c /\ t.frame.code = "login"
           Kicking(p, f) == p.at \in {"quit", "close"} /\ p.task.fd = f
<1>2. ASSUME NEW f \in Fds, WorkerOf(f) = w, file'[f] # None,
             NEW i \in 1 .. got'[file'[f]], Script(file'[f])[i].code = "login"
      PROVE  \/ Kicking(proc'[w], f)
             \/ Reading(recv'[w], f, file'[f])
             \/ Queued(frames'[w], f, file'[f])
             \/ OnWay(Ack(file[f]), f)'
  <2> DEFINE c == file[f]
  <2>0. /\ w \in Workers /\ FileMove(f) /\ SocketMove(f) /\ file'[f] \in Conns
        /\ got \in [Conns -> Nat] /\ sent \in [Conns -> Nat]
    BY <1>2, FileMoves, MapMoves, ConnFileType DEF TypeOK
  \* A frame of it that is read now is handed on, unless a bad login takes the client.
  <2>1. ASSUME NEW u \in Workers, ReadData(u), file[recv[u].fd] = file'[f]
        PROVE  recv[u].fd = f /\ u = w /\ file'[f] = c
    <3>1. recv[u].fd \in Fds /\ WorkerOf(recv[u].fd) = u
      BY <2>1, RecvThere, OwnType DEF ReadData, RecvAt
    <3>2. conn[file'[f]] = "open"
      <4>1. file[recv[u].fd] # None
        BY <2>0, <2>1
      <4> QED
        BY <2>1, <3>1, <4>1 DEF FilesOpen
    <3>3. file'[f] = c
      BY <2>0, <3>2 DEF FileMove
    <3>4. file[recv[u].fd] = file[f] /\ file[f] # None
      BY <2>0, <2>1, <3>3
    <3>5. recv[u].fd = f
      BY <3>1, <3>4 DEF FilesOpen
    <3> QED
      BY <1>2, <3>1, <3>3, <3>5
  <2>2. CASE file[f] = None
    <3>1. conn[file'[f]] = "backlog"
      BY <1>2, <2>0, <2>2 DEF FileMove
    <3>2. got[file'[f]] = 0
      BY <2>0, <3>1 DEF UnreadAtFirst
    <3>3. got'[file'[f]] = got[file'[f]]
      BY <1>2, <2>0, <2>1, <2>2, GotMoves
    <3> QED
      BY <1>2, <3>2, <3>3
  <2>3. CASE file[f] # None
    <3>1. file'[f] = c /\ c \in Conns
      BY <1>2, <2>0, <2>3 DEF FileMove
    <3>2. /\ ~ (recv[w].at \in {"quit", "remove"} /\ recv[w].fd = f)
          /\ \/ recv[w].at \in {"add", "insert", "client"} /\ recv[w].fd = f /\ got[c] = 0
             \/ /\ m_SocketInfo[f] # None
                /\ ClientMap[f] # None \/ (proc[w].at = "close" /\ proc[w].task.fd = f)
      BY <1>2, <2>3 DEF EntriesFirst, Removing, Adding
    <3>3. CASE i \in 1 .. got[c]
      <4>1. i \in 1 .. got[c] /\ Script(c)[i].code = "login" /\ got[c] # 0
        BY <1>2, <2>0, <3>1, <3>3
      <4>2. m_SocketInfo[f] # None /\ m_SocketInfo'[f] = m_SocketInfo[f]
        BY <1>2, <2>0, <3>2, <4>1 DEF SocketMove
      <4>3. Kicking(proc[w], f) \/ Reading(recv[w], f, c) \/ Queued(frames[w], f, c) \/ OnWay(Ack(c), f)
        BY <1>2, <2>3, <4>1 DEF LoginsOnWay
      <4>4. CASE Kicking(proc[w], f)
        <5>1. proc'[w] = proc[w] \/ KickQuit(w) \/ KickClose(w)
          BY <2>0, <4>4, ProcOwn DEF FrameWorker, Login, ResetCameraId, Picture, Seek, Walk, SendFind, SendPush, HasFrame, ProcAt
        <5>2. ~ KickClose(w)
          <6>1. ASSUME KickClose(w)
                PROVE  FALSE
            <7>1. Close(f)
              BY <4>4, <6>1 DEF KickClose
            <7> QED
              BY <1>2, <7>1, CloseDoes
          <6> QED
            BY <6>1
        <5>3. CASE KickQuit(w)
          <6>1. proc'[w] = [at |-> "close", task |-> proc[w].task]
            BY <2>0, <5>3, ProcGoes DEF KickQuit
          <6>2. proc'[w].at = "close" /\ proc'[w].task = proc[w].task
            BY <6>1
          <6> QED
            BY <4>4, <6>2
        <5> QED
          BY <4>4, <5>1, <5>2, <5>3
      <4>5. CASE Reading(recv[w], f, c)
        <5>1. PICK frame \in ToSet(recv[w].read) : frame.code = "login"
          BY <4>5
        <5>2. recv'[w] = recv[w] \/ [fd |-> f, frame |-> frame, from |-> c] \in ToSet(frames'[w])
          BY <2>0, <4>5, ReadMoves
        <5>3. CASE recv'[w] = recv[w]
          BY <3>1, <4>5, <5>3
        <5>4. CASE [fd |-> f, frame |-> frame, from |-> c] \in ToSet(frames'[w])
          <6>1. PICK t \in ToSet(frames'[w]) : t = [fd |-> f, frame |-> frame, from |-> c]
            BY <5>4
          <6>2. t.fd = f /\ t.from = c /\ t.frame.code = "login"
            BY <5>1, <6>1
          <6> QED
            BY <3>1, <6>2
        <5> QED
          BY <5>2, <5>3, <5>4
      <4>6. CASE Queued(frames[w], f, c)
        <5>1. PICK t \in ToSet(frames[w]) : t.fd = f /\ t.from = c /\ t.frame.code = "login"
          BY <4>6
        <5>2. CASE t \in ToSet(frames'[w])
          BY <3>1, <5>1, <5>2
        <5>3. CASE (Login(w) \/ ResetCameraId(w) \/ Picture(w)) /\ Head(frames[w]) = t
          <6>1. Login(w)
            BY <5>1, <5>3 DEF ResetCameraId, Picture, HasFrame
          <6>2. \/ ProcGoto(w, [at |-> "find", task |-> t, what |-> "ack", to |-> f])
                \/ ProcGoto(w, [at |-> "quit", task |-> t])
            BY <5>1, <5>3, <6>1 DEF Login
          <6>3. CASE ProcGoto(w, [at |-> "find", task |-> t, what |-> "ack", to |-> f])
            <7>1. proc'[w] = [at |-> "find", task |-> t, what |-> "ack", to |-> f]
              BY <2>0, <6>3, ProcGoes
            <7>2. proc'[w].at = "find" /\ proc'[w].to = f /\ proc'[w].what = "ack" /\ proc'[w].task = t
              BY <7>1
            <7>3. OnWay(Ack(file[f]), f)'
              BY <2>0, <3>1, <5>1, <7>2 DEF OnWay, Carries
            <7> QED
              BY <7>3
          <6>4. CASE ProcGoto(w, [at |-> "quit", task |-> t])
            <7>1. proc'[w] = [at |-> "quit", task |-> t]
              BY <2>0, <6>4, ProcGoes
            <7>2. proc'[w].at = "quit" /\ proc'[w].task = t
              BY <7>1
            <7> QED
              BY <5>1, <7>2
          <6> QED
            BY <6>2, <6>3, <6>4
        <5> QED
          BY <2>0, <5>2, <5>3, FrameMoves
      <4>7. CASE OnWay(Ack(c), f)
        <5>1. Ack(c) \in Message
          BY <3>1 DEF Message
        <5> QED
          BY <2>3, <3>1, <4>2, <4>7, <5>1, OnWayStep
      <4> QED
        BY <4>3, <4>4, <4>5, <4>6, <4>7
    <3>4. CASE i \notin 1 .. got[c]
      <4>1. ReadData(w) /\ recv[w].fd = f
        BY <1>2, <2>1, <3>1, <3>4, GotMoves
      <4>2. recv[w].at = "read" /\ got' = [got EXCEPT ![c] = sent[c]] /\ got[c] < sent[c] /\ UNCHANGED proc
        BY <4>1 DEF ReadData, RecvAt
      <4>3. CASE ClientMap[f] = None
        BY <3>2, <4>2, <4>3
      <4>4. CASE ClientMap[f] # None
        <5>1. RecvGoto(w, [at |-> "restruct", fd |-> f, from |-> c, of |-> ClientMap[f], read |-> Unread(c)])
          BY <4>1, <4>4 DEF ReadData
        <5>2. recv'[w] = [at |-> "restruct", fd |-> f, from |-> c, of |-> ClientMap[f], read |-> Unread(c)]
          BY <2>0, <5>1, RecvGoes
        <5>3. recv'[w].at = "restruct" /\ recv'[w].fd = f /\ recv'[w].from = c /\ recv'[w].read = Unread(c)
          BY <5>2
        <5>4. Script(c)[i] \in ToSet(Unread(c))
          <6>1. i \in got[c] + 1 .. sent[c] /\ got[c] \in Nat /\ sent[c] \in Nat
            <7>1. got[c] \in Nat /\ sent[c] \in Nat /\ got'[c] = sent[c]
              BY <2>0, <3>1, <4>2
            <7>2. i \in 1 .. sent[c]
              BY <3>1, <7>1
            <7> QED
              BY <3>4, <7>1, <7>2
          <6>2. Script(c) \in Seq(Frame) /\ sent[c] <= Len(Script(c)) /\ Len(Script(c)) \in Nat
            <7>1. conn[c] # "new"
              BY <2>3, <3>1 DEF FilesOpen
            <7>2. c \in DOMAIN setup.script /\ sent[c] <= Len(Script(c))
              BY <3>1, <7>1 DEF TypeOK
            <7> QED
              BY <7>2
          <6> QED
            BY <6>1, <6>2, MembersPart DEF Unread
        <5> QED
          BY <1>2, <3>1, <5>3, <5>4
      <4> QED
        BY <4>3, <4>4
    <3> QED
      BY <3>3, <3>4
  <2> QED
    BY <2>2, <2>3
<1> QED
  BY <1>1, <1>2 DEF LoginsOnWay

\* Frame worker w begins the walk for a picture x of camera k.
Begins(w, k, x) ==
  LET task == proc[w].task
  IN /\ ProcAt(w, "seek") /\ x[1] = task.from
     /\ x[2] \in Conns \ {ClientMap[task.fd]} /\ Watching(x[2], k)
     /\ proc'[w] = [at |-> "walk", task |-> task, camera |-> k, last |-> -1, on |-> None, backs |-> 0]
     /\ UNCHANGED <<client, ClientMap>>

\* A picture becomes due when its walk begins, and is no longer due when the client's
\* type or camera changes.
LEMMA DueMoves ==
  ASSUME TypeOK, Next
  PROVE  /\ \A x \in due' : x \in due \/ \E w \in Workers : \E k : Begins(w, k, x)
         /\ \A d \in Conns : client'[d] = client[d] \/ \A x \in due' : x[2] # d
<1> USE Typed
<1>0. client \in [Conns -> [type : {"none", "phone", "pc"}, camera : Nat]]
  BY DEF TypeOK
<1> DEFINE G == /\ \A x \in due' : x \in due \/ \E w \in Workers : \E k : Begins(w, k, x)
                /\ \A d \in Conns : client'[d] = client[d] \/ \A x \in due' : x[2] # d
<1>1. ASSUME due' \subseteq due, client' = client
      PROVE  G
  BY <1>1
<1>2. CASE Peers \/ EpollThread
  <2>1. due' = due /\ client' = client
    BY <1>2 DEF Peers, Connect, PeerSend, PeerClose, EpollThread, EpollListen, EpollWait, maps, past
  <2> QED
    BY <1>1, <2>1
<1>3. ASSUME NEW w \in Workers, RecvWorker(w)
      PROVE  G
  <2>1. due' = due /\ client' = client
    BY <1>3 DEF RecvWorker, Accept, AddToEpoll, InsertSocket, AddClient, RecvOut, RecvIn, ReadData, RestructFrame,
                ReadNothing, ReadEnd, EndQuit, EndRemove, maps, past
  <2> QED
    BY <1>1, <2>1
<1>4. ASSUME NEW w \in Workers, SendWorker(w)
      PROVE  G
  <2>1. due' = due /\ client' = client
    BY <1>4 DEF SendWorker, SendTake, SendChain, maps, past
  <2> QED
    BY <1>1, <2>1
<1>5. ASSUME NEW w \in Workers, FrameWorker(w)
      PROVE  G
  <2>1. CASE KickQuit(w) \/ KickClose(w) \/ Picture(w) \/ Walk(w) \/ SendFind(w) \/ SendPush(w)
    <3>1. due' \subseteq due /\ client' = client
      <4>1. CASE KickQuit(w) \/ KickClose(w) \/ Picture(w) \/ SendFind(w) \/ SendPush(w)
        BY <4>1 DEF KickQuit, KickClose, Picture, SendFind, SendPush, maps, past
      <4>2. CASE Walk(w)
        BY <4>2 DEF Walk
      <4> QED
        BY <2>1, <4>1, <4>2
    <3> QED
      BY <1>1, <3>1
  <2>2. CASE Login(w) \/ ResetCameraId(w)
    <3> DEFINE c == ClientMap[Head(frames[w]).fd]
    <3>1. (due' = due /\ client' = client) \/ (due' = NoLonger(c) /\ \E v : client' = [client EXCEPT ![c] = v])
               \/ (due' = NoLonger(c) /\ client' = client)
      <4>1. CASE Login(w)
        BY <4>1 DEF Login
      <4>2. CASE ResetCameraId(w)
        BY <4>2 DEF ResetCameraId
      <4> QED
        BY <2>2, <4>1, <4>2
    <3> HIDE DEF c
    <3>2. NoLonger(c) \subseteq due /\ \A x \in NoLonger(c) : x[2] # c
      BY DEF NoLonger
    <3>3. ASSUME NEW v, client' = [client EXCEPT ![c] = v], due' = NoLonger(c)
          PROVE  G
      <4>1. \A d \in Conns : d # c => client'[d] = client[d]
        BY <1>0, <3>3
      <4> QED
        BY <3>2, <3>3, <4>1
    <3> QED
      BY <1>1, <3>1, <3>2, <3>3
  <2>3. CASE Seek(w)
    <3> DEFINE task == proc[w].task
               others(k) == {d \in Conns \ {ClientMap[task.fd]} : Watching(d, k)}
               starts(k) == [at |-> "walk", task |-> task, camera |-> k, last |-> -1, on |-> None, backs |-> 0]
    <3>1. UNCHANGED <<client, ClientMap>> /\ ProcAt(w, "seek")
      BY <2>3 DEF Seek
    <3>2. due' = due \/ \E k : ProcGoto(w, starts(k)) /\ due' = due \cup {<<task.from, d>> : d \in others(k)}
      BY <2>3 DEF Seek
    <3>3. ASSUME NEW k, ProcGoto(w, starts(k)), NEW d \in others(k)
          PROVE  Begins(w, k, <<task.from, d>>)
      <4>1. proc'[w] = starts(k)
        BY <3>3, ProcGoes
      <4>2. d \in Conns \ {ClientMap[task.fd]} /\ Watching(d, k)
        OBVIOUS
      <4> QED
        BY <3>1, <4>1, <4>2 DEF Begins
    <3> HIDE DEF task, others, starts
    <3>4. \A x \in due' : x \in due \/ \E k : Begins(w, k, x)
      BY <3>2, <3>3
    <3> QED
      BY <3>1, <3>4
  <2> QED
    BY <1>5, <2>1, <2>2, <2>3 DEF FrameWorker
<1>6. G
  BY <1>2, <1>3, <1>4, <1>5 DEF Next, Server
<1> HIDE DEF G
<1> QED
  BY <1>6 DEF G

\* An entry of ClientMap appears when the accepting worker is done with it.
LEMMA ClientEntered ==
  ASSUME TypeOK, Next, NEW f \in Fds, ClientMap[f] = None, ClientMap'[f] # None
  PROVE  \E w \in Workers : AddClient(w)
<1> USE Typed
<1>1. ASSUME NEW w \in Workers, EndQuit(w) \/ KickQuit(w)
      PROVE  ClientMap'[f] = None
  <2>1. \E fd : ClientMap' = [ClientMap EXCEPT ![fd] = None]
    BY <1>1 DEF EndQuit, KickQuit
  <2> QED
    BY <2>1
<1>2. ASSUME NEW w \in Workers, InsertSocket(w) \/ EndRemove(w)
      PROVE  FALSE
  BY <1>2 DEF InsertSocket, EndRemove
<1> QED
  BY <1>1, <1>2, MapSteps

\* Once entered, a connection is not added again.
LEMMA EnteredStays ==
  ASSUME TypeOK, FilesOpen, Next, NEW c \in Conns, Entered(c)
  PROVE  Entered(c)'
<1> USE Typed, SetupType
<1>1. Listener' = Listener
  BY Kept DEF Listener
<1>2. conn'[c] \in {"open", "closed"}
  BY ConnMoves DEF Entered
<1>3. ASSUME recv'[Listener].at \in {"add", "insert", "client"}, recv'[Listener].of = c
      PROVE  FALSE
  <2>1. \/ recv[Listener].at \in {"add", "insert", "client"} /\ recv[Listener].of = c
        \/ recv'[Listener].at = "add" /\ recv'[Listener] # recv[Listener]
    BY <1>3, RecvMoves DEF RecvMove
  <2>2. CASE recv'[Listener].at = "add" /\ recv'[Listener] # recv[Listener]
    BY <1>3, <2>2, OpenMoves DEF Entered
  <2> QED
    BY <2>1, <2>2 DEF Entered, Adding
<1> QED
  BY <1>1, <1>2, <1>3 DEF Entered, Adding

LEMMA EntersStep ==
  ASSUME TypeOK, FilesOpen, EntriesOwn, EntersOnce, Next
  PROVE  EntersOnce'
<1> USE Typed, SetupType
<1>1. ASSUME NEW f \in Fds, ClientMap'[f] # None
      PROVE  Entered(ClientMap[f])'
  <2> DEFINE c == ClientMap'[f]
  <2>0. ClientMove(f) /\ c \in Conns
    BY <1>1, MapMoves, MapsType
  <2>1. CASE ClientMap'[f] = ClientMap[f]
    <3>1. PICK d \in Conns : d = ClientMap[f]
      BY <1>1, <2>1
    <3>2. Entered(d)
      BY <1>1, <2>1, <3>1 DEF EntersOnce
    <3>3. Entered(d)'
      BY <3>2, EnteredStays
    <3> QED
      BY <2>1, <3>1, <3>3 DEF Entered
  <2>2. CASE ClientMap'[f] # ClientMap[f]
    <3>1. /\ ClientMap[f] = None /\ c = recv[Listener].of
          /\ recv[Listener].at = "client" /\ recv[Listener].fd = f
      BY <1>1, <2>0, <2>2 DEF ClientMove
    <3>2. conn[c] \in {"open", "closed"}
      BY <2>0, <3>1 DEF EntriesOwn, FilesOpen
    <3>3. conn'[c] \in {"open", "closed"}
      BY <2>0, <3>2, ConnMoves
    <3>4. recv'[Listener].at = "idle"
      <4>1. PICK w \in Workers : AddClient(w)
        BY <1>1, <3>1, ClientEntered
      <4>2. w = Listener /\ recv'[w] = Idle
        BY <4>1, RecvThere, RecvGoes DEF AddClient, RecvAt
      <4> QED
        BY <4>2 DEF Idle
    <3>5. Listener' = Listener
      BY Kept DEF Listener
    <3> QED
      BY <3>3, <3>4, <3>5 DEF Entered, Adding
  <2> QED
    BY <2>1, <2>2
<1>2. ASSUME NEW x \in due'
      PROVE  Entered(x[2])'
  <2>1. due \subseteq Conns \X Conns /\ due' \subseteq Conns \X Conns
    BY ClientsType DEF TypeOK
  <2>2. Entered(x[2])
    <3>1. CASE x \in due
      BY <3>1 DEF EntersOnce
    <3>2. CASE x \notin due
      <4>1. PICK k : Watching(x[2], k)
        BY <1>2, <3>2, DueMoves DEF Begins
      <4>2. PICK f \in Fds : {file[f], m_SocketInfo[f], ClientMap[f]} = {x[2]}
        BY <4>1 DEF Watching
      <4>3. ClientMap[f] = x[2] /\ x[2] # None
        BY <1>2, <2>1, <4>2
      <4> QED
        BY <4>3 DEF EntersOnce
    <3> QED
      BY <3>1, <3>2
  <2>3. PICK d \in Conns : d = x[2]
    BY <1>2, <2>1
  <2> QED
    BY <2>2, <2>3, EnteredStays
<1> QED
  BY <1>1, <1>2 DEF EntersOnce

\* A walk that has yet to come to the entry of a PC that watches the camera goes on, or
\* comes to it; if it goes astray, the PC's picture is no longer due.
LEMMA WalkGoesOn ==
  ASSUME TypeOK, NEW w \in Workers, Walk(w), NEW c \in Conns, NEW f \in Fds, WalksTo(proc[w], c, f),
         ClientMap[f] # None, client[ClientMap[f]].type = "pc",
         <<c, ClientMap[f]>> \in due'
  PROVE  \/ WalksTo(proc[w], c, f)'
         \/ (proc[w].at \in {"find", "push"} /\ WalksTo(AfterSend(w), c, f))'
         \/ Carries(proc[w], [what |-> "picture", from |-> c], f)'
<1> USE Typed
<1> DEFINE p == proc[w]
           there(y) == [p EXCEPT !.last = y[1], !.on = y[2], !.backs = IF y[1] > p.last THEN @ ELSE @ + 1]
           finds(y) == [at |-> "find", task |-> p.task, what |-> "picture", to |-> y[1], walk |-> there(y)]
<1>0. \A h \in Fds : h \in Int
  OBVIOUS
<1>1. /\ p.at = "walk" /\ p.task.from = c /\ p.task.fd # f /\ p.last < f /\ p.camera = client[ClientMap[f]].camera
      /\ p.last \in Int /\ f \in Int
  <2>1. p.at = "walk" /\ p.task.from = c /\ p.task.fd # f /\ p.last < f /\ p.camera = client[ClientMap[f]].camera
    BY DEF WalksTo
  <2>2. p.last \in Fds \cup {-1}
    BY <2>1, ProcThere DEF Walking
  <2>3. p.last \in Int
    BY ONLY <1>0, <2>2
  <2> QED
    BY <1>0, <2>1, <2>3
<1>2. <<f, ClientMap[f]>> \in Ahead(w) /\ \A y \in Ahead(w) : y[1] \in Fds /\ y[2] = ClientMap[y[1]]
  <2>1. ClientMap[f] \in Conns
    OBVIOUS
  <2> QED
    BY <1>1, <2>1 DEF Ahead, Mapped
<1>3. ~ Astray(w)
  <2>1. ASSUME Astray(w)
        PROVE  FALSE
    <3>1. due' = due \ {<<p.task.from, y[2]>> : y \in Ahead(w)}
      BY <2>1 DEF Walk
    <3>2. <<c, ClientMap[f]>> \in {<<p.task.from, y[2]>> : y \in Ahead(w)}
      BY <1>1, <1>2
    <3> QED
      BY <3>1, <3>2
  <2> QED
    BY <2>1
<1>4. UNCHANGED <<ClientMap, client>>
  BY DEF Walk
<1>5. PICK y \in Ahead(w) : /\ ProcGoto(w, IF Watches(y, w) THEN finds(y) ELSE there(y))
                            /\ \A z \in Ahead(w) : y[1] <= z[1]
  <2>1. Ahead(w) # {} /\ NextEntries(w) = {y \in Ahead(w) : \A z \in Ahead(w) : y[1] <= z[1]}
    BY <1>2, <1>3 DEF NextEntries
  <2> QED
    BY <1>3, <2>1 DEF Walk
<1> DEFINE g == y[1]
<1>6. g \in Fds /\ g \in Int /\ g <= f /\ y[2] = ClientMap[g]
  BY <1>0, <1>2, <1>5
<1>7. proc'[w] = IF Watches(y, w) THEN finds(y) ELSE there(y)
  BY <1>5, ProcGoes
<1>10. there(y).at = "walk" /\ there(y).task = p.task /\ there(y).camera = p.camera /\ there(y).last = g
  <2>1. Walking(p, w)
    BY <1>1, ProcThere
  <2> QED
    BY <2>1 DEF Walking
<1> HIDE DEF there
<1>8. CASE g # f
  <2>1. g < f
    BY <1>1, <1>6, <1>8
  <2>2. CASE Watches(y, w)
    <3>2. proc'[w].at = "find" /\ proc'[w].what = "picture" /\ proc'[w].walk = there(y)
      BY <1>7, <2>2
    <3>3. AfterSend(w)' = there(y)
      BY <3>2 DEF AfterSend
    <3> HIDE DEF finds
    <3>4. WalksTo(AfterSend(w), c, f)'
      BY <1>1, <1>4, <1>10, <2>1, <3>3 DEF WalksTo
    <3> QED
      BY <3>2, <3>4
  <2>3. CASE ~ Watches(y, w)
    <3>1. proc'[w] = there(y)
      BY <1>7, <2>3
    <3>2. WalksTo(proc[w], c, f)'
      BY <1>1, <1>4, <1>10, <2>1, <3>1 DEF WalksTo
    <3> QED
      BY <3>2
  <2> QED
    BY <2>2, <2>3
<1>9. CASE g = f
  <2>1. client[y[2]] = [type |-> "pc", camera |-> p.camera]
    <3>1. client[ClientMap[f]] \in [type : {"none", "phone", "pc"}, camera : Nat]
      BY DEF TypeOK
    <3> QED
      BY <1>1, <1>6, <1>9, <3>1
  <2>2. Watches(y, w)
    BY <1>1, <1>9, <2>1 DEF Watches
  <2>4. proc'[w].at = "find" /\ proc'[w].what = "picture" /\ proc'[w].to = f /\ proc'[w].task = p.task
    BY <1>7, <1>9, <2>2
  <2>5. Carries(proc[w], [what |-> "picture", from |-> c], f)'
    BY <1>1, <2>4 DEF Carries
  <2> QED
    BY <2>5
<1> QED
  BY <1>8, <1>9

\* A walk that is interrupted to send to another client goes on.
LEMMA SendGoesOn ==
  ASSUME TypeOK, NEW w \in Workers, SendFind(w) \/ SendPush(w), NEW c \in Conns, NEW f \in Fds,
         WalksTo(AfterSend(w), c, f)
  PROVE  \/ WalksTo(proc[w], c, f)'
         \/ (proc[w].at \in {"find", "push"} /\ WalksTo(AfterSend(w), c, f))'
<1> USE Typed
<1> DEFINE p == proc[w]
           pushes == [at |-> "push", of |-> m_SocketInfo[p.to], what |-> p.what, to |-> p.to,
                      task |-> p.task, walk |-> p.walk]
<1>1. p.what = "picture" /\ AfterSend(w) = p.walk
  BY DEF AfterSend, WalksTo, Idle
<1>2. UNCHANGED <<ClientMap, client>>
  BY DEF SendFind, SendPush, maps
<1>3. proc'[w] = p.walk \/ proc'[w] = pushes
  <2>1. CASE SendFind(w)
    <3>1. ProcGoto(w, p.walk) \/ ProcGoto(w, pushes)
      BY <1>1, <2>1 DEF SendFind
    <3> QED
      BY <3>1, ProcGoes
  <2>2. CASE SendPush(w)
    BY <2>2, ProcGoes DEF SendPush
  <2> QED
    BY <2>1, <2>2
<1>4. CASE proc'[w] = p.walk
  BY <1>1, <1>2, <1>4 DEF WalksTo
<1>5. CASE proc'[w] = pushes
  <2>1. proc'[w].at = "push" /\ proc'[w].what = "picture" /\ proc'[w].walk = p.walk
    BY <1>1, <1>5
  <2>2. AfterSend(w)' = p.walk
    BY <2>1 DEF AfterSend
  <2> QED
    BY <1>1, <1>2, <2>1, <2>2 DEF WalksTo
<1> QED
  BY <1>3, <1>4, <1>5

\* A PC that has its entries in the next state has them already.
LEMMA WatchesBefore ==
  ASSUME TypeOK, FilesOpen, Next, NEW d \in Conns, Entered(d), NEW f \in Fds,
         {file'[f], m_SocketInfo'[f], ClientMap'[f]} = {d}
  PROVE  {file[f], m_SocketInfo[f], ClientMap[f]} = {d}
<1> USE Typed, SetupType
<1>0. file'[f] = d /\ m_SocketInfo'[f] = d /\ ClientMap'[f] = d /\ d # None
  OBVIOUS
<1>1. file[f] = d
  BY <1>0, FileMoves DEF FileMove, Entered
<1>2. ~ (recv[Listener].at \in {"insert", "client"} /\ recv[Listener].of = d)
  BY DEF Entered, Adding
<1>3. m_SocketInfo[f] = d
  BY <1>0, <1>2, MapMoves DEF SocketMove
<1>4. ClientMap[f] = d
  BY <1>0, <1>2, MapMoves DEF ClientMove
<1> QED
  BY <1>1, <1>3, <1>4

LEMMA PicturesStep ==
  ASSUME TypeOK, FilesOpen, OneDescriptor, EntersOnce, PicturesOnWay, Next
  PROVE  PicturesOnWay'
<1> USE Typed
<1>0. due \subseteq Conns \X Conns /\ due' \subseteq Conns \X Conns
  BY ClientsType DEF TypeOK
<1>1. ASSUME NEW x \in due', NEW f \in Fds, NEW c \in Conns, NEW d \in Conns, x[1] = c, x[2] = d,
             {file'[f], m_SocketInfo'[f], ClientMap'[f]} = {d}, client'[d].type = "pc"
      PROVE  \/ \E w \in Workers : \/ WalksTo(proc[w], c, f)'
                                   \/ (proc[w].at \in {"find", "push"} /\ WalksTo(AfterSend(w), c, f))'
             \/ OnWay([what |-> "picture", from |-> c], f)'
  <2> DEFINE m == [what |-> "picture", from |-> c]
             G == \/ \E w \in Workers : \/ WalksTo(proc[w], c, f)'
                                        \/ (proc[w].at \in {"find", "push"} /\ WalksTo(AfterSend(w), c, f))'
                  \/ OnWay(m, f)'
  <2>0. m \in Message /\ d # None /\ ClientMap'[f] = d /\ m_SocketInfo'[f] = d /\ file'[f] = d
    BY <1>1 DEF Message
  <2> HIDE DEF m
  <2>1. CASE x \in due
    <3>1. Entered(d)
      BY <1>1, <2>1 DEF EntersOnce
    <3>2. file[f] = d /\ m_SocketInfo[f] = d /\ ClientMap[f] = d
      <4>1. {file[f], m_SocketInfo[f], ClientMap[f]} = {d}
        BY <1>1, <3>1, WatchesBefore
      <4> QED
        BY <4>1
    <3>3. client'[d] = client[d]
      BY <1>1, DueMoves
    <3>4. \/ \E w \in Workers : \/ WalksTo(proc[w], c, f)
                                \/ proc[w].at \in {"find", "push"} /\ WalksTo(AfterSend(w), c, f)
          \/ OnWay(m, f)
      <4>1. {file[f], m_SocketInfo[f], ClientMap[f]} = {x[2]} /\ client[x[2]].type = "pc"
        BY <1>1, <3>2, <3>3
      <4> QED
        BY <1>1, <2>1, <4>1 DEF PicturesOnWay, m
    <3>5. ASSUME OnWay(m, f)
          PROVE  OnWay(m, f)'
      <4>1. file[f] # None /\ file'[f] = file[f] /\ m_SocketInfo[f] # None /\ m_SocketInfo'[f] = m_SocketInfo[f]
        BY <2>0, <3>2
      <4> QED
        BY <2>0, <3>5, <4>1, OnWayStep
    <3>6. ASSUME NEW w \in Workers, WalksTo(proc[w], c, f)
          PROVE  G
      <4>1. proc'[w] = proc[w] \/ Walk(w)
        BY <3>6, ProcOwn DEF WalksTo, FrameWorker, Login, KickQuit, KickClose, ResetCameraId, Picture, Seek, SendFind,
                             SendPush, HasFrame, ProcAt
      <4>2. CASE proc'[w] = proc[w]
        <5>1. WalksTo(proc[w], c, f)'
          BY <2>0, <3>2, <3>3, <3>6, <4>2 DEF WalksTo
        <5> QED
          BY <5>1
      <4>3. CASE Walk(w)
        <5>1. \/ WalksTo(proc[w], c, f)'
              \/ (proc[w].at \in {"find", "push"} /\ WalksTo(AfterSend(w), c, f))'
              \/ Carries(proc[w], m, f)'
          <6>1. <<c, ClientMap[f]>> \in due' /\ ClientMap[f] # None /\ client[ClientMap[f]].type = "pc"
            <7>1. x = <<c, d>>
              BY <1>0, <1>1
            <7> QED
              BY <1>1, <2>0, <3>2, <3>3, <7>1
          <6> QED
            BY <3>6, <4>3, <6>1, WalkGoesOn DEF m
        <5>2. Carries(proc[w], m, f)' => OnWay(m, f)'
          BY DEF OnWay
        <5> QED
          BY <5>1, <5>2
      <4> QED
        BY <4>1, <4>2, <4>3
    <3>7. ASSUME NEW w \in Workers, proc[w].at \in {"find", "push"}, WalksTo(AfterSend(w), c, f)
          PROVE  G
      <4>1. proc'[w] = proc[w] \/ SendFind(w) \/ SendPush(w)
        BY <3>7, ProcOwn DEF FrameWorker, Login, KickQuit, KickClose, ResetCameraId, Picture, Seek, Walk, HasFrame, ProcAt
      <4>2. CASE proc'[w] = proc[w]
        <5>1. AfterSend(w)' = AfterSend(w)
          BY <4>2 DEF AfterSend
        <5>2. (proc[w].at \in {"find", "push"} /\ WalksTo(AfterSend(w), c, f))'
          BY <2>0, <3>2, <3>3, <3>7, <4>2, <5>1 DEF WalksTo
        <5> QED
          BY <5>2
      <4>3. CASE SendFind(w) \/ SendPush(w)
        BY <3>7, <4>3, SendGoesOn
      <4> QED
        BY <4>1, <4>2, <4>3
    <3> QED
      BY <3>4, <3>5, <3>6, <3>7 DEF m
  \* The walk begins.
  <2>2. CASE x \notin due
    <3>0. PICK w \in Workers : \E k : Begins(w, k, x)
      BY <1>1, <2>2, DueMoves
    <3>1. PICK k : Begins(w, k, x)
      BY <3>0
    <3> DEFINE task == proc[w].task
    <3>2. /\ proc'[w] = [at |-> "walk", task |-> task, camera |-> k, last |-> -1, on |-> None, backs |-> 0]
          /\ UNCHANGED <<ClientMap, client>> /\ c = task.from /\ d # ClientMap[task.fd] /\ Watching(d, k)
      BY <1>1, <3>1 DEF Begins
    <3>4. proc'[w].at = "walk" /\ proc'[w].task = task /\ proc'[w].camera = k /\ proc'[w].last = -1
      BY <3>2
    <3>5. client[d].camera = k
      <4>1. client[d] = [type |-> "pc", camera |-> k]
        BY <3>2 DEF Watching
      <4> QED
        BY <4>1
    <3>6. task.fd # f
      BY <2>0, <3>2
    <3>7. -1 < f
      <4>1. f \in Nat
        OBVIOUS
      <4> QED
        BY ONLY <4>1
    <3> HIDE DEF task
    <3>8. WalksTo(proc[w], c, f)'
      BY <2>0, <3>2, <3>4, <3>5, <3>6, <3>7 DEF WalksTo
    <3> QED
      BY <3>8
  <2> QED
    BY <2>1, <2>2
<1>2. ASSUME NEW x \in due', NEW f \in Fds,
             {file'[f], m_SocketInfo'[f], ClientMap'[f]} = {x[2]}, client'[x[2]].type = "pc"
      PROVE  \/ \E w \in Workers : \/ WalksTo(proc[w], x[1], f)'
                                   \/ (proc[w].at \in {"find", "push"} /\ WalksTo(AfterSend(w), x[1], f))'
             \/ OnWay([what |-> "picture", from |-> x[1]], f)'
  <2>1. PICK c \in Conns, d \in Conns : x[1] = c /\ x[2] = d
    BY <1>0
  <2> QED
    BY <1>1, <1>2, <2>1
<1> QED
  BY <1>2 DEF PicturesOnWay

-----------------------------------------------------------------------------
(* The inductive invariant                                                  *)

LEMMA InvInit ==
  ASSUME Init
  PROVE  Inv
<1>1. Entries
  BY EntriesInit
<1> USE Typed
<1>2. /\ \A w \in Workers : recv[w].at = "idle" /\ proc[w].at = "idle" /\ send[w].at = "idle"
      /\ \A f \in Fds : file[f] = None /\ m_SocketInfo[f] = None /\ ClientMap[f] = None
      /\ \A c \in Conns : conn[c] = "new" /\ got[c] = 0
      /\ due = {}
  BY DEF Init, Idle
<1>3. OneDescriptor
  <2>1. ASSUME NEW c \in Conns, NEW f \in Fds
        PROVE  ~ Under(c, f)
    <3>1. c \notin {file[f], m_SocketInfo[f], ClientMap[f]}
      BY <1>2, ConnectionAssumption
    <3>2. \A w \in Workers : ~ Adding(w) /\ send[w].at # "send" /\ proc[w].at # "push"
      BY <1>2 DEF Adding
    <3> QED
      BY <3>1, <3>2 DEF Under
  <2> QED
    BY <1>2, <2>1 DEF OneDescriptor
<1>4. Attended /\ ClientsExplained /\ EntriesFirst /\ LoginsOnWay
  BY <1>2 DEF Attended, ClientsExplained, EntriesFirst, LoginsOnWay
<1>5. UnreadAtFirst /\ EntersOnce /\ PicturesOnWay
  BY <1>2 DEF UnreadAtFirst, EntersOnce, PicturesOnWay
<1> QED
  BY <1>1, <1>3, <1>4, <1>5 DEF Inv

LEMMA InvStep ==
  ASSUME Inv, [Next]_vars
  PROVE  Inv'
<1>1. Entries /\ Entries' /\ TypeOK /\ FilesOpen /\ EntriesOwn
  BY EntriesStep DEF Inv, Entries
<1>2. CASE Next
  <2>1. OneDescriptor' /\ Attended' /\ ClientsExplained' /\ EntriesFirst' /\ UnreadAtFirst'
    BY <1>1, <1>2, OneDescriptorStep, AttendedStep, ClientsStep, EntriesFirstStep, UnreadStep DEF Inv
  <2>2. LoginsOnWay' /\ EntersOnce' /\ PicturesOnWay'
    BY <1>1, <1>2, LoginsStep, EntersStep, PicturesStep DEF Inv
  <2> QED
    BY <1>1, <2>1, <2>2 DEF Inv
<1>3. CASE UNCHANGED vars
  <2>1. UNCHANGED <<setup, conn, sent, got, gone, file, watched, ready, tasks, recv, kicked, due>>
        /\ UNCHANGED <<m_SocketInfo, ClientMap, client, frames, proc, chain, sendTasks, send, inbox>>
    BY <1>3 DEF vars, peers, kernel, maps, sending, past
  <2>2. /\ Listener' = Listener /\ (\A c : Script(c)' = Script(c))
        /\ \A w : Adding(w)' = Adding(w) /\ AfterSend(w)' = AfterSend(w)
    BY <2>1 DEF Listener, Script, Adding, AfterSend
  <2>3. \A f : WorkerOf(f)' = WorkerOf(f) /\ Removing(f)' = Removing(f)
    BY <2>1 DEF WorkerOf, Removing
  <2>4. \A m, f : OnWay(m, f)' = OnWay(m, f)
    BY <2>1, <2>3 DEF OnWay, OnChain, Carries
  <2>5. OneDescriptor'
    <3>1. \A c, f : Under(c, f)' = Under(c, f)
      BY <2>1, <2>2 DEF Under
    <3> QED
      BY <2>1, <3>1 DEF Inv, OneDescriptor
  <2>6. Attended' /\ ClientsExplained' /\ EntriesFirst' /\ UnreadAtFirst'
    <3>1. Attended'
      BY <2>1, <2>2, <2>3 DEF Inv, Attended
    <3>2. ClientsExplained'
      BY <2>1, <2>2, <2>3 DEF Inv, ClientsExplained
    <3>3. EntriesFirst' /\ UnreadAtFirst'
      BY <2>1, <2>2, <2>3 DEF Inv, EntriesFirst, UnreadAtFirst
    <3> QED
      BY <3>1, <3>2, <3>3
  <2>7. LoginsOnWay'
    BY <2>1, <2>2, <2>3, <2>4 DEF Inv, LoginsOnWay
  <2>8. EntersOnce'
    BY <2>1, <2>2 DEF Inv, EntersOnce, Entered
  <2>9. PicturesOnWay'
    <3> SUFFICES ASSUME NEW x \in due, NEW f \in Fds,
                        {file[f], m_SocketInfo[f], ClientMap[f]} = {x[2]}, client[x[2]].type = "pc"
                 PROVE  \/ \E w \in Workers : \/ WalksTo(proc[w], x[1], f)'
                                              \/ (proc[w].at \in {"find", "push"} /\ WalksTo(AfterSend(w), x[1], f))'
                        \/ OnWay([what |-> "picture", from |-> x[1]], f)'
      BY <2>1 DEF PicturesOnWay
    <3>1. \A w : /\ WalksTo(proc[w], x[1], f) => WalksTo(proc[w], x[1], f)'
                 /\ WalksTo(AfterSend(w), x[1], f) => WalksTo(AfterSend(w), x[1], f)'
      BY <2>1, <2>2 DEF WalksTo
    <3> QED
      BY <2>1, <2>4, <3>1 DEF Inv, PicturesOnWay
  <2> QED
    BY <1>1, <2>5, <2>6, <2>7, <2>8, <2>9 DEF Inv
<1> QED
  BY <1>2, <1>3

\* Inv always holds: besides Entries, that a connection has one descriptor in its life,
\* that what its peer sends is attended to, and that what is due to a peer is in the
\* hands of some worker until it comes (EpollServer.cpp, RecvDataProc.cpp).
THEOREM InvHolds == Spec => []Inv
<1>1. Init => Inv
  BY InvInit
<1>2. Inv /\ [Next]_vars => Inv'
  BY InvStep
<1> QED
  BY <1>1, <1>2, PTL DEF Spec

-----------------------------------------------------------------------------
(* At rest                                                                  *)

\* At rest every connection with a descriptor is read to what was sent, and its peer is
\* there.
LEMMA RestAttended ==
  ASSUME Inv, AtRest, NEW f \in Fds, file[f] # None
  PROVE  got[file[f]] = sent[file[f]] /\ file[f] \notin gone
<1>1. TypeOK /\ Attended
  BY DEF Inv, Entries
<1> USE <1>1, Typed, SetupType, WorkerOfType
<1>2. \A w \in Workers : tasks[w] = <<>> /\ recv[w].at = "idle"
  BY DEF AtRest, Idle
<1>3. ToSet(tasks[WorkerOf(f)]) = {}
  BY <1>2, LenProperties, EmptySeq DEF ToSet
<1>4. ~ (got[file[f]] < sent[file[f]] \/ file[f] \in gone)
  BY <1>2, <1>3 DEF Attended, AtRest
<1>5. file[f] \in Conns
  OBVIOUS
<1>6. got[file[f]] <= sent[file[f]] /\ got[file[f]] \in Nat /\ sent[file[f]] \in Nat
  BY <1>5 DEF TypeOK
<1> QED
  BY <1>4, <1>6

\* At rest a message on its way has come.
LEMMA RestReceived ==
  ASSUME Inv, AtRest, NEW f \in Fds, NEW m, OnWay(m, f)
  PROVE  m \in inbox[file[f]]
<1>1. TypeOK
  BY DEF Inv, Entries
<1> USE <1>1, Typed, WorkerOfType
<1>2. \A w \in Workers : sendTasks[w] = <<>> /\ proc[w].at = "idle" /\ send[w].at = "idle"
  BY DEF AtRest, Idle
<1>3. ToSet(sendTasks[WorkerOf(f)]) = {}
  BY <1>2, LenProperties, EmptySeq DEF ToSet
<1> QED
  BY <1>2, <1>3 DEF OnWay, OnChain, Carries

LEMMA RestAnswered ==
  ASSUME Inv
  PROVE  AnsweredAtRest
<1>1. TypeOK /\ LoginsOnWay
  BY DEF Inv, Entries
<1> USE <1>1, Typed, SetupType
<1> SUFFICES ASSUME AtRest, NEW f \in Fds, file[f] # None, LogsIn(file[f]), WorkerOf(f) = Listener
             PROVE  Answered(file[f])
  BY DEF AnsweredAtRest
<1>2. got[file[f]] = sent[file[f]]
  BY RestAttended
<1>3. \E i \in 1 .. got[file[f]] : Script(file[f])[i].code = "login"
  BY <1>2 DEF LogsIn
<1>4. recv[Listener].at = "idle" /\ proc[Listener].at = "idle" /\ frames[Listener] = <<>>
  BY DEF AtRest, Idle
<1>5. ToSet(frames[Listener]) = {}
  BY <1>4, LenProperties, EmptySeq DEF ToSet
<1>6. OnWay([what |-> "ack", from |-> file[f]], f)
  BY <1>3, <1>4, <1>5 DEF LoginsOnWay
<1> QED
  BY <1>6, RestReceived DEF Answered

LEMMA RestReleased ==
  ASSUME Inv
  PROVE  ReleasedAtRest
<1>1. TypeOK /\ OneDescriptor /\ ClientsExplained /\ LeftoversExplained
  BY DEF Inv, Entries
<1> USE <1>1, Typed, WorkerOfType
<1> SUFFICES ASSUME AtRest, NEW c \in gone
             PROVE  /\ conn[c] # "open"
                    /\ c \in kicked \/ \A f \in Fds : c \in {m_SocketInfo[f], ClientMap[f]} => WorkerOf(f) # Listener
  BY DEF ReleasedAtRest
<1>2. c \in Conns
  BY DEF TypeOK
<1>3. \A f \in Fds : file[f] # c
  BY <1>2, RestAttended
<1>4. conn[c] # "open"
  BY <1>2, <1>3 DEF OneDescriptor
<1>5. ASSUME NEW f \in Fds, c \in {m_SocketInfo[f], ClientMap[f]}
      PROVE  c \in kicked \/ WorkerOf(f) # Listener
  <2>1. recv[WorkerOf(f)].at = "idle"
    <3>1. \A w \in Workers : recv[w].at = "idle"
      BY DEF AtRest, Idle
    <3> QED
      BY <3>1
  <2>2. CASE m_SocketInfo[f] = c
    BY <1>2, <1>3, <2>1, <2>2 DEF LeftoversExplained, Removing
  <2>3. CASE ClientMap[f] = c
    BY <1>2, <1>3, <2>1, <2>3 DEF ClientsExplained
  <2> QED
    BY <1>5, <2>2, <2>3
<1> QED
  BY <1>4, <1>5

LEMMA RestPictures ==
  ASSUME Inv
  PROVE  PicturesAtRest
<1>1. TypeOK /\ PicturesOnWay
  BY DEF Inv, Entries
<1> SUFFICES ASSUME AtRest, NEW x \in due, Watching(x[2], client[x[2]].camera)
             PROVE  [what |-> "picture", from |-> x[1]] \in inbox[x[2]]
  BY DEF PicturesAtRest
<1>2. PICK f \in Fds : {file[f], m_SocketInfo[f], ClientMap[f]} = {x[2]}
  BY DEF Watching
<1>3. client[x[2]].type = "pc"
  BY DEF Watching
<1>4. \A w \in Workers : proc[w].at = "idle"
  BY DEF AtRest, Idle
<1>5. OnWay([what |-> "picture", from |-> x[1]], f)
  BY <1>1, <1>2, <1>3, <1>4 DEF PicturesOnWay, WalksTo
<1>6. file[f] = x[2]
  BY <1>2
<1> QED
  BY <1>5, <1>6, RestReceived

\* When no thread has anything to do, a peer that has sent a login and still has its
\* connection has its acknowledgement, if the worker of its descriptor accepted it
\* (EpollServer.cpp:46, RecvDataProc.cpp NewClient).
THEOREM LoginsAreAnswered == Spec => []AnsweredAtRest
<1>1. Inv => AnsweredAtRest
  BY RestAnswered
<1> QED
  BY <1>1, InvHolds, PTL

\* When no thread has anything to do, a connection whose peer has closed is closed and
\* out of both maps, but for a bad login or another accepting worker (EpollServer.cpp:109).
THEOREM ConnectionsAreReleased == Spec => []ReleasedAtRest
<1>1. Inv => ReleasedAtRest
  BY RestReleased
<1> QED
  BY <1>1, InvHolds, PTL

\* When no thread has anything to do, a PC that watched the camera from the start of the
\* walk on has received the picture, unless the walk left an entry before the PC's while
\* ClientMap was being changed, or after that entry had been erased
\* (RecvDataProc.cpp:287).
THEOREM PicturesCome == Spec => []PicturesAtRest
<1>1. Inv => PicturesAtRest
  BY RestPictures
<1> QED
  BY <1>1, InvHolds, PTL
=============================================================================
