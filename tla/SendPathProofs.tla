---------------------------- MODULE SendPathProofs ----------------------------
(***************************************************************************)
(* Inv of SendPath is inductive, for any number of frame workers, blocks and *)
(* units of buffer, and implies the safety properties.                      *)
(***************************************************************************)
EXTENDS SendPath, FiniteSetTheorems, SequenceTheorems, TLAPS

USE SendAssumption

-----------------------------------------------------------------------------
(* Lemmas about the operators                                               *)

\* What is pushed is a node behind the others.
LEMMA PushedNode ==
  ASSUME OutputChain \in Seq(Node), pushed \in Nat, NEW n \in Nat \ {0}
  PROVE  /\ ChainPush(n) \in Seq(Node)
         /\ Len(ChainPush(n)) = Len(OutputChain) + 1
         /\ \A i \in 1 .. Len(OutputChain) : ChainPush(n)[i] = OutputChain[i]
         /\ ChainPush(n)[Len(OutputChain) + 1] = [first |-> pushed + 1, len |-> n, begin |-> 0]
<1> DEFINE node == [first |-> pushed + 1, len |-> n, begin |-> 0]
<1>1. node \in Node
  BY DEF Node
<1> HIDE DEF node
<1>2. ChainPush(n) = Append(OutputChain, node)
  BY DEF ChainPush, node
<1>3. /\ Append(OutputChain, node) \in Seq(Node)
      /\ Len(Append(OutputChain, node)) = Len(OutputChain) + 1
      /\ \A i \in 1 .. Len(OutputChain) : Append(OutputChain, node)[i] = OutputChain[i]
      /\ Append(OutputChain, node)[Len(OutputChain) + 1] = node
  BY <1>1, AppendProperties
<1> QED
  BY <1>2, <1>3 DEF node

\* The head of a chain and what is behind it.
LEMMA HeadAndRest ==
  ASSUME OutputChain \in Seq(Node), OutputChain # <<>>
  PROVE  /\ Len(OutputChain) \in Nat \ {0}
         /\ Head(OutputChain) = OutputChain[1]
         /\ OutputChain[1] \in Node
         /\ DeleteHead \in Seq(Node)
         /\ Len(DeleteHead) = Len(OutputChain) - 1
         /\ \A i \in 1 .. Len(OutputChain) - 1 : DeleteHead[i] = OutputChain[i + 1]
<1>1. Len(OutputChain) \in Nat \ {0}
  OBVIOUS
<1> QED
  BY <1>1, HeadTailProperties DEF DeleteHead

\* Sending part of the first node moves its begin and leaves the others.
LEMMA AdvancedNode ==
  ASSUME OutputChain \in Seq(Node), OutputChain # <<>>, NEW n \in Nat
  PROVE  LET advanced == [OutputChain EXCEPT ![1] = Advance(@, n)]
             node == OutputChain[1]
         IN  /\ advanced \in Seq(Node)
             /\ Len(advanced) = Len(OutputChain)
             /\ advanced[1] = [first |-> node.first, len |-> node.len, begin |-> node.begin + n]
             /\ \A i \in 2 .. Len(OutputChain) : advanced[i] = OutputChain[i]
<1>1. OutputChain[1] \in Node
  BY HeadAndRest
<1>2. Advance(OutputChain[1], n) \in Node
  BY <1>1 DEF Advance, Node
<1>3. 1 \in 1 .. Len(OutputChain)
  BY HeadAndRest
<1> QED
  BY <1>2, <1>3, ExceptSeq DEF Advance

\* The frame workers that have a block are finitely many, and change one by one.
LEMMA HoldersFinite == IsFiniteSet(Holders) /\ Cardinality(Holders) \in Nat
<1>1. Holders \subseteq Workers
  BY DEF Holders
<1>2. IsFiniteSet(Holders)
  BY <1>1, FS_Subset
<1> QED
  BY <1>2, FS_CardinalityType

LEMMA HolderComes ==
  ASSUME TypeOK, NEW w \in Workers, NEW place \in {"find", "push"},
         work[w] \notin {"find", "push"}, work' = [work EXCEPT ![w] = place]
  PROVE  Cardinality(Holders') = Cardinality(Holders) + 1
<1>1. Holders' = Holders \cup {w} /\ w \notin Holders
  BY DEF Holders, TypeOK
<1> QED
  BY <1>1, HoldersFinite, FS_AddElement

LEMMA HolderGoes ==
  ASSUME TypeOK, NEW w \in Workers, NEW place \in {"idle", "check"},
         work[w] \in {"find", "push"}, work' = [work EXCEPT ![w] = place]
  PROVE  Cardinality(Holders') = Cardinality(Holders) - 1
<1>1. Holders' = Holders \ {w} /\ w \in Holders
  BY DEF Holders, TypeOK
<1> QED
  BY <1>1, HoldersFinite, FS_RemoveElement

-----------------------------------------------------------------------------
(* Blocks and types                                                         *)

\* A block is taken, put on the chain, and given back once by one thread.
LEMMA BlocksStep ==
  ASSUME Inv, Next
  PROVE  pool' \in Nat /\ BlocksOnce'
<1> USE DEF Inv, TypeOK, BlocksOnce
<1>1. Len(OutputChain) \in Nat /\ Cardinality(Holders) \in Nat
  BY HoldersFinite
<1>2. CASE UNCHANGED <<pool, OutputChain, work>>
  BY <1>2 DEF Holders
<1>3. CASE RemoveDrain
  <2>1. pool' = pool + Len(OutputChain) /\ OutputChain' = <<>> /\ UNCHANGED work
    BY <1>3 DEF RemoveDrain, producers
  <2>2. Holders' = Holders /\ Len(OutputChain') = 0
    BY <2>1 DEF Holders
  <2> QED
    BY <1>1, <2>1, <2>2
<1>4. CASE SentPart
  <2>1. Len(OutputChain') = Len(OutputChain) /\ UNCHANGED <<pool, work>>
    BY <1>4, AdvancedNode DEF SentPart, producers, Returned
  <2>2. Holders' = Holders
    BY <2>1 DEF Holders
  <2> QED
    BY <1>1, <2>1, <2>2
<1>5. CASE SentWhole
  <2>1. Len(OutputChain') = Len(OutputChain) - 1 /\ pool' \in {pool, pool + 1} /\ UNCHANGED work
    BY <1>5, HeadAndRest DEF SentWhole, producers, Returned
  <2>2. Holders' = Holders
    BY <2>1 DEF Holders
  <2> QED
    BY <1>1, <2>1, <2>2
<1>6. ASSUME NEW w \in Workers, GetBlock(w)
      PROVE  pool' \in Nat /\ BlocksOnce'
  <2>1. pool' = pool - 1 /\ pool > 0 /\ UNCHANGED OutputChain
    BY <1>6 DEF GetBlock, sock
  <2>2. Cardinality(Holders') = Cardinality(Holders) + 1
    BY <1>6, HolderComes DEF GetBlock
  <2> QED
    BY <1>1, <2>1, <2>2
<1>7. ASSUME NEW w \in Workers, Find(w)
      PROVE  pool' \in Nat /\ BlocksOnce'
  <2>1. CASE info = "listed"
    <3>1. Holders' = Holders /\ UNCHANGED <<pool, OutputChain>>
      BY <1>7, <2>1 DEF Find, Holders, sock
    <3> QED
      BY <1>1, <3>1
  <2>2. CASE info # "listed"
    <3>1. pool' = pool + 1 /\ UNCHANGED OutputChain
      BY <1>7, <2>2 DEF Find, sock
    <3>2. Cardinality(Holders') = Cardinality(Holders) - 1
      BY <1>7, <2>2, HolderGoes DEF Find
    <3> QED
      BY <1>1, <3>1, <3>2
  <2> QED
    BY <2>1, <2>2
<1>8. ASSUME NEW w \in Workers, Push(w)
      PROVE  pool' \in Nat /\ BlocksOnce'
  <2>1. len[w] \in Nat \ {0}
    BY <1>8 DEF Push, Lengths, Holders
  <2>2. Len(OutputChain') = Len(OutputChain) + 1 /\ UNCHANGED pool
    BY <1>8, <2>1, PushedNode DEF Push
  <2>3. Cardinality(Holders') = Cardinality(Holders) - 1
    BY <1>8, HolderGoes DEF Push
  <2> QED
    BY <1>1, <2>2, <2>3
<1>9. ASSUME NEW w \in Workers, CheckState(w)
      PROVE  pool' \in Nat /\ BlocksOnce'
  <2>1. Holders' = Holders /\ UNCHANGED <<pool, OutputChain>>
    BY <1>9 DEF CheckState, Holders, sock
  <2> QED
    BY <1>1, <2>1
<1>10. CASE PeerSend \/ PeerClose \/ PeerRead \/ EpollWait
  BY <1>2, <1>10 DEF PeerSend, PeerClose, PeerRead, EpollWait, sock, producers
<1>11. CASE RecvWorker
  <2>1. CASE RecvTake \/ ProcessRecvData \/ RecvAllow \/ RecvTrigger \/ RemoveErase \/ RemoveDelete
    BY <1>2, <2>1 DEF RecvTake, ProcessRecvData, RecvAllow, RecvTrigger, RemoveErase, RemoveDelete, sock, producers
  <2> QED
    BY <1>3, <1>11, <2>1 DEF RecvWorker
<1>12. CASE SendWorker
  <2>1. CASE SendTake \/ SendLock \/ SendCall \/ SendUnlock
    BY <1>2, <2>1 DEF SendTake, SendLock, SendCall, SendUnlock, sock, producers
  <2> QED
    BY <1>4, <1>5, <1>12, <2>1 DEF SendWorker
<1> QED
  BY <1>6, <1>7, <1>8, <1>9, <1>10, <1>11, <1>12 DEF Next, FrameWorker
\* What a step may do to the chain keeps it a sequence of nodes.
LEMMA ChainStep ==
  ASSUME Inv, Next
  PROVE  OutputChain' \in Seq(Node)
<1> TypeOK /\ Lengths /\ Returned
  BY DEF Inv
<1>1. CASE SentPart
  BY <1>1, AdvancedNode DEF SentPart, TypeOK, Returned
<1>2. CASE SentWhole
  BY <1>2, HeadAndRest DEF SentWhole, TypeOK, Returned
<1>3. CASE RemoveDrain
  BY <1>3 DEF RemoveDrain
<1>4. ASSUME NEW w \in Workers, Push(w)
      PROVE  OutputChain' \in Seq(Node)
  <2>1. len[w] \in Nat \ {0}
    BY <1>4 DEF Push, Lengths, Holders, TypeOK
  <2> QED
    BY <1>4, <2>1, PushedNode DEF Push, TypeOK
<1>5. CASE UNCHANGED OutputChain
  BY <1>5 DEF TypeOK
<1>6. CASE PeerSend \/ PeerClose \/ PeerRead \/ EpollWait
  BY <1>5, <1>6 DEF PeerSend, PeerClose, PeerRead, EpollWait, sock
<1>7. CASE RecvWorker
  <2>1. CASE RecvTake \/ ProcessRecvData \/ RecvAllow \/ RecvTrigger \/ RemoveErase \/ RemoveDelete
    BY <1>5, <2>1 DEF RecvTake, ProcessRecvData, RecvAllow, RecvTrigger, RemoveErase, RemoveDelete, sock
  <2> QED
    BY <1>3, <1>7, <2>1 DEF RecvWorker
<1>8. CASE SendWorker
  <2>1. CASE SendTake \/ SendLock \/ SendCall \/ SendUnlock
    BY <1>5, <2>1 DEF SendTake, SendLock, SendCall, SendUnlock, sock
  <2> QED
    BY <1>1, <1>2, <1>8, <2>1 DEF SendWorker
<1>9. ASSUME NEW w \in Workers, GetBlock(w) \/ Find(w) \/ CheckState(w)
      PROVE  OutputChain' \in Seq(Node)
  BY <1>5, <1>9 DEF GetBlock, Find, CheckState, sock
<1> QED
  BY <1>4, <1>6, <1>7, <1>8, <1>9 DEF Next, FrameWorker

\* Every step keeps the types; what the pool holds is bounded by BlocksOnce.
LEMMA TypeStep ==
  ASSUME Inv, Next
  PROVE  TypeOK'
<1> DEFINE
      Sock == /\ CurrSendState \in {"ALLOW", "WAITING"}
              /\ chainLock \in {"free", "send"}
              /\ info \in {"listed", "erased", "deleted"}
      Stream == pushed \in Nat /\ wire \in Seq(Nat)
      Net == /\ space \in 0 .. BufSize /\ nospace \in BOOLEAN
             /\ inputs \in 0 .. MaxIn /\ unread \in 0 .. inputs
             /\ hup \in BOOLEAN /\ event \in BOOLEAN /\ closed \in BOOLEAN
      Queues == recvTasks \in Seq({"in", "out"}) /\ sendTasks \in Nat /\ masked \in BOOLEAN
      Recv == recv \in {"idle", "read", "allow", "trigger", "remove", "drain", "delete"}
      Sender == send \in {"idle", "lock", "loop", "part", "whole", "unlock"} /\ ret \in Nat
      Producers == /\ work \in [Workers -> {"idle", "find", "push", "check"}]
                   /\ len \in [Workers -> 0 .. MaxLen]
                   /\ calls \in 0 .. MaxCalls
<1>1. Sock /\ Stream /\ Net /\ Queues /\ Recv /\ Sender /\ Producers
  BY DEF Inv, TypeOK
<1>2. OutputChain' \in Seq(Node)
  BY ChainStep
<1>3. pool' \in 0 .. Blocks
  <2>1. Cardinality(Holders') \in Nat
    <3>1. Holders' \subseteq Workers
      BY DEF Holders
    <3> QED
      BY <3>1, FS_Subset, FS_CardinalityType
  <2> QED
    BY <1>2, <2>1, BlocksStep DEF BlocksOnce
<1>4. SUFFICES Sock' /\ Stream' /\ Net' /\ Queues' /\ Recv' /\ Sender' /\ Producers'
  BY <1>2, <1>3 DEF TypeOK
<1>5. /\ UNCHANGED sock => Sock'
      /\ UNCHANGED stream => Stream'
      /\ UNCHANGED net => Net'
      /\ UNCHANGED queues => Queues'
      /\ UNCHANGED recv => Recv'
      /\ UNCHANGED sender => Sender'
      /\ UNCHANGED producers => Producers'
  BY <1>1 DEF sock, stream, net, queues, sender, producers
<1> DEFINE Goal == Sock' /\ Stream' /\ Net' /\ Queues' /\ Recv' /\ Sender' /\ Producers'
<1>6. CASE PeerSend
  <2>1. Net'
    BY <1>1, <1>6 DEF PeerSend
  <2> HIDE DEF Sock, Stream, Net, Queues, Recv, Sender, Producers
  <2> QED
    BY <1>5, <1>6, <2>1 DEF PeerSend
<1>7. CASE PeerClose
  <2>1. Net'
    BY <1>1, <1>7 DEF PeerClose
  <2> HIDE DEF Sock, Stream, Net, Queues, Recv, Sender, Producers
  <2> QED
    BY <1>5, <1>7, <2>1 DEF PeerClose
<1>8. CASE PeerRead
  <2>1. Net'
    <3>1. nospace' \in BOOLEAN /\ event' \in BOOLEAN
      BY <1>8 DEF PeerRead
    <3> QED
      BY <1>1, <1>8, <3>1 DEF PeerRead
  <2> HIDE DEF Sock, Stream, Net, Queues, Recv, Sender, Producers
  <2> QED
    BY <1>5, <1>8, <2>1 DEF PeerRead
<1>9. CASE EpollWait
  <2>1. Net'
    BY <1>1, <1>9 DEF EpollWait
  <2>2. Queues'
    BY <1>1, <1>9 DEF EpollWait
  <2> HIDE DEF Sock, Stream, Net, Queues, Recv, Sender, Producers
  <2> QED
    BY <1>5, <1>9, <2>1, <2>2 DEF EpollWait
<1>10. CASE RecvTake
  <2>1. Queues'
    BY <1>1, <1>10 DEF RecvTake, queues
  <2>2. Recv'
    BY <1>1, <1>10 DEF RecvTake
  <2> HIDE DEF Sock, Stream, Net, Queues, Recv, Sender, Producers
  <2> QED
    BY <1>5, <1>10, <2>1, <2>2 DEF RecvTake
<1>11. CASE ProcessRecvData
  <2>1. Net'
    BY <1>1, <1>11 DEF ProcessRecvData
  <2>2. Recv'
    BY <1>1, <1>11 DEF ProcessRecvData
  <2> HIDE DEF Sock, Stream, Net, Queues, Recv, Sender, Producers
  <2> QED
    BY <1>5, <1>11, <2>1, <2>2 DEF ProcessRecvData
<1>12. CASE RecvAllow
  <2>1. Sock'
    BY <1>1, <1>12 DEF RecvAllow, sock
  <2>2. Recv'
    BY <1>1, <1>12 DEF RecvAllow
  <2> HIDE DEF Sock, Stream, Net, Queues, Recv, Sender, Producers
  <2> QED
    BY <1>5, <1>12, <2>1, <2>2 DEF RecvAllow
<1>13. CASE RecvTrigger
  <2>1. Queues'
    <3>1. masked' \in BOOLEAN
      BY <1>13 DEF RecvTrigger, AddSendTask
    <3>2. sendTasks' \in Nat /\ recvTasks' \in Seq({"in", "out"})
      BY <1>1, <1>13 DEF RecvTrigger, AddSendTask
    <3> QED
      BY <3>1, <3>2
  <2>2. Recv'
    BY <1>1, <1>13 DEF RecvTrigger
  <2> HIDE DEF Sock, Stream, Net, Queues, Recv, Sender, Producers
  <2> QED
    BY <1>5, <1>13, <2>1, <2>2 DEF RecvTrigger
<1>14. CASE RemoveErase
  <2>1. Sock'
    BY <1>1, <1>14 DEF RemoveErase
  <2>2. Recv'
    BY <1>1, <1>14 DEF RemoveErase
  <2> HIDE DEF Sock, Stream, Net, Queues, Recv, Sender, Producers
  <2> QED
    BY <1>5, <1>14, <2>1, <2>2 DEF RemoveErase
<1>15. CASE RemoveDrain
  <2>1. Sock'
    BY <1>1, <1>15 DEF RemoveDrain
  <2>2. Recv'
    BY <1>1, <1>15 DEF RemoveDrain
  <2> HIDE DEF Sock, Stream, Net, Queues, Recv, Sender, Producers
  <2> QED
    BY <1>5, <1>15, <2>1, <2>2 DEF RemoveDrain
<1>16. CASE RemoveDelete
  <2>1. Sock'
    BY <1>1, <1>16 DEF RemoveDelete
  <2>2. Recv'
    BY <1>1, <1>16 DEF RemoveDelete
  <2> HIDE DEF Sock, Stream, Net, Queues, Recv, Sender, Producers
  <2> QED
    BY <1>5, <1>16, <2>1, <2>2 DEF RemoveDelete
<1>17. CASE SendTake
  <2>1. Queues'
    BY <1>1, <1>17 DEF SendTake
  <2>2. Sender'
    BY <1>1, <1>17 DEF SendTake
  <2> HIDE DEF Sock, Stream, Net, Queues, Recv, Sender, Producers
  <2> QED
    BY <1>5, <1>17, <2>1, <2>2 DEF SendTake
<1>18. CASE SendLock
  <2>1. Sock'
    BY <1>1, <1>18 DEF SendLock
  <2>2. Sender'
    BY <1>1, <1>18 DEF SendLock
  <2> HIDE DEF Sock, Stream, Net, Queues, Recv, Sender, Producers
  <2> QED
    BY <1>5, <1>18, <2>1, <2>2 DEF SendLock
<1>19. CASE SendUnlock
  <2>1. Sock'
    BY <1>1, <1>19 DEF SendUnlock
  <2>2. Sender'
    BY <1>1, <1>19 DEF SendUnlock
  <2> HIDE DEF Sock, Stream, Net, Queues, Recv, Sender, Producers
  <2> QED
    BY <1>5, <1>19, <2>1, <2>2 DEF SendUnlock
<1>20. CASE SentPart
  <2>1. Sock'
    BY <1>1, <1>20 DEF SentPart
  <2>2. Sender'
    BY <1>1, <1>20 DEF SentPart
  <2> HIDE DEF Sock, Stream, Net, Queues, Recv, Sender, Producers
  <2> QED
    BY <1>5, <1>20, <2>1, <2>2 DEF SentPart
<1>21. CASE SentWhole
  <2>1. Sock'
    BY <1>1, <1>21 DEF SentWhole
  <2>2. Sender'
    BY <1>1, <1>21 DEF SentWhole
  <2> HIDE DEF Sock, Stream, Net, Queues, Recv, Sender, Producers
  <2> QED
    BY <1>5, <1>21, <2>1, <2>2 DEF SentWhole
<1>22. ASSUME NEW w \in Workers, GetBlock(w)
      PROVE  Goal
  <2>1. Producers'
    BY <1>1, <1>22 DEF GetBlock
  <2> HIDE DEF Sock, Stream, Net, Queues, Recv, Sender, Producers
  <2> QED
    BY <1>5, <1>22, <2>1 DEF GetBlock
<1>23. ASSUME NEW w \in Workers, Find(w)
      PROVE  Goal
  <2>1. Producers'
    BY <1>1, <1>23 DEF Find
  <2> HIDE DEF Sock, Stream, Net, Queues, Recv, Sender, Producers
  <2> QED
    BY <1>5, <1>23, <2>1 DEF Find
<1>24. ASSUME NEW w \in Workers, Push(w)
      PROVE  Goal
  <2>1. Stream'
    BY <1>1, <1>24 DEF Push
  <2>2. Sock'
    BY <1>1, <1>24 DEF Push
  <2>3. Producers'
    BY <1>1, <1>24 DEF Push
  <2> HIDE DEF Sock, Stream, Net, Queues, Recv, Sender, Producers
  <2> QED
    BY <1>5, <1>24, <2>1, <2>2, <2>3 DEF Push
<1>25. ASSUME NEW w \in Workers, CheckState(w)
      PROVE  Goal
  <2>1. Queues'
    <3>1. CASE UNCHANGED queues
      BY <1>5, <3>1
    <3>2. CASE AddSendTask
      <4>1. masked' \in BOOLEAN
        BY <3>2 DEF AddSendTask
      <4>2. sendTasks' \in Nat /\ recvTasks' \in Seq({"in", "out"})
        BY <1>1, <3>2 DEF AddSendTask
      <4> QED
        BY <4>1, <4>2
    <3> QED
      BY <1>25, <3>1, <3>2 DEF CheckState
  <2>2. Producers'
    BY <1>1, <1>25 DEF CheckState
  <2> HIDE DEF Sock, Stream, Net, Queues, Recv, Sender, Producers
  <2> QED
    BY <1>5, <1>25, <2>1, <2>2 DEF CheckState
<1>26. CASE SendCall
  <2>1. OutputChain \in Seq(Node) /\ OutputChain # <<>> /\ Nodes
    BY <1>26 DEF SendCall, Inv, TypeOK
  <2>2. OutputChain[1] \in Node /\ Head(OutputChain) = OutputChain[1] /\ 1 \in DOMAIN OutputChain
    BY <2>1, HeadAndRest
  <2>3. Rest(OutputChain[1]) \in Nat
    BY <2>1, <2>2 DEF Rest, Node, Nodes
  <2> DEFINE node == OutputChain[1]
             n == IF closed THEN 0 ELSE IF Rest(node) <= space THEN Rest(node) ELSE space
             units == [i \in 1 .. n |-> node.first + node.begin + i - 1]
  <2>4. n \in 0 .. space
    BY <1>1, <2>3
  <2>5. units \in Seq(Nat)
    <3>1. node.first + node.begin \in Nat \ {0}
      BY <2>2 DEF Node
    <3> HIDE DEF node, n
    <3>2. units \in [1 .. n -> Nat]
      BY <2>4, <3>1
    <3> QED
      BY <1>1, <2>4, <3>2
  <2> HIDE DEF units
  <2>6. wire' = wire \o units /\ ret' = n /\ space' = space - n
    BY <1>26, <2>2 DEF SendCall, units
  <2> HIDE DEF n
  <2>7. Stream'
    <3>1. wire \o units \in Seq(Nat)
      BY <1>1, <2>5
    <3> QED
      BY <1>1, <1>26, <2>6, <3>1 DEF SendCall
  <2>8. Net'
    BY <1>1, <1>26, <2>4, <2>6 DEF SendCall
  <2>9. Sender'
    BY <1>1, <1>26, <2>4, <2>6 DEF SendCall
  <2> HIDE DEF Sock, Stream, Net, Queues, Recv, Sender, Producers
  <2> QED
    BY <1>5, <1>26, <2>7, <2>8, <2>9 DEF SendCall
<1> HIDE DEF Sock, Stream, Net, Queues, Recv, Sender, Producers
<1> QED
  BY <1>6, <1>7, <1>8, <1>9, <1>10, <1>11, <1>12, <1>13, <1>14, <1>15, <1>16, <1>17, <1>18, <1>19, <1>20, <1>21, <1>22, <1>23, <1>24, <1>25, <1>26
  DEF Next, RecvWorker, SendWorker, FrameWorker
-----------------------------------------------------------------------------
(* Who holds the lock, how far the socket is removed                        *)

LEMMA LockStep ==
  ASSUME Inv, Next
  PROVE  LockHeld'
<1> USE DEF LockHeld
<1> TypeOK /\ LockHeld
  BY DEF Inv
<1>1. CASE UNCHANGED <<chainLock, send>>
  BY <1>1
<1>2. CASE PeerSend \/ PeerClose \/ PeerRead \/ EpollWait
  BY <1>1, <1>2 DEF PeerSend, PeerClose, PeerRead, EpollWait, sock, sender
<1>3. CASE RecvWorker
  BY <1>1, <1>3
  DEF RecvWorker, RecvTake, ProcessRecvData, RecvAllow, RecvTrigger, RemoveErase, RemoveDrain, RemoveDelete, sock, sender
<1>4. CASE SendTake \/ SendLock \/ SentPart \/ SentWhole \/ SendUnlock
  BY <1>4 DEF SendTake, SendLock, SentPart, SentWhole, SendUnlock, sock
<1>5. CASE SendCall
  <2>1. chainLock' = chainLock /\ send = "loop" /\ send' \in {"part", "whole", "unlock"}
    BY <1>5 DEF SendCall, sock
  <2> QED
    BY <2>1
<1>6. ASSUME NEW w \in Workers, GetBlock(w) \/ FrameWorker(w)
      PROVE  LockHeld'
  BY <1>1, <1>6 DEF FrameWorker, GetBlock, Find, Push, CheckState, sock, sender
<1> QED
  BY <1>2, <1>3, <1>4, <1>5, <1>6 DEF Next, SendWorker

LEMMA RemovalStep ==
  ASSUME Inv, Next
  PROVE  Removal'
<1> USE DEF Removal
<1> TypeOK /\ Removal
  BY DEF Inv
<1> USE DEF TypeOK
<1>1. CASE UNCHANGED <<info, recv, closed, hup>>
  BY <1>1
<1>2. CASE PeerSend \/ PeerClose \/ PeerRead \/ EpollWait
  BY <1>2 DEF PeerSend, PeerClose, PeerRead, EpollWait, sock
<1>3. CASE ProcessRecvData
  BY <1>3 DEF ProcessRecvData, sock
<1>4. CASE RecvTake \/ RecvAllow \/ RecvTrigger \/ RemoveErase \/ RemoveDrain \/ RemoveDelete
  BY <1>4 DEF RecvTake, RecvAllow, RecvTrigger, RemoveErase, RemoveDrain, RemoveDelete, sock, net
<1>5. CASE SendWorker
  BY <1>1, <1>5 DEF SendWorker, SendTake, SendLock, SendCall, SentPart, SentWhole, SendUnlock, sock, net
<1>6. ASSUME NEW w \in Workers, GetBlock(w) \/ FrameWorker(w)
      PROVE  Removal'
  BY <1>1, <1>6 DEF FrameWorker, GetBlock, Find, Push, CheckState, sock, net
<1> QED
  BY <1>2, <1>3, <1>4, <1>5, <1>6 DEF Next, RecvWorker

LEMMA LengthsStep ==
  ASSUME Inv, Next
  PROVE  Lengths'
<1> USE DEF Lengths, Holders
<1> TypeOK /\ Lengths
  BY DEF Inv
<1> USE DEF TypeOK
<1>1. CASE UNCHANGED <<work, len>>
  BY <1>1
<1>2. CASE PeerSend \/ PeerClose \/ PeerRead \/ EpollWait
  BY <1>1, <1>2 DEF PeerSend, PeerClose, PeerRead, EpollWait, producers
<1>3. CASE RecvWorker
  BY <1>1, <1>3
  DEF RecvWorker, RecvTake, ProcessRecvData, RecvAllow, RecvTrigger, RemoveErase, RemoveDrain, RemoveDelete, producers
<1>4. CASE SendWorker
  BY <1>1, <1>4 DEF SendWorker, SendTake, SendLock, SendCall, SentPart, SentWhole, SendUnlock, producers
<1>5. ASSUME NEW w \in Workers, GetBlock(w)
      PROVE  Lengths'
  BY <1>5 DEF GetBlock
<1>6. ASSUME NEW w \in Workers, FrameWorker(w)
      PROVE  Lengths'
  BY <1>6 DEF FrameWorker, Find, Push, CheckState
<1> QED
  BY <1>2, <1>3, <1>4, <1>5, <1>6 DEF Next
-----------------------------------------------------------------------------
(* The stream: what is on the wire, in the hand of send() and on the chain  *)

\* The parts of Inv that speak of the stream.
Stream == Nodes /\ Contiguous /\ Returned /\ Position /\ InOrder

\* A closed socket is not sent to, so that a drained chain is never sent from.
LEMMA DrainedClosed ==
  ASSUME TypeOK, Removal, Drained
  PROVE  closed
BY DEF TypeOK, Removal, Drained

\* Steps that neither send, push nor delete leave the stream alone.
LEMMA StreamUntouched ==
  ASSUME Inv, UNCHANGED <<OutputChain, pushed, wire, ret>>, Drained' <=> Drained,
         \/ UNCHANGED send
         \/ send \notin {"part", "whole"} /\ send' \notin {"part", "whole"}
  PROVE  Stream'
<1>1. Nodes' /\ Contiguous' /\ InOrder'
  BY DEF Inv, Nodes, Contiguous, InOrder
<1>2. Returned'
  BY DEF Inv, Returned, Rest
<1>3. Position'
  BY DEF Inv, Position, NextUnit
<1> QED
  BY <1>1, <1>2, <1>3 DEF Stream

LEMMA StreamPush ==
  ASSUME Inv, NEW w \in Workers, Push(w)
  PROVE  Stream'
<1> TypeOK /\ Nodes /\ Contiguous /\ Returned /\ Position /\ InOrder
  BY DEF Inv
<1> DEFINE n == len[w]
           L == Len(OutputChain)
<1>1. n \in Nat \ {0}
  BY DEF Inv, Push, Lengths, Holders, TypeOK
<1>2. /\ OutputChain' \in Seq(Node)
      /\ Len(OutputChain') = L + 1
      /\ \A i \in 1 .. L : OutputChain'[i] = OutputChain[i]
      /\ OutputChain'[L + 1] = [first |-> pushed + 1, len |-> n, begin |-> 0]
  BY <1>1, PushedNode DEF Push, TypeOK
<1>3. L \in Nat /\ DOMAIN OutputChain = 1 .. L /\ DOMAIN OutputChain' = 1 .. L + 1
  BY <1>2 DEF TypeOK
<1>4. \A i \in 1 .. L : OutputChain[i] \in Node
  BY <1>3 DEF TypeOK
<1>5. pushed' = pushed + n /\ UNCHANGED <<wire, ret, send, recv, info>>
  BY DEF Push, sender
<1>6. send \notin {"part", "whole"}
  BY DEF Inv, LockHeld, Push
<1> HIDE DEF n, L
<1>7. Nodes'
  <2> SUFFICES ASSUME NEW i \in 1 .. L + 1
               PROVE  /\ OutputChain'[i].begin < OutputChain'[i].len
                      /\ i > 1 => OutputChain'[i].begin = 0
    BY <1>2, <1>3 DEF Nodes
  <2>1. CASE i = L + 1
    BY <1>1, <1>2, <2>1
  <2>2. CASE i \in 1 .. L
    BY <1>2, <1>3, <2>2 DEF Nodes
  <2> QED
    BY <1>3, <2>1, <2>2
<1>8. Contiguous'
  <2> SUFFICES ASSUME NEW i \in 1 .. L + 1
               PROVE  OutputChain'[i].first + OutputChain'[i].len =
                        IF i = L + 1 THEN pushed' + 1 ELSE OutputChain'[i + 1].first
    BY <1>2, <1>3 DEF Contiguous
  <2>1. CASE i = L + 1
    BY <1>1, <1>2, <1>5, <2>1 DEF TypeOK
  <2>2. CASE i = L
    <3>1. L \in 1 .. L /\ i # L + 1
      BY <1>3, <2>2
    <3>2. OutputChain[L].first + OutputChain[L].len = pushed + 1
      BY <1>3, <3>1 DEF Contiguous, L
    <3> QED
      BY <1>2, <2>2, <3>1, <3>2
  <2>3. CASE i \in 1 .. L - 1
    <3>1. i \in 1 .. L /\ i + 1 \in 1 .. L /\ i # L /\ i # L + 1
      BY <1>3, <2>3
    <3> QED
      BY <1>2, <1>3, <3>1 DEF Contiguous, L
  <2> QED
    BY <1>3, <2>1, <2>2, <2>3
<1>9. InOrder'
  BY <1>5 DEF InOrder
<1>10. Returned'
  BY <1>5, <1>6 DEF Returned
<1>11. Position'
  <2>1. Drained' <=> Drained
    BY <1>5 DEF Drained
  <2>2. OutputChain' # <<>> /\ Head(OutputChain') = OutputChain'[1]
    BY <1>2, <1>3
  <2>3. CASE OutputChain = <<>>
    <3>1. L = 0
      BY <2>3 DEF L
    <3>2. NextUnit' = NextUnit
      BY <1>2, <1>5, <1>6, <2>2, <2>3, <3>1 DEF NextUnit, TypeOK
    <3> QED
      BY <1>5, <2>1, <3>2 DEF Position
  <2>4. CASE OutputChain # <<>>
    <3>1. L >= 1 /\ Head(OutputChain) = OutputChain[1]
      BY <1>3, <2>4 DEF TypeOK, L
    <3>2. OutputChain'[1] = OutputChain[1]
      BY <1>2, <1>3, <3>1
    <3>3. NextUnit' = NextUnit
      BY <1>5, <1>6, <2>2, <2>4, <3>1, <3>2 DEF NextUnit
    <3> QED
      BY <1>5, <2>1, <3>3 DEF Position
  <2> QED
    BY <2>3, <2>4
<1> QED
  BY <1>7, <1>8, <1>9, <1>10, <1>11 DEF Stream
\* send() gets the unit that is next, and Position counts what it returned.
LEMMA StreamSendCall ==
  ASSUME Inv, SendCall
  PROVE  Stream'
<1> TypeOK /\ Removal /\ Nodes /\ Contiguous /\ Returned /\ Position /\ InOrder
  BY DEF Inv
<1> DEFINE node == OutputChain[1]
           n == IF closed THEN 0 ELSE IF Rest(node) <= space THEN Rest(node) ELSE space
           next == node.first + node.begin
           units == [i \in 1 .. n |-> node.first + node.begin + i - 1]
<1>1. /\ OutputChain # <<>> /\ Head(OutputChain) = node /\ node \in Node
      /\ 1 \in DOMAIN OutputChain
  BY HeadAndRest DEF SendCall, TypeOK
<1>2. Rest(node) \in Nat \ {0} /\ next \in Nat
  BY <1>1 DEF Nodes, Rest, Node
<1>3. n \in Nat /\ n <= Rest(node)
  BY <1>2 DEF TypeOK
<1>4. /\ ret' = n /\ wire' = wire \o units
      /\ send' = IF n = 0 THEN "unlock" ELSE IF n < Rest(node) THEN "part" ELSE "whole"
      /\ send = "loop"
      /\ UNCHANGED <<OutputChain, pushed, recv, info>>
  BY <1>1 DEF SendCall, sock
<1>5. n # 0 => ~Drained
  BY DrainedClosed DEF n
<1>6. Drained' <=> Drained
  BY <1>4 DEF Drained
<1>7. units \in Seq(Int) /\ Len(units) = n /\ \A i \in 1 .. n : units[i] = next + i - 1
  <2> HIDE DEF n
  <2> QED
    BY <1>1, <1>2, <1>3 DEF Node
<1> HIDE DEF n, units
<1>8. /\ Len(wire') = Len(wire) + n
      /\ \A i \in 1 .. Len(wire) : wire'[i] = wire[i]
      /\ \A i \in Len(wire) + 1 .. Len(wire) + n : wire'[i] = units[i - Len(wire)]
      /\ DOMAIN wire' = 1 .. Len(wire) + n
  <2>1. wire \in Seq(Int)
    BY DEF TypeOK
  <2> QED
    <3>1. /\ wire \o units \in Seq(Int)
          /\ Len(wire \o units) = Len(wire) + Len(units)
          /\ \A i \in 1 .. Len(wire) + Len(units) :
               (wire \o units)[i] = IF i <= Len(wire) THEN wire[i] ELSE units[i - Len(wire)]
      BY <1>7, <2>1, ConcatProperties
    <3>2. Len(wire) \in Nat /\ DOMAIN (wire \o units) = 1 .. Len(wire) + Len(units)
      BY <2>1, <3>1
    <3> QED
      BY <1>3, <1>4, <1>7, <3>1, <3>2
<1>9. ~Drained => Len(wire) + 1 = next
  BY <1>1, <1>4 DEF Position, NextUnit, Node
<1>10. Nodes' /\ Contiguous'
  BY <1>4 DEF Nodes, Contiguous
<1>11. Returned'
  BY <1>1, <1>2, <1>3, <1>4, <1>5, <1>6 DEF Returned
<1>12. Position'
  <2>1. ~Drained => NextUnit' = next + n
    BY <1>1, <1>2, <1>3, <1>4 DEF NextUnit
  <2> QED
    BY <1>2, <1>3, <1>6, <1>8, <1>9, <2>1 DEF Position, TypeOK
<1>13. InOrder'
  <2> SUFFICES ASSUME NEW i \in 1 .. Len(wire) + n
               PROVE  wire'[i] = i
    BY <1>8 DEF InOrder
  <2>1. CASE i \in 1 .. Len(wire)
    BY <1>8, <2>1 DEF InOrder, TypeOK
  <2>2. CASE i \notin 1 .. Len(wire)
    <3>1. i - Len(wire) \in 1 .. n /\ n # 0 /\ i \in Len(wire) + 1 .. Len(wire) + n
      BY <1>3, <2>2 DEF TypeOK
    <3>2. wire'[i] = next + (i - Len(wire)) - 1
      BY <1>7, <1>8, <3>1
    <3> QED
      BY <1>2, <1>5, <1>9, <3>1, <3>2 DEF TypeOK
  <2> QED
    BY <2>1, <2>2
<1> QED
  BY <1>10, <1>11, <1>12, <1>13 DEF Stream

\* A short send moves the first node's begin by what send() returned.
LEMMA StreamSentPart ==
  ASSUME Inv, SentPart
  PROVE  Stream'
<1> TypeOK /\ Nodes /\ Contiguous /\ Returned /\ Position /\ InOrder
  BY DEF Inv
<1> DEFINE node == OutputChain[1]
           L == Len(OutputChain)
<1>1. /\ OutputChain # <<>> /\ Head(OutputChain) = node /\ node \in Node
      /\ L \in Nat \ {0} /\ DOMAIN OutputChain = 1 .. L
  BY HeadAndRest DEF SentPart, TypeOK, Returned
<1>2. /\ OutputChain' \in Seq(Node) /\ Len(OutputChain') = L
      /\ OutputChain'[1] = [first |-> node.first, len |-> node.len, begin |-> node.begin + ret]
      /\ \A i \in 2 .. L : OutputChain'[i] = OutputChain[i]
  BY <1>1, AdvancedNode DEF SentPart, TypeOK
<1>3. DOMAIN OutputChain' = 1 .. L /\ OutputChain' # <<>> /\ Head(OutputChain') = OutputChain'[1]
  BY <1>1, <1>2
<1>4. /\ send = "part" /\ send' = "unlock" /\ ret' = 0
      /\ UNCHANGED <<pushed, wire, recv, info>>
  BY DEF SentPart, stream
<1>5. ret \in Nat /\ ret < node.len - node.begin
  BY <1>1, <1>4 DEF Returned, Rest, TypeOK
<1> HIDE DEF node, L
<1>6. \A i \in 1 .. L : OutputChain'[i].first = OutputChain[i].first /\ OutputChain'[i].len = OutputChain[i].len
  BY <1>1, <1>2 DEF node
<1>7. Nodes'
  <2> SUFFICES ASSUME NEW i \in 1 .. L
               PROVE  /\ OutputChain'[i].begin < OutputChain'[i].len
                      /\ i > 1 => OutputChain'[i].begin = 0
    BY <1>3 DEF Nodes
  <2>1. CASE i = 1
    BY <1>1, <1>2, <1>5, <2>1 DEF Node
  <2>2. CASE i \in 2 .. L
    BY <1>1, <1>2, <2>2 DEF Nodes
  <2> QED
    BY <1>1, <2>1, <2>2
<1>8. Contiguous'
  BY <1>1, <1>2, <1>3, <1>4, <1>6 DEF Contiguous, L
<1>9. Returned' /\ InOrder'
  BY <1>4 DEF Returned, InOrder
<1>10. Position'
  <2>1. Drained' <=> Drained
    BY <1>4 DEF Drained
  <2>2. NextUnit' = NextUnit
    BY <1>1, <1>2, <1>3, <1>4, <1>5 DEF NextUnit, Node
  <2> QED
    BY <1>4, <2>1, <2>2 DEF Position
<1> QED
  BY <1>7, <1>8, <1>9, <1>10 DEF Stream
\* A node that was sent whole goes; the next one has not been begun.
LEMMA StreamSentWhole ==
  ASSUME Inv, SentWhole
  PROVE  Stream'
<1> TypeOK /\ Nodes /\ Contiguous /\ Returned /\ Position /\ InOrder
  BY DEF Inv
<1> DEFINE node == OutputChain[1]
           L == Len(OutputChain)
<1>1. /\ OutputChain # <<>> /\ Head(OutputChain) = node /\ node \in Node
      /\ L \in Nat \ {0} /\ DOMAIN OutputChain = 1 .. L
  BY HeadAndRest DEF SentWhole, TypeOK, Returned
<1>2. /\ OutputChain' \in Seq(Node) /\ Len(OutputChain') = L - 1
      /\ \A i \in 1 .. L - 1 : OutputChain'[i] = OutputChain[i + 1]
  BY <1>1, HeadAndRest DEF SentWhole, TypeOK
<1>3. DOMAIN OutputChain' = 1 .. L - 1
  BY <1>1, <1>2
<1>4. /\ send = "whole" /\ send' = "loop" /\ ret' = 0
      /\ UNCHANGED <<pushed, wire, recv, info>>
  BY DEF SentWhole, stream
<1>5. ret = node.len - node.begin
  BY <1>1, <1>4 DEF Returned, Rest
<1>6. \A i \in 1 .. L - 1 : i + 1 \in 1 .. L /\ (i = L - 1 <=> i + 1 = L)
  BY <1>1
<1>7. Nodes'
  BY <1>1, <1>2, <1>3, <1>6 DEF Nodes
<1>8. Contiguous'
  <2> SUFFICES ASSUME NEW i \in 1 .. L - 1
               PROVE  OutputChain'[i].first + OutputChain'[i].len =
                        IF i = L - 1 THEN pushed' + 1 ELSE OutputChain'[i + 1].first
    BY <1>2, <1>3 DEF Contiguous
  <2>1. OutputChain[i + 1].first + OutputChain[i + 1].len =
          IF i + 1 = L THEN pushed + 1 ELSE OutputChain[(i + 1) + 1].first
    <3>1. i + 1 \in DOMAIN OutputChain
      BY <1>1
    <3> QED
      BY <3>1 DEF Contiguous
  <2>2. ASSUME i # L - 1
        PROVE  OutputChain'[i + 1] = OutputChain[(i + 1) + 1]
    <3>0. L \in Nat
      BY <1>1
    <3> HIDE DEF L
    <3>1. i + 1 \in 1 .. L - 1
      BY <2>2, <3>0
    <3> QED
      BY <1>2, <3>1
  <2> QED
    BY <1>2, <1>4, <1>6, <2>1, <2>2
<1>9. Returned' /\ InOrder'
  BY <1>4 DEF Returned, InOrder
<1>10. Position'
  <2>1. Drained' <=> Drained
    BY <1>4 DEF Drained
  <2>2. NextUnit = node.first + node.len
    BY <1>1, <1>4, <1>5 DEF NextUnit, Node
  <2>3. NextUnit' = node.first + node.len
    <3>1. CASE L = 1
      <4>1. OutputChain' = <<>>
        BY <1>2, <3>1
      <4> QED
        BY <1>1, <1>4, <3>1, <4>1 DEF NextUnit, Contiguous
    <3>2. CASE L # 1
      <4>1. OutputChain' # <<>> /\ Head(OutputChain') = OutputChain[2]
        BY <1>1, <1>2, <3>2
      <4>2. 2 \in 1 .. L /\ 1 \in 1 .. L /\ 1 + 1 = 2
        BY <1>1, <3>2
      <4>3. OutputChain[2].begin = 0 /\ OutputChain[2].first = node.first + node.len
        BY <1>1, <3>2, <4>2 DEF Nodes, Contiguous
      <4>4. OutputChain[2] \in Node
        BY <1>1, <4>2 DEF TypeOK
      <4> QED
        BY <1>4, <4>1, <4>3, <4>4 DEF NextUnit, Node
    <3> QED
      BY <3>1, <3>2
  <2> QED
    BY <1>4, <2>1, <2>2, <2>3 DEF Position
<1> QED
  BY <1>7, <1>8, <1>9, <1>10 DEF Stream

\* RemoveSocket empties the chain while send() is not between the wire and the chain.
LEMMA StreamDrained ==
  ASSUME Inv, RemoveDrain
  PROVE  Stream'
<1>1. OutputChain' = <<>> /\ Drained' /\ UNCHANGED <<wire, send>> /\ send \notin {"part", "whole"}
  BY DEF RemoveDrain, Drained, Inv, LockHeld, stream, sender
<1>2. Nodes' /\ Contiguous'
  BY <1>1 DEF Nodes, Contiguous
<1>3. Returned' /\ Position'
  BY <1>1 DEF Returned, Position
<1>4. InOrder'
  BY <1>1 DEF Inv, InOrder
<1> QED
  BY <1>2, <1>3, <1>4 DEF Stream

LEMMA StreamStep ==
  ASSUME Inv, Next
  PROVE  Stream'
<1> TypeOK /\ Removal
  BY DEF Inv
<1> DEFINE Untouched ==
             /\ UNCHANGED <<OutputChain, pushed, wire, ret>>
             /\ Drained' <=> Drained
             /\ \/ UNCHANGED send
                \/ send \notin {"part", "whole"} /\ send' \notin {"part", "whole"}
<1>1. CASE Untouched
  BY <1>1, StreamUntouched
<1>2. CASE PeerSend \/ PeerClose \/ PeerRead \/ EpollWait
  <2>1. Untouched
    BY <1>2 DEF PeerSend, PeerClose, PeerRead, EpollWait, Drained, sock, stream, sender
  <2> QED
    BY <1>1, <2>1
<1>3. CASE RecvTake \/ ProcessRecvData \/ RecvAllow \/ RecvTrigger \/ RemoveErase \/ RemoveDelete
  <2>1. Untouched
    BY <1>3 DEF RecvTake, ProcessRecvData, RecvAllow, RecvTrigger, RemoveErase, RemoveDelete,
                Removal, TypeOK, Drained, sock, stream, sender
  <2> QED
    BY <1>1, <2>1
<1>4. CASE SendTake \/ SendLock \/ SendUnlock
  <2>1. Untouched
    BY <1>4 DEF SendTake, SendLock, SendUnlock, Drained, sock, stream
  <2> QED
    BY <1>1, <2>1
<1>5. ASSUME NEW w \in Workers, GetBlock(w) \/ Find(w) \/ CheckState(w)
      PROVE  Stream'
  <2>1. Untouched
    BY <1>5 DEF GetBlock, Find, CheckState, Drained, sock, stream, sender
  <2> QED
    BY <1>1, <2>1
<1> HIDE DEF Untouched
<1>6. CASE RecvWorker
  BY <1>3, <1>6, StreamDrained DEF RecvWorker
<1>7. CASE SendWorker
  BY <1>4, <1>7, StreamSendCall, StreamSentPart, StreamSentWhole DEF SendWorker
<1>8. ASSUME NEW w \in Workers, GetBlock(w) \/ FrameWorker(w)
      PROVE  Stream'
  BY <1>5, <1>8, StreamPush DEF FrameWorker
<1> QED
  BY <1>2, <1>6, <1>7, <1>8 DEF Next
-----------------------------------------------------------------------------
(* The edge of EPOLLOUT                                                     *)

\* The send worker is not yet done with the chain.
Sending == send \in {"lock", "loop", "part", "whole"}

\* Steps that leave the tasks, the socket's edge and the places of the threads alone.
LEMMA ComingUntouched ==
  ASSUME UNCHANGED <<sendTasks, work, recvTasks, recv, event, nospace>>
  PROVE  Coming' <=> Coming
BY DEF Coming, OutTask

\* What the receive worker takes from its queue, it has in its hand.
LEMMA OutTaken ==
  ASSUME TypeOK, OutTask, RecvTake
  PROVE  OutTask' \/ recv' = "allow"
<1>1. recvTasks \in Seq({"in", "out"}) /\ recvTasks # <<>> /\ recvTasks' = Tail(recvTasks)
  BY DEF TypeOK, RecvTake
<1>2. PICK i \in DOMAIN recvTasks : recvTasks[i] = "out"
  BY DEF OutTask
<1>3. CASE i = 1
  <2>1. Head(recvTasks) = "out"
    BY <1>1, <1>2, <1>3
  <2> QED
    BY <2>1 DEF RecvTake
<1>4. CASE i # 1
  <2>1. i - 1 \in DOMAIN recvTasks' /\ recvTasks'[i - 1] = recvTasks[i]
    BY <1>1, <1>4
  <2> QED
    BY <1>2, <2>1 DEF OutTask
<1> QED
  BY <1>3, <1>4

\* An event with EPOLLOUT and without EPOLLIN puts an "out" task in the queue.
LEMMA OutReported ==
  ASSUME TypeOK, recvTasks' = Append(recvTasks, "out")
  PROVE  OutTask'
<1>1. Len(recvTasks) + 1 \in DOMAIN recvTasks' /\ recvTasks'[Len(recvTasks) + 1] = "out"
  BY DEF TypeOK
<1> QED
  BY <1>1 DEF OutTask

LEMMA EdgeStep ==
  ASSUME Inv, Next
  PROVE  EdgeComes'
<1> TypeOK /\ Removal /\ EdgeComes
  BY DEF Inv
<1>1. /\ closed => hup
      /\ info # "listed" => hup
      /\ recv \in {"remove", "drain", "delete"} => hup
  BY DEF Removal
<1>2. CASE hup' \/ masked' \/ CurrSendState' # "ALLOW" \/ OutputChain' = <<>> \/ Coming' \/ Sending'
  BY <1>2 DEF EdgeComes, Sending
<1>3. ASSUME UNCHANGED <<hup, masked, CurrSendState, OutputChain>>, ~hup, Coming \/ Sending => Coming' \/ Sending'
      PROVE  EdgeComes'
  BY <1>3 DEF EdgeComes, Sending
<1>4. CASE PeerSend
  BY <1>2, <1>4 DEF PeerSend, Coming
<1>5. CASE PeerClose
  BY <1>2, <1>5 DEF PeerClose
<1>6. CASE PeerRead
  <2>1. ~hup => event' = (event \/ nospace)
    BY <1>1, <1>6 DEF PeerRead, TypeOK
  <2>2. ~hup /\ Coming => Coming'
    BY <1>6, <2>1 DEF PeerRead, Coming, OutTask, queues, producers
  <2> QED
    BY <1>2, <1>3, <1>6, <2>2 DEF PeerRead, sock, sender, queues, Sending
<1>7. CASE EpollWait
  <2>1. CASE space = 0
    BY <1>2, <1>7, <2>1 DEF EpollWait, Coming
  <2>2. CASE space > 0 /\ (unread > 0 \/ hup)
    BY <1>2, <1>7, <2>2 DEF EpollWait
  <2>3. CASE space > 0 /\ ~(unread > 0 \/ hup)
    BY <1>2, <1>7, <2>3, OutReported DEF EpollWait, Coming
  <2> QED
    BY <2>1, <2>2, <2>3 DEF TypeOK
<1>8. CASE RecvTake
  <2>1. Coming => Coming'
    BY <1>8, OutTaken DEF RecvTake, Coming, net, producers
  <2> QED
    BY <1>2, <1>3, <1>8, <2>1 DEF RecvTake, sock, net, sender, Sending
<1>9. CASE ProcessRecvData
  <2>1. ~hup => event' = event
    BY <1>1, <1>9 DEF ProcessRecvData, TypeOK
  <2>2. ~hup /\ Coming => Coming'
    BY <1>9, <2>1 DEF ProcessRecvData, Coming, OutTask, queues, producers
  <2> QED
    BY <1>2, <1>3, <1>9, <2>2 DEF ProcessRecvData, sock, sender, queues, Sending
<1>10. CASE RecvAllow
  BY <1>1, <1>2, <1>10 DEF RecvAllow, Coming, net
<1>11. CASE RecvTrigger
  BY <1>2, <1>11 DEF RecvTrigger, AddSendTask, Coming, TypeOK
<1>12. CASE RemoveErase \/ RemoveDrain \/ RemoveDelete
  BY <1>1, <1>2, <1>12 DEF RemoveErase, RemoveDrain, RemoveDelete, net
<1>13. CASE SendTake
  BY <1>1, <1>2, <1>13 DEF SendTake, Sending, net
<1>14. CASE SendLock \/ SentWhole
  BY <1>2, <1>14 DEF SendLock, SentWhole, Sending
<1>15. CASE SentPart
  BY <1>2, <1>15 DEF SentPart
<1>16. CASE SendCall
  <2>1. CASE ret' = 0
    <3>1. closed \/ nospace'
      <4>1. OutputChain[1] \in Node /\ Head(OutputChain) = OutputChain[1] /\ 1 \in DOMAIN OutputChain
        BY <1>16, HeadAndRest DEF SendCall, TypeOK
      <4>2. Rest(OutputChain[1]) \in Nat \ {0}
        BY <4>1 DEF Inv, Nodes, Rest, Node
      <4>3. ~closed => space = 0 /\ ret' < Rest(OutputChain[1])
        BY <1>16, <2>1, <4>1, <4>2 DEF SendCall, TypeOK
      <4>4. nospace' = (nospace \/ (~closed /\ ret' < Rest(OutputChain[1])))
        BY <1>16, <4>1 DEF SendCall
      <4> QED
        BY <4>3, <4>4
    <3> QED
      BY <1>1, <1>2, <1>16, <3>1 DEF SendCall, Coming
  <2>2. CASE ret' # 0
    BY <1>2, <1>16, <2>2 DEF SendCall, Sending
  <2> QED
    BY <2>1, <2>2
<1>17. CASE SendUnlock
  <2>1. CASE OutputChain = <<>>
    BY <1>2, <1>17, <2>1 DEF SendUnlock
  <2>2. CASE OutputChain # <<>>
    <3>1. ~Sending /\ (Coming => Coming')
      BY <1>17, <2>2, ComingUntouched DEF SendUnlock, Sending, net, queues, producers
    <3> QED
      BY <1>2, <1>3, <1>17, <3>1 DEF SendUnlock, net, queues
  <2> QED
    BY <2>1, <2>2
<1>18. ASSUME NEW w \in Workers, GetBlock(w) \/ Find(w)
       PROVE  EdgeComes'
  <2>1. \A v \in Workers : work[v] = "check" => work'[v] = "check"
    BY <1>18 DEF GetBlock, Find, TypeOK
  <2>2. Coming => Coming'
    BY <1>18, <2>1 DEF GetBlock, Find, Coming, OutTask, net, queues
  <2> QED
    BY <1>2, <1>3, <1>18, <2>2 DEF GetBlock, Find, sock, net, queues, sender, Sending
<1>19. ASSUME NEW w \in Workers, Push(w)
       PROVE  EdgeComes'
  <2>1. work'[w] = "check"
    BY <1>19 DEF Push, TypeOK
  <2> QED
    BY <1>2, <2>1 DEF Coming
<1>20. ASSUME NEW w \in Workers, CheckState(w)
       PROVE  EdgeComes'
  <2>1. CASE CurrSendState = "ALLOW"
    BY <1>2, <1>20, <2>1 DEF CheckState, AddSendTask, Coming, TypeOK
  <2>2. CASE CurrSendState # "ALLOW"
    BY <1>2, <1>20, <2>2 DEF CheckState, sock
  <2> QED
    BY <2>1, <2>2
<1> QED
  BY <1>4, <1>5, <1>6, <1>7, <1>8, <1>9, <1>10, <1>11, <1>12, <1>13, <1>14, <1>15, <1>16, <1>17, <1>18, <1>19, <1>20
  DEF Next, RecvWorker, SendWorker, FrameWorker

-----------------------------------------------------------------------------
(* The invariant and the theorems                                           *)

LEMMA InvInit == Init => Inv
<1> SUFFICES ASSUME Init PROVE Inv
  OBVIOUS
<1> USE DEF Init
<1>1. Holders = {}
  BY DEF Holders
<1>2. TypeOK
  <2>1. OutputChain \in Seq(Node) /\ wire \in Seq(Nat) /\ recvTasks \in Seq({"in", "out"})
    OBVIOUS
  <2>2. work \in [Workers -> {"idle", "find", "push", "check"}] /\ len \in [Workers -> 0 .. MaxLen]
    OBVIOUS
  <2>3. /\ pool \in 0 .. Blocks /\ calls \in 0 .. MaxCalls /\ inputs \in 0 .. MaxIn
        /\ unread \in 0 .. inputs /\ space \in 0 .. BufSize
    OBVIOUS
  <2> QED
    BY <2>1, <2>2, <2>3 DEF TypeOK
<1>3. LockHeld /\ Removal /\ Lengths
  BY <1>1 DEF LockHeld, Removal, Lengths
<1>4. Nodes /\ Contiguous /\ Returned /\ Position /\ InOrder
  BY DEF Nodes, Contiguous, Returned, Position, NextUnit, InOrder
<1>5. BlocksOnce
  <2>1. Cardinality(Holders) = 0
    BY <1>1, FS_EmptySet
  <2> QED
    BY <2>1 DEF BlocksOnce
<1>6. EdgeComes
  BY DEF EdgeComes
<1> QED
  BY <1>2, <1>3, <1>4, <1>5, <1>6 DEF Inv

LEMMA InvStep == Inv /\ [Next]_vars => Inv'
<1> SUFFICES ASSUME Inv, [Next]_vars PROVE Inv'
  OBVIOUS
<1>1. CASE Next
  BY <1>1, TypeStep, LockStep, RemovalStep, LengthsStep, StreamStep, BlocksStep, EdgeStep DEF Inv, Stream
<1>2. CASE UNCHANGED vars
  <2> USE <1>2 DEF vars, sock, stream, net, queues, sender, producers
  <2>1. TypeOK' /\ LockHeld' /\ Removal'
    BY DEF Inv, TypeOK, LockHeld, Removal
  <2>2. Lengths' /\ BlocksOnce'
    BY DEF Inv, Lengths, BlocksOnce, Holders
  <2>3. Nodes' /\ Contiguous' /\ InOrder'
    BY DEF Inv, Nodes, Contiguous, InOrder
  <2>4. Returned' /\ Position'
    BY DEF Inv, Returned, Rest, Position, NextUnit, Drained
  <2>5. EdgeComes'
    BY DEF Inv, EdgeComes, Coming, OutTask
  <2> QED
    BY <2>1, <2>2, <2>3, <2>4, <2>5 DEF Inv
<1> QED
  BY <1>1, <1>2

\* The inductive invariant: the parts that the comments of SendPath state.
THEOREM InvHolds == Spec => []Inv
<1>1. Init => Inv
  BY InvInit
<1>2. Inv /\ [Next]_vars => Inv'
  BY InvStep
<1> QED
  BY <1>1, <1>2, PTL DEF Spec

\* The peer gets the units in the order of the pushes, each once, whatever short and
\* failed sends, pushes in between and removal of the socket do (EpollServer.cpp
\* 127 to 178 and 288 to 318).
THEOREM PeerGetsInOrder == Spec => []InOrder
<1>1. Inv => InOrder
  BY DEF Inv
<1> QED
  BY <1>1, InvHolds, PTL

\* Until the socket is removed, what was pushed and is not on the wire is on the chain,
\* right behind what is on the wire.
THEOREM NothingIsLost == Spec => []NothingLost
<1>1. Inv => NothingLost
  <2> SUFFICES ASSUME Inv, info = "listed", send \notin {"part", "whole"}
               PROVE  /\ Contiguous
                      /\ Len(wire) = IF OutputChain = <<>> THEN pushed
                                     ELSE Head(OutputChain).first + Head(OutputChain).begin - 1
    BY DEF NothingLost
  <2>1. ~Drained
    BY DEF Inv, Removal, Drained
  <2>2. Len(wire) + 1 = NextUnit
    BY <2>1 DEF Inv, Position
  <2>3. Len(wire) \in Nat /\ pushed \in Nat
    BY DEF Inv, TypeOK
  <2>4. CASE OutputChain = <<>>
    BY <2>2, <2>3, <2>4 DEF NextUnit, Inv
  <2>5. CASE OutputChain # <<>>
    <3>1. Head(OutputChain) \in Node
      BY <2>5, HeadAndRest DEF Inv, TypeOK
    <3> QED
      BY <2>2, <2>3, <2>5, <3>1 DEF NextUnit, Node, Inv
  <2> QED
    BY <2>4, <2>5
<1> QED
  BY <1>1, InvHolds, PTL

\* No block goes back to SendDataMem while it is on the chain or in hand.
THEOREM BlocksGivenOnce == Spec => []BlocksOnce
<1>1. Inv => BlocksOnce
  BY DEF Inv
<1> QED
  BY <1>1, InvHolds, PTL

\* While the socket may be sent to and no EPOLLOUT came with an EPOLLIN, data on the
\* chain has a send task or an edge that brings one.
THEOREM DataIsAttended == Spec => []AttendedWhenAllowed
<1>1. Inv => AttendedWhenAllowed
  BY DEF Inv, EdgeComes, AttendedWhenAllowed, Attended
<1> QED
  BY <1>1, InvHolds, PTL
=============================================================================
