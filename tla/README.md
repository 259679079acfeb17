# CMDTran: specifications, model checking and proofs

`cmdtran` (src/ComandTran) relays pictures. Phones log in over TCP (port 6000) and
send picture frames; PCs log in with a camera id, and every picture of a phone is
forwarded to the PCs that watch the same camera. This directory holds TLA+ modules
of its core, the TLC configurations that check them and the TLAPS proofs about them.

## 1. The system

Threads: `main` (a shell on stdin), the epoll thread, and three `CMasterWorkPool`s
of four workers each: receive workers and send workers (in `CEpollServer`), frame
workers (in `CRecvDataProc`). A worker is a `CThreadPool` with one thread, and the
worker of a task is `fd % 4`, so the tasks of one descriptor in one pool run in the
order in which they were added. Different pools run concurrently for one descriptor.

    peer --> kernel --epoll thread--> receive worker --CFrameRestruct--> frame worker
                                        |    ^                               |
                                 EPOLLOUT    | flow control                  | SendData
                                        v    +-------------------------------+
    peer <-- kernel <------------- send worker <------- OutputChain <--------+

| component | state | operations | what is hard | what makes it correct |
|---|---|---|---|---|
| `CLockFreeQueue` (inc/LockFreeQueue.h) | slots, three `uint32_t` counters, `m_size` | Push, Pop, Size | CAS loops of any number of threads, stale loads, wrap of the counters, a size that is counted late | no element lost or doubled, FIFO, calls return |
| `CMemPool` (src/MemPool.cpp) | a queue of free blocks, GrowCount, m_BlockTotalCount | CreatPool, GetBlock, FreeBlock, ExtendPool | growth without a lock, test then pop | one owner for each block, bounded growth |
| flow control (src/RecvDataProc.cpp, ModifyRead) | FrameCount and EnableRead of ClientInfo, EnableRead of SocketInformation, epoll interest | IncreaseFrameCount, DecreaseFrameCount, ModifyRead | two threads and the kernel, frames queued before they are counted, edge-triggered events | reading is never left disabled, no data is stranded, the three flags agree |
| send side of `CEpollServer` | OutputChain, CurrSendState | SendData, CSocketSendTask, EPOLLOUT, RemoveSocket | short sends, EPOLLOUT racing with the send worker, removal while in use | the peer gets what was pushed, in order; it is all sent; blocks come back |
| connection side | m_SocketInfo, ClientMap, descriptors | accept, AddClient, read, close, QuitClient | order of registration, descriptors used again, pointers used after unlock | entries end with their connection, a peer is answered and released |
| `CFrameRestruct` | the rest of the last read | RestructFrame | a frame cut anywhere by reads, garbage between frames | frames do not depend on how the stream is cut |
| commands | ClientType, CameraId | NewClient, ResetCameraId, PicDataRecv | ClientMap walked without its lock | pictures go to the PCs of the camera |
| `CThreadPool`, `CMasterWorkPool` | task list, RuningFlag | AddTask, AddTaskBatch, GetTask, ShutDown | lost wake-ups, shutdown, start order | every task runs once, in order; shutdown ends |
| `CMemChain` | a linked list | Push, GetHead, DeleteHead; GetIndex, DeleteAt, Pop have no caller | end pointer, index arithmetic | a FIFO list |
| `CMemBlockListManager`, `MemPool.cpp_bak` | | | retired, not built into the server's pool | |
| `CLog`, `cmdproc`, `BasicFun`, `main`, test programs | | | input and output | |

PROJECT.json lists the same components with their status, and every hazard of the
code at its line, with the property that covers it or the reason why none does yet.

## 2. Modules

| module | models | state and actions |
|---|---|---|
| `FifoQueue` | what a concurrent FIFO queue promises | a sequence; a call takes effect at one instant between call and return |
| `LockFreeQueue` | `CLockFreeQueue` | one action per access to a shared member: five steps of Push, six of Pop and their early returns, for each thread |
| `LockFreeQueueProofs` | | invariance proofs, and the proof that the queue is a `FifoQueue` |
| `MemPool` | `CMemPool`, EXTENDS `LockFreeQueue` | the steps of GetBlock, FreeBlock and ExtendPool around those of the queue; loads and stores of the two counters are separate |
| `MemPoolProofs` | | invariance proofs, on top of the queue's |
| `FlowControl` | flow control of one connection | kernel, epoll thread, receive worker, frame worker; ClientMapLock held across ModifyRead as in the code |
| `FlowControlProofs` | | invariance proofs |
| `SendPath` | send side of one connection | kernel buffer, epoll thread, receive worker (EPOLLOUT and RemoveSocket), send worker, frame workers in SendData |
| `SendPathProofs` | | invariance proofs |
| `Connection` | connections from accept to close, `m_SocketInfo`, `ClientMap` and the commands | peers, epoll thread, and for each worker number its receive, frame and send thread; descriptors that are used again |
| `ConnectionProofs` | | invariance proofs of `Entries`, the part of the invariant about the maps |
| `ConnectionRestProofs` | | invariance proofs of the rest, and what it implies at rest |
| `SerialExecutor` | what the worker pool promises | the tasks of an id that are added and the one that runs |
| `ThreadPool` | `CMasterWorkPool` and `CThreadPool` | callers between unlock and signal, each worker's thread in GetTask and its routine, the caller of ShutDown |
| `ThreadPoolProofs` | | invariance proofs, and the proof that a pool is a `SerialExecutor` |
| `FrameRestruct` | `CFrameRestruct` of one client | the helpers over the rest of the last read and the new bytes, the loop as a recursive function; one action per read; `Parse` is the reference |
| `FrameRestructProofs` | | invariance proofs, and that the loop finds what `Parse` finds |
| `MC...` | | instances for TLC |

How state and actions correspond to the code is said action by action in the
modules' comments, and line by line in PROJECT.json under "map".

Abstractions that all modules share:

* A section of code under one mutex that is not entered twice in a row is one
  action; accesses outside a mutex are actions of their own. `OutputChainLock` and
  `ClientMapLock` are held across several actions and are therefore variables.
* Tasks of one descriptor are a FIFO queue or a counter of tasks (section 1); that
  the pools keep this promise is `IsSerial` of `ThreadPool`.
* Frames, blocks and elements are model values or are counted. `SendPath` numbers
  the units of a connection in the order of the pushes, so that what arrives can be
  compared with what was pushed.
* Logging and the callbacks, which return 0, are left out.

Assumptions on what is not in the repository (marked external in the map): epoll
reports edge-triggered events as Linux does. An event is raised by arriving data and
by EPOLL_CTL_MOD when its condition holds; EPOLLOUT is raised when there is room
again after a send() or a look by epoll_wait has met a full buffer; one event
reports all that is the case when epoll_wait looks. Accesses to memory happen in the
order of the program (the makefile builds without optimisation, on x86).

### LockFreeQueue

The three positions are kept as the number of increments since the constructor;
`CountToIndex` takes the value that the 32-bit register would have. The two agree
unless exactly 2^32 increments happen between a load and its CAS. 2^32 is not a
multiple of QUEUE_LEN, so where the registers wrap the slot sequence jumps. The
assumption `FewElems \/ NoJump` says what the code relies on: as many counts in a row
as there are elements have distinct slots (true of the program with 20971520 slots
and at most 512000 blocks, also over the wrap), or the counters have not wrapped.

### MemPool

The pool's steps are steps of the queue's module with guards of the pool; between them
a thread loads and stores `GrowCount` and `m_BlockTotalCount` without a lock. Two
threads that grow the pool at once can lose each other's count, and a thread that
stores an old value can set `GrowCount` back below `GROW_COUNT_MAX` after others have
reached it, so that with three threads the pool grows more often than
`GROW_COUNT_MAX` plus one for each other thread. What does hold for any number of
threads is `CountersExplained`: counts get lost, none is made up, so neither counter is
ever above what was made. Memory from the system is a set of blocks not made yet
(`fresh`); ExtendPush waits for one, and `PoolCallsReturn` shows that it never has to.

### SendPath and undefined behaviour

`SentWhole` deletes the node and then reads the block's address from it. Depending
on the allocator the read returns the block or something else; the model chooses
between the two. Likewise SendData and the send task use a SocketInformation after
the unlock; if it has been deleted, the model goes on with the object as it was left.

### Connection

The module composes what `FlowControl`, `SendPath` and `FrameRestruct` show of one
connection with the life of several: frames are whole, reading is enabled and the send
buffers have room. The code knows a connection by its descriptor; the model names
each SocketInformation and ClientInfo by the connection for which it was made, so
that what a later connection finds under the descriptor can be told. `setup`, chosen
by Init, has the worker of the listening socket, the descriptors that the limit of
`InitEvn` leaves, the frames that each peer sends and how many at a time, and who
closes; the worker of the listening socket matters because it enters connections that
other workers read.
`due` is a history variable for `PicturesAtRest`, and the place of a receive worker that
ends a connection remembers in `of` the entry that m_SocketInfo had when the end was
read, for `RemovesOwn`. A ClientInfo or SocketInformation that was deleted while in use is
used as it was left.

PicDataRecv searches (RecvDataProc.cpp:271) and walks (287) `ClientMap` without its lock.
The map is a red-black tree: a search or an increment is several reads of pointers, and an
insertion or an erasure of any entry may turn the tree round between them. The model
does not have the tree but what its readers can find:

* `changes` collects, for each frame worker, the entries that came or went since the step
  of its search or its iterator began, and `InFlux` are those that a thread is just about
  to insert or to erase. `Meets` is both. A change may last over many reads of another
  thread, so one that is pending counts as much as one that is done.
* `Seek` finds the entry of the descriptor if the search meets nothing; otherwise it may also
  miss it, or find one that has been erased.
* `Walk` goes to the entry of the next descriptor if its increment meets nothing and
  starts from an entry that is still there. Otherwise it is `Astray`: it may
  come to any entry that is or was there, skip others, turn back to those it has passed
  (and send them the picture again), or end. `MaxBacks` bounds how often one walk turns back.
* Between increments, while it sends to an entry, the iterator reads nothing. What is
  inserted or erased then does not disturb it, unless the entry it stands on is erased. That
  is the case that `PicturesAtRest` promises something of.

A picture is therefore `due` to a PC until its walk goes astray before the PC's entry. A
crash on freed memory, and a loop of the walk among freed nodes, are not modelled.

Three things are coarser here than in the code. `ReadData` has read() and the lookup of
the client (RecvDataProc.cpp:105-115) in one step. Only this worker reads the descriptor, so
data that arrives between the two is read by the next read(), and an entry that comes or
goes between them has the effect of one that came or went before the read(). What is left out
is data read before, and looked up after, a bad login has closed the connection and
another has taken its descriptor and entered itself; frames that act on a successor do
occur, from the frame worker's queue. `RestructFrame` queues all frames of one read at
once, while the code adds a task for each: the frame worker handles them one by one either
way, and `FlowControl` has the single steps where FrameCount depends on them. `SendFind`
always has a block: what SendData does without one (EpollServer.cpp:292-297) is
in `SendPath` only.

The behaviours of this module are finite, so what must happen in the end is stated of
the states in which the server is at rest (`...AtRest`), and `Settles` says that it
comes to rest. The else branch of ProcessRecvEnts (EpollServer.cpp:89-95) is not an
action: epoll reports EPOLLHUP and EPOLLERR together with EPOLLIN, which is tested first.

### ThreadPool

A thread has TaskListLock between its test and pthread_cond_wait (`towait`) and between
the test and the return of GetTask (`leave`); everything else under that lock is one
step of a caller. RuningFlag is written without the lock and read three times for each
task. The refinement maps a task that GetTask has returned and the thread has not yet
begun to the head of the pending tasks, also in a thread that exits instead.

## 3. Runs

| run | question | bounds, and why they are enough |
|---|---|---|
| `queue_safety` | is every element in one place, the size explained, the inductive invariant `Inv` true, and is the queue a `FifoQueue`? | 3 threads, 3 elements, 4 slots, registers of 19 values that wrap in mid-run: two pushes may race for a slot while a third thread pops, before and after the jump |
| `queue_refused` | (violation) is the queue full when Push says so? | 2 threads, 2 elements, 4 slots |
| `pool` | has each block one owner; how far does growth go; are slots kept apart by the full test; do calls return? | 2 threads, 1 block and up to 2 extensions of 2 blocks for a queue that holds 2 (QUEUE_LEN 3): both threads find the pool empty and extend at once, both may be between reservation and commit so that one waits in the loop of line 81 for the other, and pushes are refused. The registers do not wrap: with a full queue and a jump two counts would share a slot, which the program's sizes exclude |
| `flow` | section 1, flow control | limits 3 and 2, 8 frames: reading is disabled and enabled twice, frames arrive while it is disabled, FrameCount goes below zero |
| `send` | section 1, send side | 2 frame workers, 2 frames of up to 2 units, 1 unit of buffer: short sends, failed sends, pushes in between, incoming data with EPOLLOUT, close at any moment |
| `send_race` | (violation) is everything sent? no incoming data | as `send` |
| `send_masked` | (violation) is everything sent? frames of 1 unit, so that no send is short | as `send` |
| `send_blocks` | (violation) do blocks come back after sending? | 2 units of buffer, frames of 1 unit |
| `frames` | do frames depend on how reads cut the stream? does the rest fit? | streams of up to four parts out of three frames and six kinds of noise, every cut; frames of at most 7 bytes, so that a cut falls in the head, the length and the data |
| `connections` | sections 1 and 2, connections and commands | 3 connections, 3 descriptors, 2 workers, ten initial states: a PC that logs in badly while a phone sends, or while it leaves; a connection with a bad login that leaves its descriptor to a phone; a PC that stays and changes its camera while a phone sends, which may leave; a picture walked to a PC whose entry is in the middle of three, or the last, while the third client is inserted; three connections for one descriptor, of which one or two leave. Frames are sent up to two at a time, so that a read has up to two. Descriptors of the listening socket's worker and of the other one occur. A walk turns back at most once (MaxBacks 1): once is enough to repeat the entry of the only PC there is |
| `conn_early` | (violation) is a peer that logs in and stays answered? | 1 phone on a descriptor of the other worker |
| `threadpool` | section 1, pools | 2 workers, 3 tasks of which two have one id and the third shares their worker, batches of 0 to 2, a pthread_create that may fail, spurious wake-ups, a shutdown at any moment |

In `queue_safety`, `pool`, `send`, `threadpool` and `connections` the inductive invariant of the
proofs is among the properties checked.

The passing runs check deadlock except `send`, whose system stops when the bounds
allow no further call and everything is sent, `frames` and `connections`, where the
peers stop, and `threadpool`, whose threads wait for tasks or have exited.
Every property of a passing run is shown to depend on the code by a mutant: a changed
definition, just before the one it replaces, with which the property is violated.

### Fairness

Weak fairness of each thread: a thread that can take a step is run (the kernel's
scheduler), and the workers do nothing but wait for tasks and process them.
`PoolCallsReturn` bounds the number of pushes; without that a Pop or Push may lose its
CAS for ever, as in any lock-free (not wait-free) queue. `AllSent` assumes in
addition that the peer goes on reading. No peer is obliged to send, no worker to
call SendData, no thread to call Push or Pop, nobody to add a task or to shut down.

`Connection` has one weak fairness for all threads of the server. It says less than one
for each thread, but every behaviour is finite there (the peers' scripts are, and each
task makes finitely many others), so that a thread that could run is run in either
case before the server stops. `ThreadPool` has no fairness for a join of a thread that
was not created (its pthread_t is not initialized).

### What the violations show

* `queue_refused`: Push loads the write index, other threads push and pop, and Push
  compares with the read index of later: "full" on a queue that is not. FreeBlock
  returns false and the block is lost.
* `send_race`: send() accepts a part; the peer makes room; the receive worker
  handles EPOLLOUT and stores ALLOW; then the send worker stores WAITING. The task
  that the receive worker added sends the rest without another short send, so no
  EPOLLOUT comes, and SendData adds no task while the state is WAITING.
* `send_masked`: an event with EPOLLIN and EPOLLOUT is treated as EPOLLIN only.
  `AttendedWhenAllowed`, which holds, says that in the state ALLOW this is the only
  way in which data on the chain is left alone.
* `send_blocks`: the use of the deleted node described above.
* `conn_early`: the descriptor is in epoll before its ClientInfo is in ClientMap. A
  login that is read by another worker in between is dropped. `AnsweredAtRest`, which
  holds, says that it cannot happen when the accepting worker is the descriptor's own.

What the passing runs of `Connection` had to except is as telling. A connection whose
descriptor belongs to the accepting worker is answered and leaves nothing behind
unless a bad login closed it; on another worker its end may be handled before it is
entered (and the entries stay), or the QuitClient of the descriptor's former owner may
come late and delete its ClientInfo. Frames of a closed connection that are still
queued act on its successor. RemoveSocket comes after close, when the descriptor may
already be another connection's. As long as the ended connection has an entry its
successor cannot get one (`map::insert` does not overwrite), so RemoveSocket removes what
it should and the price is a successor that is entered nowhere. But if the ended
connection had none, its successor's successor is entered, and another worker than the
accepting one then removes the entry of a live connection: three connections that use
one descriptor in turn are needed for that. `RemovesOwn` states the exact condition.
A shutdown can hang, but only if a thread was
between line 90 and line 93 at the broadcast (`WaitsOnlyIfMissed`, `ShutDownEnds`).

## 4. Proofs

TLAPS proves the following for all values of the constants that satisfy the named
assumptions, so for any number of threads, elements, slots, frames and limits.

`LockFreeQueueProofs`, from `QueueAssumption`: `Spec => []Inv`, and from it
`TypeCorrect`, `NoSlotReused` (SlotsApart) and `NoBlockLostOrDoubled` (OnePlace).
OnePlace alone is not inductive: a Pop that has loaded an element and wins its CAS
must have loaded the element that is still there (`Snapshot`), which needs that
no push stores into a slot in use (`Room`, the full test or the small number of
elements), that each reserved count has one owner (`OneOwner`), which has stored its
element before it commits (`Stored`), and that the counters are ordered (`Ordered`).
`CarriedOnce`, `CommittedOnce` and `Somewhere` are OnePlace without cardinalities.
There is one lemma per action, with one step per part that the action can disturb.

`FlowControlProofs`, from `FlowAssumption` (low <= high + 1; the code has 512 and
307200): `Spec => []Inv`, and from it DisabledHasWork, FlagsAgree, CountIsOutstanding
and NoStrandedData. The properties speak of states in which ClientMapLock is free;
`LockOwner` and `InProgress` say what holds in the middle of a ModifyRead. The
argument for DisabledHasWork: reading is disabled with FrameCount above the high
limit, FrameCount is the number of outstanding frames less those not counted yet, and
a decrement below the low limit enables reading in the same critical section.

`LockFreeQueueProofs` also has `SizeLags` (SizeLagsByCalls): `m_size` differs from the
committed elements by the calls between their CAS and their update of `m_size`.

Its last part proves `QueueIsFifo` (IsFifo). The mapping takes
the committed counts for the queue; a Push takes effect when it commits its count, a Pop
when its CAS succeeds, and the proof goes through the actions once more with `Inv`:
the element a Pop returns is the oldest committed one because of `Snapshot`, and a Push
that reports "full" or a Pop that reports "empty" is a return that `FifoQueue` allows
always (it promises nothing on when they may).

`MemPoolProofs`, from `QueueAssumption` and `PoolAssumption`: `PoolInvHolds`, and from it
BlocksAccounted, CountersExplained and SlotsApart. Every step of the pool is a step of
the queue or leaves it alone, so `Inv` of the queue is kept without a second proof;
`Accounts` says where each block is, and `Loaded` what a value may be that a thread has
loaded and will store.

`SendPathProofs`, from `SendAssumption`: `InvHolds`, and from it InOrder, NothingLost,
BlocksOnce and AttendedWhenAllowed. InOrder speaks of what the peer has; `Position` says
which unit comes next in each place of the send worker, for which the nodes must
be contiguous (`Contiguous`), only the first may be sent in part (`Nodes`), and what
send() returned must still be on the chain (`Returned`, which needs `LockHeld` and
`Removal`). `EdgeComes` is AttendedWhenAllowed also in the middle of the send worker's loop.

`ThreadPoolProofs`, from `ThreadPoolAssumption`: `InvHolds`, and from it AwakeWhenWork,
NeverGarbage and WaitsOnlyIfMissed; then `PoolIsSerial` (IsSerial), action by action. The
list cannot change between the test and the wait or the pop (`LockKeepsList`), a task is
in the list of its own worker (`InLane`), and what GetTask returns is unassigned only
after a shutdown (`GarbageOnlyDown`).

`ConnectionProofs`, from `ConnectionAssumption`: `EntriesHold`, and from it BacklogAccounted,
LeftoversExplained, ReaderHasClient and RemovesOwn, for any number of connections,
descriptors and workers and any scripts. The properties need `FilesOpen` (an open
connection has one descriptor, one that waits has none), `EntriesOwn` (what a map has
under a descriptor is its connection's or a closed one's, and so is what the accepting
worker is about to enter), `EntryStays` (from the close to RemoveSocket the entry is what
it was) and `ReadFromOld`. The proof first says, variable by variable, what one
step can change (`ConnMoves`, `FileMoves`, `MapMoves`, `RecvMoves`); each part of the
invariant then follows from these without a look at the actions.

`ConnectionRestProofs`, from the same assumption: `InvHolds`, and from it AnsweredAtRest,
ReleasedAtRest and PicturesAtRest. What must have come about by the time the server is
at rest must be on its way in every state before, so the invariant follows it through
the queues:

* `Attended`: what a peer sends, and its end, is known to epoll, to a task of the
  descriptor's worker or to that worker while it reads. At rest there is none of
  these, so all that was sent is read and no open connection has ended. The case that
  matters is the accept: EPOLL_CTL_ADD reports what came before it, and a connection
  that is not yet in epoll is one the accepting worker is adding.
* `OneDescriptor`: a connection has one descriptor in its life. `Under` says where it
  can be found: the kernel, both maps, and the threads that hold a pointer. It is
  what keeps a message to the socket of one descriptor from going to the peer of another.
* `ClientsExplained` is LeftoversExplained for ClientMap. With `Attended` and
  `OneDescriptor` it gives ReleasedAtRest.
* `EntriesFirst` and `UnreadAtFirst`: on a descriptor of the accepting worker nothing
  is read before both entries are there, and they stay while the connection is open, but
  for a bad login that is about to close it. So no login is dropped.
* `OnWay`: a message is in the hands of a frame worker, on the chain of the
  descriptor's socket with a send task or a send worker for it, or received. It stays so as
  long as the descriptor keeps its connection and its socket (`OnWayStep`): RemoveSocket,
  which empties a chain, takes the entry away too.
* `LoginsOnWay`: a login that was read is with RestructFrame, in the frame worker's
  queue, a bad one that will end the connection, or its acknowledgement is `OnWay`.
* `PicturesOnWay`: a picture that is due to a PC is `OnWay`, or a walk of ClientMap has yet
  to come to its entry (`WalksTo`). A walk that comes to the entry sends the picture
  (`WalkGoesOn`); one that comes to another entry does not pass this one, because it takes the
  lowest one ahead unless it is `Astray`, and then the picture is not due any more to those
  ahead (`DueMoves`). `EntersOnce` says that a PC that is due had
  its entries then: otherwise it could get them later, behind the iterator.

Here, too, lemmas say first what one step can do to each queue (`TaskMoves`, `FrameMoves`,
`ReadMoves`, `ChainMoves`, `SendTaskMoves`, `InboxMoves`, `DueMoves`): an element that leaves one
queue is in the next place.

`FrameRestructProofs`, from `FrameAssumption` (5 <= FRAME_LEN_MAX <= EXIT_BUFFER_LEN, and
the peer sends bytes): TypeOK, CutsDontMatter and FramesArrive, for streams of any
length and content. CutsDontMatter is inductive on its own, given what the two recursive
functions compute; that is the work:

* `ParserIs` and `LoopIs`: both functions exist and satisfy their recursion at every
  index. The library's induction theorems cannot be used with these provers, so the
  induction is over a set of indices without a least bad one (`Descend`, `DescendAll`,
  `Ascend`, from the well-foundedness of < on the naturals).
* `TurnIs`: a turn over the rest and the new bytes is a step of `Parse` over the two in one
  piece, wherever the boundary between the buffers falls (`ByteOf`, `StretchOf`,
  `FrameLenIs`, `CopyIs`, `SaveIs`); hence `Loop(exit, recv) = Parse(exit \o recv)`.
* `ReadOn`: `Parse` of a longer stream saves what it saves of the beginning and then
  what it finds in the rest of that and the new bytes (`ParserOfBeginning`,
  `ParserOfEnd`). This is one read, and the step of the invariant.
* `RestIsShort`: what is kept is an end of the stream shorter than FRAME_LEN_MAX.
* `FramesFound`: where the parts of the stream are frames, the parser goes from the end of
  one to the end of the next (`PartsLie`, `FrameRead`) and waits at one that is cut
  (`FrameCut`), so it never looks for a head inside one.

Only model-checked: the liveness properties (`PoolCallsReturn`, `AllRead`,
`RemovedWhenClosed`, `TasksRun`, `ShutDownEnds`, `Settles`), because fairness and
ENABLED are out of the prover's reach. In particular that the server comes to rest
(`Settles`) is TLC's; what is true once it has is proved. The runs that expect a
violation are counterexamples and have nothing to prove.

## 5. Not modelled

* `CMemBlockListManager`, `MemPool.cpp_bak`, `EnableRead()`/`DisableRead()` without a
  descriptor, `DeleteAt`, `GetIndex`, `Pop` of `CMemChain`, `GetClientInfo`: no caller in the
  server.
* `FreeMem` of the pool: runs when the process exits.
* Logging, the shell, `main`, the test programs: input and output.
* In `SendPath`: EPOLL_CTL_MOD of the flow control, which can raise EPOLLOUT too; a
  reset connection, whose read error does not close it.
* In `Connection`: `FrameCount` (the two limits are out of reach there), frames of unknown
  codes, which change nothing, and peers that reset their connection.
* In `ThreadPool`: tasks added before `InitPool` has returned (EpollServer.cpp:273), which
  divide by zero or meet a mutex that is not initialized; `GetTask_Cust`, which is NULL.

## 6. Plan

Every safety property that a passing run checks is also a theorem, and so are the two
refinements. What could follow: the hazards of PROJECT.json that no property covers
(each has a note), and `Connection` with reading that the flow control disables.
