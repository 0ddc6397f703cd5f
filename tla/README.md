# A TLA+ verification of libftpp

libftpp is a C++ library of data structures, design patterns, threading tools, TCP
networking and small mathematics. This directory holds TLA+ models of the parts in which
order, concurrency, failure or bookkeeping decides correctness, the TLC configurations
that check them on small instances, and proofs, checked by TLAPS, of the safety of these
parts for instances of any size: of all safety properties that the passing runs check, two
are left to TLC alone (section 4, last part).

Line numbers below are those of the repository's files; `worker_pool.cpp` stands for
`src/src/thread/worker_pool/worker_pool.cpp` and so on. `PROJECT.json` gives for every
definition the lines it models.

## 1. Inventory

### Threading

| Part | State | Operations | What is hard | What makes it correct |
|---|---|---|---|---|
| WorkerPool | `_jobs`, `_stop`, `_workers`, `_mtx`, `_cv` | constructor, `addJob` (2), `loop`, destructor | `notify_one` outside the mutex, `_stop` read without it, jobs that add jobs while the destructor joins, jobs that throw | no lost wakeup; each job started once, in order; the destructor returns, and no thread outlives the object |
| PersistentWorker | `_tasks`, `_running`, one thread | `addTask`, `removeTask`, `loop`, destructor | a pass works on a copy of the map; tasks call back into the worker | a removed task starts at most once more; a registered one runs again and again; the destructor returns |
| ThreadSafeQueue | a deque under one mutex | four pushes and pops | emptiness between two calls | linearizable deque (not modelled) |
| Thread | one `std::thread` | `start`, `stop`, destructor | restart while running blocks in `join` | at most one thread, none at destruction (not modelled) |
| ThreadSafeIOStream | a per-thread buffer, a global mutex | `<<`, `>>`, `setPrefix`, `prompt` | an unfinished line is printed at once; reading holds the mutex and retries for ever | whole lines; text printed once; every statement ends |

### Networking

| Part | State | Operations | What is hard | What makes it correct |
|---|---|---|---|---|
| Message, DataBuffer | bytes and a mutable read cursor | typed `<<`/`>>`, `isComplet`, `getSerializedData`, `data`, `increaseCursor` | cuts inside header and data, reading twice | a frame is exactly what was sent |
| Client | `_fd`, `_tmpMsg`, `_msgs`, actions | `connect`, `disconnect`, `send`, `defineAction`, `update` | partial reads, end of stream, reconnection, callbacks that throw, connect or disconnect | messages shown whole, in order, once |
| Server | `_socket`, `_active`, `_clients`, `_clientsToFd`, `_partialMsgs`, `_msgs`, `_next_id`, `_max_fd` | `start`, `stop`, `sendTo`, `sendToArray`, `sendToAll`, `defineAction`, `update` | descriptors used again, clients that leave between receipt and dispatch, the limit on clients, callbacks that send or stop | the two maps, the descriptor set and the kernel agree; replies reach their client; callbacks are told who speaks |

Client and Server share Message and DataBuffer, and talk to each other over TCP. Both are
single-threaded: the program calls `update()` again and again, which receives until
nothing is ready and then calls back into the program.

### Data structures, patterns, bonus and mathematics

| Part | State and operations | What is hard |
|---|---|---|
| RingBuffer | `_buffer`, `_head`, `_tail`, `_size`; push, pushInto, pop, popInto, peek, clear | wrap-around; full and empty look alike; transfers that do not fit |
| Pool | slots, a stack of free indices; resize, acquire, release by destructor | resize with objects in use, copies of an Object releasing twice |
| Logger | level, file under a mutex, one console writer for all threads | changing the file while logging, failures half-way, console lines in pieces |
| ObservableValue, Observer | subscribers; set/notify | changes to the subscribers from inside a notification |
| Singleton | one static pointer; instantiate, instance, reset | two threads that instantiate |
| StateMachine | current state, states, actions, transitions | a transition whose function throws or runs another transition; a target state that was never added |
| Memento | byte buffer and cursor | a chained read goes on with a copy |
| Chronometre | list of timestamps, in pairs | unpaired calls |
| NAryTree | a tree; pre- and postorder | traversal order |
| IVector2/3, PerlinNoise2D, Random2DCoordinateGenerator | none | arithmetic only (not modelled) |

The parts of this table share no state with each other, except that Logger owns a
ThreadSafeIOStream and Message a DataBuffer.

## 2. Modules

| Module | Models | Composition |
|---|---|---|
| `JobService` | what a job service promises (abstract) | implemented by `WorkerPool` |
| `WorkerPool` | `worker_pool.cpp` | `INSTANCE JobService` |
| `WorkerPoolProofs` | theorems about `WorkerPool` | extends it |
| `PersistentWorker` | `persistent_worker.cpp` | |
| `MCThreads` | small instances of these two | extends both |
| `PersistentWorkerProofs` | theorems about `PersistentWorker` | extends it |
| `BoundedFifo` | a bounded queue with whole transfers (abstract) | implemented by `RingBuffer` |
| `RingBuffer` | `ring_buffer.cpp` | `INSTANCE BoundedFifo` |
| `Pool` | `pool.tpp`, the callers' references and copies, the vector's growth | |
| `PoolProofs` | theorems about `Pool` | extends it |
| `Framing` | the wire format of `message.cpp` and the part of DataBuffer it uses | extended by `Client` and `Server` |
| `Client`, `MCClient` | `client.cpp`, its peer and the connection | extends `Framing` |
| `FramingProofs` | lemmas on streams of messages that are cut, read and lost | extends `Framing` |
| `ClientProofs` | theorems about `Client` | extends it and `FramingProofs` |
| `Server`, `MCServer` | `server.cpp`, the kernel's descriptors, the peers | extends `Framing` |
| `ServerProofs` | theorems about `Server` | extends it and `FramingProofs` |
| `Console` | `thread_safe_iostream.hpp/.cpp` and `Logger::logConsole` | threads, their streams, the logger's stream, one mutex |
| `ConsoleProofs` | theorems about `Console` | extends it |
| `LogFile` | the log file of `logger.cpp` | |
| `ObservableValue`, `Observer` | the two notification classes | |
| `StateMachine`, `Memento`, `Singleton` | the other patterns | |
| `Chronometre`, `NAryTree` | timestamps; a tree and its traversals | |
| `DataBuffer` | `data_buffer.cpp/.hpp` and the typed operators of `message.hpp` | |
| `Toolbox` | `LogFile` to `DataBuffer` above without the tree, each with variables of its own, and what is assumed of their constants | extends `RingBuffer`, `INSTANCE`s the others |
| `ToolboxProofs` | theorems about `RingBuffer` and the parts of `Toolbox` | extends it |
| `MCToolbox` | small instances of them, of `Pool` and of `NAryTree` | extends `Toolbox` and `Pool`, `INSTANCE`s `NAryTree` |

Operators named `Mutant...` are altered copies of a neighbouring definition. They are not
part of a specification; each shows that a property notices a plausible slip.

### WorkerPool

A critical section of `_mtx` is one step, since nothing blocks inside one but `wait`, which
releases the mutex and blocks atomically. Everything outside the mutex is a step of its own:
the unlocked loop test (`LoopTest`, which after the stop may see either value, the read being
a data race), the job, `notify_one` (`adding` holds the threads that have pushed and not yet
notified), `notify_all` and the joins. `Spawn` and `SpawnFails` are the constructor;
`Terminate` is `std::terminate`, reached when a thread cannot be created or a job throws.
The joins of the destructor happen one after the other and change nothing that others see,
so they are one step that waits for all. A callback may submit from inside a job also while
the destructor is joining. The caller of the destructor is assumed to have no other thread
inside `addJob`. `accepted` and `started` are history.

### PersistentWorker

A registered function is a version number, fresh for each `addTask`, so that a replaced
function is told from its replacement. `copy` is what the pass has yet to run, in any order
(the map is unordered). `gone` and `late` are history: versions removed, replaced or stopped,
and how often each was started afterwards.

### RingBuffer

One action per operation; overloads that differ only in how the bytes are held are one
action over a sequence. `std::out_of_range` is the reply `Refused`. A vector copied byte by
byte is stored in one step, the buffer being used by one thread.

### Pool

A slot is an index; `_pool_ptr` is the set of slots whose link is set, `built` the set of
slots with a living `TType`. A caller keeps what `acquire` returns as a reference or, as all
tests do, as a copy, whose link is its own. What a caller holds can be copied again
(`copyObject`), into a new variable or over a copy: the compiler's copy constructor and
assignment take the link along, so that each of the copies gives the slot back, and the one
that is overwritten gives nothing back. `MaxStack` bounds how often this is repeated. `resize` is one step: it follows
`std::vector::resize`, which copies the Objects and destroys the originals when the capacity
(doubled, as libstdc++ does) is exceeded, and destroys the last ones when it shrinks; each
destructor of a linked Object pushes its index. References into destroyed storage are given
up by their holders, copies survive. Callers are assumed not to use a reference after
releasing it and to let the pool outlive the copies. A constructor that throws in `acquire`
loses the slot (`acquireThrows`). History: `tainted`, `unpaired`, `twice`, `lost`, and `shared`
(the slots that were copied while they were held); a resize begins `lost` and `shared` anew,
since it makes every slot free. What a copy of an Object does to a `TType` that owns memory
(its bytes are copied) is not modelled.

### Framing, Client, Server

A message is a sequence of units (type, size, then its data), each unit standing for the
bytes of one field, so a stream can be cut inside the header, inside the data and between
messages. A receiver that takes a unit for a size although it is none reads an arbitrary
size: this is what happens when a stream is read from the wrong place.

`Client` and `Server` have a program counter for `update()`: select, receive, parse, and
dispatch; `recv` returns any part of what has arrived, `EAGAIN`, the end of the stream or a
reset. Callbacks throw, send, connect, disconnect or stop. In `Server` descriptors are
handed out lowest first and used again at once, as a kernel does, and the use of a reference
after its map entry is erased (`server.cpp:141, 256`) and of an invalidated iterator
(`server.cpp:157`) are choices over what the build can do, the end of the process included.
`startFails` is a `start()` that fails at any of its steps: it calls `stop()`, whose body the two
share (`Shutdown`). `_tasks` are the messages whose type has an action; the others are skipped,
and a garbled type may or may not have one. `errno` is state, reduced to what the code asks of
it: an interrupted select sets `EINTR`, a call that fails otherwise, `EAGAIN` of `recv`
included, replaces it, and a call that succeeds leaves it alone. The code looks at it also when
select has not failed (`server.cpp:179-184`), so a timeout finds what an earlier call has left
(`selectTimeout`). The program's own calls between two `update()` are taken to leave `errno` as it is.
That select fails with `EBADF` needs a closed descriptor in `_active`, which `BooksAgree` excludes.

In `Server` a callback may read the data of its message or leave them unread, whether it returns
or throws. Data that were read before a throw cannot be read again when the message is
dispatched again: the callback is called, and its read throws (`callbackExhausted`). In `Client` a callback may read or not, and a type may have several
actions, which share the message and its cursor: a second reading throws
(`dispatchExhausted`), and `update()` leaves with all its messages (`jammed`). `sendToArray` and `sendToAll` are sequences of `sendTo`.

### Console

A thread runs a statement, the list of stream operations left of it. `insert` is the
unguarded part of `operator<<` (the value goes to `_buffer`, and only a buffer with a newline
is printed); `lock`, `print` (piece by piece) and `unlock` are the section under the static
mutex; the streams are one per thread (`threadSafeCout` is `thread_local`) and the logger's
`_writer`, which all threads share. Text is reduced to who wrote it; prefix, level and time
are formatting. Two threads inside `logConsole` use one `ostringstream` without a lock:
`insertRaces` appends the piece, loses it or ends the process. `readInvalid` is a wrong input
or the end of the input, after which the loop of `operator>>` never ends. History: `owed`
(text written and not on the console), `mixed`, `torn` (the mutex was released on an
unfinished line), `race`.

### The toolbox

- `LogFile`: `setOutputFile` is split where it can fail or be met by `log()`: the name, the
  directory, close, open. A step on the stream while another thread is in such a step is a
  data race, whose outcome is the usual one or the end of the process. `ofstream::open` on an
  open stream fails without `is_open()` noticing, and clears the failed state otherwise.
- `ObservableValue`, `Observer`: the stack of notifications under way; the callbacks call
  back in any way and may throw. Erasing the observer a loop stands at, and growing the vector
  a loop walks through, are undefined; the model records them and stops there.
- `StateMachine`: the stack of lambdas under way; replacing a lambda while it runs is
  undefined and stops the model. The test of `addTransition` looks at the start state twice
  and never at the final one (`state_machine.hpp:69`), which the model keeps.
- `Memento`: the members are read in statements, and which members begin a statement is
  chosen freely. `operator>>` of simple types returns a copy, so that a statement goes on with
  the copy and the next one with the original.
- `Chronometre`: a timestamp is the call that made it; the getters subtract the last two.
- `DataBuffer`: a simple type, a size and a character take one cell, and `size_t` wraps at
  `Width`, so that a size taken from the wrong place can overflow the test of
  `data_buffer.cpp:43`; the copy that follows is undefined and stops the model (`wild`).
- `Singleton`: the test, the construction and the assignment of `instantiate` are three
  steps. `reset` is assumed to be called by a program that gives up the pointers it holds.
- `NAryTree`: a node is its number in the order of creation; the traversals are recursive
  operators like the code's, the reference sorts nodes by their paths from the root.

In a behaviour of `MCToolbox`, and of `MCThreads`, one part moves and the others rest, which is all
there is to their composition: no step of one reads or writes the state of another. In
`MCThreads` the part that moves is the one that is scheduled fairly.

## 3. Runs

Passing runs check deadlock too, except `console`, whose threads end, and `toolbox`, whose models
stop where the code is undefined.

| Run | Bounds | Shows |
|---|---|---|
| `threads`: WorkerPool | 3 workers, 2 callers, 3 jobs, one throws | `HandOutIsFifo`, `WakeupsCoverJobs`, `ShutdownIsSafe`; `QueuedJobIsServed`, `DestructorReturns`; `ImplementsService` |
| PersistentWorker | 2 names, 4 registrations | `AtMostOneLateRun`, `SleepsOnlyWhenIdle`, `RegisteredTaskRuns`, `WorkerIsDestroyed` |
| `client` | 2 messages (no data, two units), 2 actions each, 2 connections, 1 throw | `WholeAndInOrder`, `ShownOnce`, `SentIsShown` |
| `server_safety` | 2 peers, 2 places, 2 messages (one with data and an action, one with neither), 2 starts, 1 throw | `BooksAgree`, `RepliesReachTheirClient`, `ConnectedSenderIsNamed`, `UncutStreamIsWhole` |
| `server_limit` | 2 peers, 1 place, 2 messages without data, both with an action, 1 throw | `BooksAgree` (the limit included), `UncutStreamIsWhole`, `SentIsDispatched` |
| `console` | 2 threads, 3 statements in all | `LinesAreWhole`, `TextIsKept`, `StatementsEnd` |
| `toolbox`: RingBuffer | 3 slots, 3 byte values, requests of 0 to 4 bytes | `IndicesAgree`, `ImplementsFifo` |
| Pool | up to 3 slots, 2 callers, no copies with 3 or more slots on the stack | `PoolIsSound`: `LentOnce`, `NoSlotVanishes`, `WildOnlyWhenTainted`, `DestroyedOnce`, `HeldIsAlive` |
| NAryTree | trees of up to 5 nodes, 2 values | `TraversalsAgree` |
| LogFile | 2 threads, 2 names, 2 levels | `FileIsNamed` |
| ObservableValue | 3 observers, 2 values, 3 nested notifications | `SubscribersAreCurrent` |
| Observer | 2 events, 5 callbacks, 3 nested notifications | `NewcomersWait` |
| StateMachine | 3 states, 4 transitions and actions, 2 nested lambdas | `MovesFollowTransitions` |
| Chronometre | 6 timestamps | `ElapsedIsPaired` |
| DataBuffer | 5 cells, a `size_t` of 8 values, strings of up to 2 characters | `ReadsBackWhatWasWritten` |
| Memento | 4 members, strings and values in turn, every division into statements | `LoadRestores` |
| Singleton | 2 threads, 3 objects | `OneInstanceHandedOut` |

Why the bounds are enough for the cases at stake. Three workers are one asleep, one on its
way to the queue and one running; three jobs are one running, one queued and one being added
by a job or a second caller. Two names and four registrations let a task be replaced in the
pass that is running it while another is removed. Three slots and requests up to one more
make every wrap, every exact fit and every refusal happen. Pools of 0 to 3 slots grow within
and beyond their capacity and shrink below a slot in use; two callers are the least that can
be lent one slot, and when both let go of copies of it the stack has it twice and is longer than
the pool. A message without data and one
with two units are cut at every kind of place; the second connection is there for what the
first one leaves behind. Two peers and as many descriptors as they need are the least with
which a descriptor changes owner; one place for two peers makes the limit bite. In
`server_limit` one message is the one at which a callback throws and the other waits behind it; as they have no data to be read twice
the queue is not jammed by it, and the message behind must be dispatched. The message with
data that jams the queue, the one that has no action and the second start of the server are
in `server_safety`, whose two places let two clients be connected at a time. Three
statements of two threads are one that leaves a line unfinished or holds the mutex to read, one
that meets it, and one that follows; with them two `logConsole` meet in the writer. Observers
before, at and behind the one whose `update()` calls back need three; a vector of callbacks
reallocates at 1, 2 and 4 and does not at 3, which needs five. Five nodes make every shape
with a node that has an older sibling with children. Cells of value 7 and a `size_t` of 8
values make a size that is none wrap the sum. A string before and after a value makes the
copy that `operator>>` returns matter for what follows.

### Disagreements with the documentation

Each of these runs checks what a comment or the README says, and TLC finds a behaviour of
the code that contradicts it.

| Run | Property | What happens |
|---|---|---|
| `client_close` | `ReceivedIsParsed` | data and the end of the stream seen by one receive loop: the data are never parsed (`client.cpp:87`) |
| `client_reconnect` | `OnlyGenuineShown` | the rest of an incomplete message is put in front of the next connection's first message (`client.cpp:43`) |
| `server_partial` | `PartialMessagesAreKept` | a message that arrives in two reads loses its first part (`server.cpp:114`) |
| `server_reuse` | `CallbackKnowsItsClient` | a message of a client that has left is given the id of the client that has its descriptor now (`server.cpp:219`) |
| `data_buffer_lifo` | `LastInFirstOut` | the buffer is read in the order of the writes (`data_buffer.hpp:73`), where line 12 of the file and its example say LIFO |
| `ring_overwrite` | `FullRingOverwrites` | `push` on a full ring throws and keeps the oldest data (`ring_buffer.cpp:20`), where `README.md:680, 695` say that they are overwritten |

Other statements of the documentation are contradicted by the code as modelled, without a run
of their own:

- `README.md:383` says that the destructor of WorkerPool waits for all jobs. A worker that sees
  `_stop` leaves although jobs are queued (`worker_pool.cpp:22`, `Leave`), and the destructor drops
  them (`worker_pool.cpp:50`, `DtorDrain`; `Discard` in `JobService`).
- `server.hpp:51` says that `update()` processes messages. After one interrupted select `errno` keeps
  `EINTR`, and every later silence makes `update()` return before it dispatches
  (`server.cpp:181`, `selectTimeout`), until another call fails: this is the first disjunct of
  `SentIsDispatched`, without which TLC finds it violated.
- `pool.hpp:13` says that RAII manages the lifetime of objects. An Object that is copied while it is
  held frees its slot with every copy (`pool.tpp:66`, `copyObject`; `shared` in `LentOnce`).
- `pool.hpp:19` says that a resize destroys all existing objects. Those in use keep their links
  although their slots are free again (`pool.tpp:51`; `tainted`).
- `pool.hpp:91` says that `release` destroys the contained object; it does not (`pool.tpp:61-68`):
  `acquire` destroys the old one.
- `README.md:813-817` says that Singleton guarantees one instance, shared between threads. Two
  threads can pass the test of `instantiate` together and both construct
  (`singleton.hpp:58`; `overlapped`).
- `logger.hpp:29` says that thread safety is ensured for the console; `logConsole` inserts into one
  unguarded stream (`race` in `Console`).

The passing properties state what survives these. In `Client` and `Server` messages are whole and
in order on a connection that began with an empty buffer, respectively as long as no read has
cut the stream; a sender that is still connected is named correctly; and messages are
dispatched unless `errno` stays `EINTR` for ever. In `Pool` a slot is lent once as long as it is not copied
while it is held and no resize meets an Object in use, and none vanishes even if it is copied. In
`Singleton` one instance is handed out unless two calls of `instantiate` overlap.

### Fairness

- `WorkerPool`, `PersistentWorker`: every thread that can take a step takes one at some time.
  This is what an operating system's scheduler gives; it includes that jobs and tasks return
  or throw and that a mutex does not starve a thread for ever. Nobody has to submit, remove or
  destroy, and spurious wakeups are never relied upon.
- `Console`: a thread that can go on does; the mutex favours nobody, and a thread that waits
  for it gets it because the statements, and with them the competition, are bounded
  (`MaxCalls`). Strong fairness of `readValue` says that the user types a valid value at some
  time, unless the input has ended; nobody has to begin a statement.
- `Client`, `Server`: the program calls `update()` regularly, as `client.hpp:51` and
  `server.hpp:50` ask, and a call proceeds. Strong fairness of select and recv says that the
  network delivers what was sent although it may be late any number of times. In `Server`,
  `update()` dispatches only once 10 ms have passed in silence (`server.cpp:173`): strong fairness
  of the timeout says that the peers do fall silent at some time, and nothing about what the
  timeout does then, which may be to return because of an old `errno`. Nothing is assumed of signals either:
  `SentIsDispatched` makes an exception for behaviours in which `errno` is `EINTR` from some
  point on, which one signal is enough for when nothing else fails afterwards. Its other exceptions are streams that were cut, peers that leave, a
  server that stops and a queue that is jammed (`Jammed`: a callback threw after reading its data).

## 4. Proofs

Theorems about `M` are in `MProofs`, those about the ring buffer in `ToolboxProofs`. The
translation to SMT of this version of TLAPS takes every value to be a sequence wherever a
length occurs (`Len(f) = n <=> DOMAIN f = 1..n` without a condition on `f`), from which
something false about a function on another domain could follow. All proofs were therefore
also run with this axiom restricted to what is true, the implication from right to left;
the leaves that did not pass were broken down until they did.

### WorkerPool

`WorkerPoolProofs` proves, for any finite non-empty set of workers, any finite set of callers
and any set of jobs (`WorkersAssumption`, `JobsAssumption`, evaluated by TLC on the runs):

| Theorem | Statement |
|---|---|
| `TypeCorrect` | `SafeSpec => []TypeOK`; in it, a worker holds a job exactly while it runs |
| `StopWakesEverybody` | `SafeSpec => []NobodySleepsThroughStop` |
| `DestructionIsSafe` | `SafeSpec => []NoThreadOutlivesPool` |
| `ShutdownCorrect` | `SafeSpec => []ShutdownIsSafe`, the two together |
| `FifoCorrect` | `SafeSpec => []HandOutIsFifo` |
| `NoLostWakeup` | `SafeSpec => []WakeupsCoverJobs` |
| `RefinesService` | `SafeSpec => Service!SafeSpec`, the safety part of `ImplementsService` |

The shutdown theorems need a strengthening, `ShutdownInv`: `_stop` is set exactly from the
first step of the destructor on; whoever is inside `addJob` is an outside caller of a pool
that is alive or a worker that is running a job; after `notify_all` nobody waits; after the
joins everyone has left. Without the second part a worker could be supposed to leave `loop()`
with an `addJob` unfinished; without the first one could go back to sleep after `notify_all`.

`FifoCorrect` rests on two lemmas on sequences: taking the head of the queue moves it from
the front of one to the end of the other part of a concatenation (`MoveHead`), and a push
appends to the whole (`AppendConcat`).

`NoLostWakeup` is a counting argument. While somebody sleeps and nothing is stopped, each
queued job is covered by a worker at the loop's head or at the lock, or by a thread that has
pushed and not notified. A push adds a job and a notifier; `notify_one` removes a notifier
and, as somebody sleeps, moves one worker to the lock; `Take` removes a job and a worker; a
worker goes to sleep only over an empty queue. The case in which nobody slept before is the
one with the empty queue, which is why the invariant is inductive although it says nothing
while everybody is awake.

`RefinesService` shows step by step that the pool does what `JobService` allows. A job that
returns or throws must leave no other worker running it, which needs `PushedOnce` (a job is
accepted once) and `OneWorkerPerJob` (what a worker runs has been started, and no two run the
same); that a process that has ended stays ended needs `LifeInv`. The number of jobs under way
is bounded by the number of workers, from the counting lemmas.

### PersistentWorker

`PersistentWorkerProofs` proves, for any set of names and any bound on the number of
registrations (`VersionsAssumption`):

| Theorem | Statement |
|---|---|
| `TypeCorrect` | `PersistentSafeSpec => []PersistentTypeOK` |
| `WakesForWork` | `PersistentSafeSpec => []SleepsOnlyWhenIdle` |
| `LateRunsAreBounded` | `PersistentSafeSpec => []AtMostOneLateRun` |

The last one needs `LateInv`. That a version runs late at most once says nothing about why
it cannot run late again: it could be copied again by a later pass. It cannot, because what is
gone is not registered while the worker runs (`GoneIsNotRegistered`), which a replacement
keeps only if no version is registered under two names (`OneNameEach`) and a new version is
new (`OldVersions`); and within a pass a version leaves the copy when it is called, so that
whatever is still in the copy has not run late yet (`LateIsLast`).

### RingBuffer

`ToolboxProofs` proves of it, for every capacity, 0 included, and every set of byte values with
a 0 (`CapAssumption`, `BytesAssumption`):

| Theorem | Statement |
|---|---|
| `RingTypeCorrect` | `Spec => []TypeOK` |
| `IndicesCorrect` | `Spec => []IndicesAgree` |
| `RingImplementsFifo` | `Spec => ImplementsFifo` |

Remainders are taken only of numbers below twice the capacity, where two lemmas give their
value; from them follows where an index comes to stand (`AdvanceValue`) and that moving on
twice is moving on once by the sum (`AdvanceTwice`), which is all that `IndicesAgree` needs.
The refinement rests on `OffsetValue`: the distance of a slot behind `_head` tells whether it
is in use, so that a write that fits touches no stored byte (`StoreAppends`), and a read takes
a prefix and leaves the rest (`StoredFront`, `LoadLeaves`). `BoundedFifo` has no fairness, so
this is the whole of the refinement that the run checks.

### Pool

`PoolProofs` proves, for any set of callers and any bound on the size
(`MaxSizeAssumption`):

| Theorem | Statement |
|---|---|
| `SlotsAreLentOnce` | `PoolSpec => []LentOnce` |
| `SlotsAreAccountedFor` | `PoolSpec => []NoSlotVanishes` |
| `AccessIsInBounds` | `PoolSpec => []WildOnlyWhenTainted` |
| `DestructionsPair` | `PoolSpec => []DestroyedOnce` |
| `HeldSlotsAreAlive` | `PoolSpec => []HeldIsAlive` |
| `PoolCorrect` | `PoolSpec => []PoolIsSound`, all of them |

The invariant `PoolInv` claims the books (`Books`) only of a living pool that no resize has
tainted. They have two halves. `Total` is about all slots, copied or not: each is free, held or
lost, and one that is not linked is free, so that a release that finds nothing to do comes after
another one. `Sole` is about a slot that was not copied while it was held: it is on the stack
once at most, its holder is alone and finds it built, linked, and neither free nor lost, and
what is lost is not free. A copy moves its slot from the second half to the first, and nothing
but a resize moves it back. A linked slot means a pool that is not empty, so that a resize
that taints the pool also leaves dead objects (`tainted => unpaired`), which `DestroyedOnce` needs. `PoolTypeOK` is proved of clean pools only: what a tainting resize and `~Pool` push is a `SelectSeq`, of which the prover has no
usable facts.

### Client

`ClientProofs` proves, for any set of messages of any sizes, any number of actions for each,
and any bound on connections and throws (`SizeAssumption`, `ClientAssumption`):

| Theorem | Statement |
|---|---|
| `ShownCorrect` | `SafeSpec => []ShownOnce` |
| `DeliveryCorrect` | `SafeSpec => []WholeAndInOrder` |

`ShownOnce` follows from `OnceInv`. Until an exception leaves `update()`, a frame that was shown
is told from those that wait by its first unit: no two units on their way (on the wire, in
`_tmpMsg`) are the same (`ApartInv`), all of them belong to messages that were sent
(`KnownInv`), the first unit of a frame that was cut off is in the stream no more
(`TakenInv`), and the frames from the one that waits on have not been shown (`WaitingInv`).

`WholeAndInOrder` needs to know where a stream is. What follows about offsets and windows is
proved once, in `FramingProofs`, and used again for the server. To each connection belong the offsets at
which its messages begin (`off`) and the number of messages that have been parsed (`done`),
whose existence the invariant claims. On the wire and in the buffer are *windows* of this
stream: on a connection that began with an empty buffer the buffer and then the wire
continue where the last parsed message ends (`CleanLink`), so that the size at the front of the
buffer is the size of a message and what is cut off is this message (`TakesWhole`); on the
others (`MixedLink`) units of the connection may follow the rest of another one, and nothing is
said of how they are cut. When a connection is reset or replaced by another, the units that
are lost are the last ones, and what stays in the buffer is a window still. A message is
parsed only when those before it are (`ParsedInv`), it stands behind them in `_msgs` unless
they were shown (`OrderInv`), and `update()` passes no message with an action without showing
it (`PassedInv`), also when an exception has left it and the next call begins again at the
front. `OneConnection` says that a message is sent on one connection only. The proof does not
depend on how many connections were made or where they were cut.

### Server

`ServerProofs` proves, for any set of peers and messages, any limit and any number of
descriptors (`SizeAssumption`, `ServerAssumption`):

| Theorem | Statement |
|---|---|
| `TypeCorrect` | `SafeSpec => []TypeOK` |
| `BooksCorrect` | `SafeSpec => []BooksAgree` |
| `RepliesCorrect` | `SafeSpec => []RepliesReachTheirClient` |
| `NamingCorrect` | `SafeSpec => []ConnectedSenderIsNamed` |
| `StreamCorrect` | `SafeSpec => []UncutStreamIsWhole` |

The first four follow from `ServerInv`. `BooksInv` compares the maps and the descriptor set with the
kernel's table, which is needed because `_acceptNewClient` trusts that the descriptor it is
given is in no map. `IdentityInv`: an id names one peer for ever and a peer that has had an id
and is no longer connected does not come back. `ScanInv`: what the scan has still before it is
active although clients are dropped in the middle of it, and what it receives from is open.
`ParseInv`: only the connection that is being parsed has bytes in `_partialMsgs`. For the naming
the units are followed from the peer to the callback: on the wire (`WireInv`), in the buffer
(`BufferInv`), in the queue (`QueueInv`: the sender is on the descriptor of the frame or is
no longer connected) and in the callback (`ToldInv`); a message has one sender (`OneSender`).

`UncutStreamIsWhole` needs more (`DeliveryInv`). It is about the messages whose type has an action;
the others are passed over, and `Shown` says so of what is behind the dispatch. For a peer that no read has cut there are
offsets of its messages and a number of messages parsed, so that what was received and not
parsed, and then what is on the wire, continue where the last parsed message ends (`Flows`).
What keeps this true although `_receiveClientMsg` clears the buffer after every read is that,
as long as anything can still come, what was received ends with a message (`Aligned`), so that
the parser leaves nothing over (`FlowsCleared`); what it does throw away of a peer that was
reset is the last that will ever come. A message stands in the queue behind all that its
sender sent before, unless those were told already (`OrderInv`), for which the messages parsed
of a connected peer must not get lost: the queue is emptied only by `stop()` or a failing `start()`, which leave no
connection (`Halts`), or when dispatching is past its end, and a message that dispatching is past
was told or its sender is forgotten (`PastInv`). The last case cannot leave a gap: all frames
of a peer carry one descriptor (`SameFdInv`), so a callback that runs for a later message
finds a client behind the descriptor of the earlier ones too. An id or a descriptor that is
given again does no harm, since a peer that was forgotten is not accepted again
(`IdentityInv`).

### Console

`ConsoleProofs` proves, for any set of threads and any number of statements
(`ConsoleAssumption`):

| Theorem | Statement |
|---|---|
| `ConsoleCorrect` | `Spec => []LinesAreWhole` |
| `TextCorrect` | `Spec => []TextIsKept` |

`ConsoleInv` is claimed until two threads have met in `_writer`. A thread keeps and prints only
what it has written itself (`TextInv`), which for the shared `_writer` is true only of a thread
that is past its insertions or logs alone (`WriterInv`); one thread is in the section
(`MutexInv`); and the unfinished line is that thread's (`LineInv`).

`TextIsKept` is a count (`KeptInv`). The pieces that a thread owes are those in its own buffer,
those in `_writer`, and those it is printing (`CountInv`). An insertion adds a piece to both
sides, `lock` moves the pieces of a buffer into the section, `print` takes one from both. The
lines that `operator<<` has copied before it had the mutex are still those of the buffer when
it gets it (`CopyInv`), since no other thread uses the stream: in `_writer` one thread at most is
past its insertions (`AloneInv`), and the text there is by those who are in `logConsole`
(`AuthorInv`). A finished line is in a buffer only between the insertion and the lock
(`FinishedInv`).

### The toolbox

`ToolboxProofs` proves the properties of seven of its parts, for any number of threads, names,
observers, callbacks, states, timestamps and bytes. The constants are assumed to satisfy
`NamesAssumption`, `ObserversAssumption` and `WidthAssumption` (a vector never grows to the
largest `size_t`).

| Theorem | Statement | Invariant |
|---|---|---|
| `SingletonCorrect` | `Single!Spec => []OneInstanceHandedOut` | who is inside `instantiate` finds no instance and nothing handed out |
| `LogFileCorrect` | `Log!Spec => []FileIsNamed` | between close and open the stream is closed and one thread is at work |
| `ChronometreCorrect` | `Chrono!Spec => []ElapsedIsPaired` | the list is a sequence of pairs of one measurement |
| `MachineCorrect` | `Machine!Spec => MovesFollowTransitions` | a transition under way was added, and began in the current state unless another has ended inside it |
| `ObservableCorrect` | `Observable!Spec => []SubscribersAreCurrent` | whoever has not been shown the value is still to be reached by a loop under way |
| `ObserverCorrect` | `Event!Spec => []NewcomersWait` | each loop has called a prefix of its vector, no further than the vector went when it began |
| `DataBufferCorrect` | `Buffer!Spec => []ReadsBackWhatWasWritten` | fields stay where they were put, and no sum of the code wraps while they are read where they are |

### Model-checked only

- Liveness (outside the prover's reach): `QueuedJobIsServed`, `DestructorReturns`, `WorkerIsDestroyed`,
  `RegisteredTaskRuns`, `SentIsShown`, `SentIsDispatched`, `StatementsEnd`, and the fair part
  of `ImplementsService`.
- `LoadRestores` of Memento: what a load of any layout reads is defined by a fold over the
  layout, and a proof for every layout is an induction over it.
- `TraversalsAgree` of NAryTree: the traversals are recursive operators, of which the prover
  knows nothing.
- `PoolTypeOK` is proved of clean pools only and is not checked by a run of its own.

## 5. Not modelled

- ThreadSafeQueue: each of its operations is one critical section on a `std::deque`, so that
  a model would be the deque itself; no other part uses the class.
- Thread: the calls of one owner around a `std::thread`, with a join as the only blocking
  step.
- IVector2, IVector3, Random2DCoordinateGenerator: arithmetic without state. PerlinNoise2D:
  floating-point interpolation.
- The results of `send` in `Client` (the code ignores them) and SIGPIPE there; in `Server`
  SIGPIPE is one of the outcomes of sending to a peer that has gone. A message that was partly
  read and is sent again carries only its unread part (`message.cpp:36-43`): messages are
  sent as they were written.
- `update()` called from inside a callback; `defineAction` from inside a callback, which would
  change the vector or the map that `update()` walks through; `start()` on a server that is
  listening.
- Descriptors beyond `FD_SETSIZE`; memory use (the client's buffer is never cut behind the
  cursor); overflow of the client ids and of the sizes in `isComplet`.
- Pools of zero workers.
- In `Pool`, a second reference bound to a slot that is held, and an assignment through a
  reference, which overwrites the index of the slot.
- `~Logger`, `~ObservableValue` and `~Chronometre`, which only empty their objects; a thread
  that ends with text in its stream, which is lost with the `thread_local` object.
- `NAryTree::postorder(funct)` without a node: it passes the `unique_ptr` where a pointer is
  expected (`n_ary_tree.hpp:167`) and does not compile when it is used; the overload with a
  node is modelled.
- Prefixes, levels, times and units: formatting.

## 6. Plan

Done: all the modules of section 2 with their runs, the proofs of section 4.

Left, in the models: `start()` on a listening server and `defineAction` at run time.
