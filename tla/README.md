# NetSocket: specifications

TLA+ specifications of the NetSocket library (`src/`), a multi-reactor TCP
library in C++: a main loop accepts connections and deals them out to io loops,
each a thread with an epoll set and a queue of callbacks; user code runs on the
io threads and, through a worker pool, on others; log messages go to a file on
a thread of their own.

The modules are translated from the code. Paths below are relative to the
repository's root; `PROJECT.json` maps every definition to its lines.

## 1. Inventory

| component | state it keeps | operations | talks to |
|---|---|---|---|
| `EventLoop` | `quit_`, `callingPendingFunctors_`, `pendingFunctors_` (mutex), `activeChannels_`, the eventfd | `loop`, `runInLoop`, `queueInLoop`, `quit`, `wakeup`, `handleRead`, `doPendingFunctors` | every thread that hands it a callback; its poller |
| `EventLoopThread`, `Thread` | `loop_` (mutex, condition) | `startloop`, `threadFunc`, destructor | an `EventLoop` on the stack of its thread; its owner |
| `EventLoopThreadPool` | `loops_`, `next_` | `start`, `getNextLoop` | `TcpServer`, `EventLoopThread` |
| `Poller`, `Epollpoller` | `channels_`, `events_`, the epoll set | `poll`, `updateChannel`, `removeChannel` | `EventLoop`, `Channel` |
| `Channel` | `events_`, `revents_`, `index_`, `tie_` | enable/disable, `remove`, `handleEvent` | poller; the callbacks of `Connection` or `Acceptor` |
| `Connection` | `state_`, two `Buffer`s, its `Channel` | `send`, `shutdown`, `handleRead/Write/Close/Error`, `connectEstablished`, `connectDestroyed` | io loop, workers, `TcpServer`, user code |
| `Buffer` | a vector and two indices | `append`, `readFd`, `retrieve`, `writeFd` | `Connection` |
| `TcpServer` | `connections_` | `start`, `newConnection`, `removeConnection`, destructor | main loop, io loops, `Connection` |
| `Acceptor`, `Socket` | a listening descriptor and its channel | `listen`, `handleRead`, destructor | main loop, `TcpServer` |
| `WorkThreadPool` | `taskqueue_` (mutex, condition), `stop_` | `addtask`, worker loop, destructor | user code |
| `Asynclogging`, `LogBuffer` | two spare buffers, filled buffers (mutex, condition), `running_` | `append`, `start`, `threadFunc`, destructor | every thread that logs |
| `AsyncLog` | `instance_`, `LogQueue_` (mutex, condition), `fout_`, `exit_` | `instance`, `log`, `open`, `close`, `asyncWrite`, destructor | every thread that logs |
| `Logger` | a level | `log` | every thread that logs |
| `InetAddress`, `Timestamp`, `CurrentThread`, `noncopyable`, `Callbacks` | none | conversions | |

What is hard in it:

* **Wake-ups.** `queueInLoop` pushes under a mutex, then writes the eventfd
  after the unlock and only if `!isInLoopThread() || callingPendingFunctors_`.
  `notify_one` in `addtask` also comes after the unlock. `quit_` and `stop_`
  are set without the mutex.
* **Lifetime.** A connection lives while anybody holds a `ConnectionPtr`, but
  some functors are bound to the bare `this` and to the caller's text.
* **Two threads, one `state_`.** `send` and `shutdown` test `state_` on any
  thread, and `handleClose` sets it on the io thread.
* **Ordering.** A direct write must not overtake buffered data, the FIN must not
  overtake any, and removal crosses two loops.
* **Ownership across loops.** The base loop owns the map of connections, every
  worker loop the channels of its own, and `activeChannels_` and the epoll set
  hold bare pointers; the destructor runs on the base loop's thread while the
  worker loops still run.
* **Failure.** The peer closes or resets at any moment; the server, the pool, a
  loop's owner and the log are destroyed while other threads are inside them.
* **Boundaries.** Descriptors run out, or one of them is 0; the epoll array is
  full, the eventfd counter is at its maximum, `makeSpace` compares sums of indices, `readFd` overflows into a second
  buffer, the log writer falls behind.

What makes each component correct is the list of properties in section 4; what
can go wrong and at which line is `hazards` in `PROJECT.json`.

## 2. Modules

| module | models | composed of |
|---|---|---|
| `SerialExecutor` | abstract: callbacks run one at a time, once, in order | |
| `EventLoop` | the loop's thread and the threads that call it | implements `SerialExecutor` |
| `EventLoopThread` | the thread around a loop, and its owner | extends `EventLoop`, whose actions it uses unchanged |
| `WorkThreadPool` | workers, producers, destructor | |
| `Channel` | interest and registration of one channel with its poller, as operators | |
| `ByteStream` | abstract: up once, down at most once, data in order, none after down | |
| `Connection` | one connection: io thread, workers, main loop, peer | extends `Channel`, implements `ByteStream`, uses a loop as `SerialExecutor` promises |
| `ByteQueue` | abstract: bytes come out as they went in | |
| `Buffer` | the two indices and the vector | implements `ByteQueue`; `Connection`'s output is such a queue |
| `ConnectionLives` | abstract: each connection up once, down once, its descriptor open until then | |
| `TcpServer` | `TcpServer`, `Acceptor`, `EventLoopThreadPool` and the loops, with all connections | extends `Channel`, implements `ConnectionLives` |
| `Asynclogging` | appending threads, writer thread, owner | |
| `AsyncLog` | threads that log, writer thread, destructor | |

`MC<module>` instantiates a module for TLC and `<module>_proof` holds what is
proved of it. Operators named `X_Something` are faulty variants of `X`, the way
a plausible slip would write it; `PROJECT.json` lists under `mutants` which
property each of them breaks. No specification uses them.

### How state and actions correspond to the code

**EventLoop.** `pc` is the place in `loop()`: `check` is line 90 of
`EventLoop.cc`, `poll` is `epoll_wait`, `events` the loop over
`activeChannels_`, `swap` and `functors` the two halves of
`doPendingFunctors`. In the phases `init`, `callback` and `functor` user code
runs, which may call `queueInLoop` and `quit` on the loop's own thread
(`SelfQueueInLoop`, `SelfQuit`). Another thread's `queueInLoop` and `quit` are
two steps each (`QueueInLoop` or `Quit`, then `Wakeup`), between which the loop
runs. The mutex is held within one action, so it is no variable. `Poll`
reports some of what is ready when the array is too short, and doubles it.

**EventLoopThread.** `ptr` is `loop_ != nullptr`; `life` follows the thread
through the thread-init callback, `loop()` and the end of `threadFunc`; `opc`
follows the owner through `startloop()` and the destructor. `AwaitLoop` is one
round of `while (loop_ == nullptr) cond_.wait(gd)`; `Publish` and `Leave` are the
two assignments to `loop_`. Threads other than the owner are assumed to use
the loop only while it exists. Of the owner this is not assumed: its
destructor reads `loop_` twice without the mutex, and when the loop went in
between, the second read gives null or the old address (`CallQuit`); a call of
a loop that is gone is the phase `fault`. The phase `late` is the same inside
`quit()`, between its assignment to `quit_` and its `wakeup()`: the loop may see
the flag and be destroyed first. No property forbids `late`, for the code does
not exclude it. `asked` is a history variable: `quit_` is true and somebody other than
the owner made it so.

**WorkThreadPool.** `wpc[w]` is the line a worker is at. `condition_.wait` with
a predicate is the loop the standard defines it as: test with the mutex held
(`Check`), release and wait in one step (`Block`), take the mutex again
(`Lock`). `SetStop` does not take the mutex, for the code does not. `NotifyOne`
wakes any one waiting worker.

**Channel, Connection.** A channel is a record of its interest, its `index_`,
and whether its descriptor is in `channels_` and in the epoll set;
`UpdateChannel` and `RemoveChannel` are `Epollpoller`'s, including the detour
through `disableAll`. In `Connection` every handler is an action
(`EventHup`, `EventErr`, `EventIn`, `EventOut` in the order of
`handleEventWithGuard`), every functor is another (`RunEstablished` ...). User
callbacks are phases of `io`, in which user code may call the connection;
`ClosingReturns` and `DestroyingReturns` are what the code does after such a
callback. A worker's `send` and `shutdown` are split where another thread can
get in: `CheckState`, then `QueueSend`, or `SetDisconnecting` and
`QueueShutdown`. `Alive` says who still holds a `ConnectionPtr`; `spent` is the
reference a batch of functors keeps until it is destroyed. The kernel is
external: it takes any part of a write, reports `ECONNRESET` once and then
`EPIPE`. `EPIPE` on a write comes with `SIGPIPE`, which nothing ignores: `fault`,
the end of the process. Running a functor bound to the `this` of a freed
connection is `fault` as well. A functor that reads a text its caller may have
freed sends `Garbage` or the text.

**TcpServer.** One action per step of a loop: `Poll`, then `HandleEvent` or
`Accept` for each active channel, `SwapPending`, `RunFunctor`, `EndFunctors`,
which looks at `quit_`. Loop 0 is the base loop, on the main thread; the
destructor runs there when `loop()` is over, in the order of the members:
`DropConnection` is the body, `QuitWorker` and `JoinWorker` are
`~EventLoopThread` for one thread after another, `EndDestructor` is `~Acceptor`.
`Alive` says who holds a `ConnectionPtr`: the map, a queued functor, one of the
batch in progress, or one already run in it (`spent`). A connection's descriptor
is open exactly while it is alive, and `Accept` takes the lowest free one.
Wake-ups are not repeated here: that a loop in `poll` goes on when work waits is
`NoLostWakeup` of `EventLoop`. What a connection does with data is
`Connection`'s: here a handler either leaves its connection up or closes it.

**AsyncLog.** A call of `log` is `StartLog` (the unlocked test of `instance_`),
`MakeInstance` (the locked one), then `Discard` or `Push`, then `Notify` after
the unlock. The writer's `Take` is everything it does under the mutex,
`ChooseStream` and `Write` are what it does without. `exit_` is set under the
mutex, so it never falls between the writer's test and its wait: the difference
from `WorkThreadPool`.

**Buffer.** One operator per method, from a buffer to the buffer after it; the
state machine applies `append`, `readFd` and `retrieve` in any order. `readFd` is
given what `readv` returned, never more than the two pieces hold.
`given` is history: the bytes the last call brought. `ByteQueue` appends those and
no others, so a refinement holds the bytes that come out to the bytes handed in.

**Asynclogging.** `AppendMessage` is `append` under the mutex. The thread's
round is `Top`, `Wait` (only if there is no filled buffer), `Exchange` under the
mutex and `WriteBuffers`, which works on buffers only the thread has. `Kept` and
`Erased` are the buffers before and after the second. A message is its number;
its length is kept in the buffers. `file` is what `fout_` received, without the
lines that count dropped buffers.

## 3. Bounds

| run | instance | why it is enough |
|---|---|---|
| `EventLoopThread` | owner, 2 more threads, 3 functors, 1 socket, epoll array from 1, eventfd to 2 | two threads can be between push and wake-up at once while the owner quits, one functor is in the batch while another queues a third, the array is full, the counter saturates |
| `WorkThreadPool` | 3 workers, 2 producers, 3 tasks | one worker runs, one waits, one is between test and wait; two notifications overlap |
| `Connection` | 2 workers, 2 messages of 2 units, mark at 3 units | a write may take none, half or all of a message, two messages can wait, the high-water mark is crossed by the second, a shutdown and the server's end fall between any two steps |
| `ConnectionRace` | 2 workers, 1 message | one worker sends while another shuts down; liveness needs no more |
| `TcpServer` | 0 or 2 worker loops, 3 peers, descriptors for 2 connections (or 1, when 0 is free) | one connection to each loop and a third in a reused place, with a reused descriptor; accepting fails and goes on |
| `Buffer` | prefix 1, room 3, extrabuf 2, data up to 4, vector up to 8 | moves, growth, both, and reads that fit, fit exactly and overflow |
| `Asynclogging` | buffers of 4, messages of 1 or 3, 6 messages | a buffer with no byte to spare and with one, more than two buffers taken at once |
| `AsyncLog` | 2 threads, 3 messages | both find no instance; one message is in hand, one queued, one on its way |

Workers and messages are symmetric in `Connection`, which checks no liveness.
`MaxMessages` (`Asynclogging`), `MaxSize` (`Buffer`), `MaxConns` and
`MaxThreads` (`TcpServer`) bound the state space; the theorems hold for every
value of them. Functors, tasks and messages are each used once, which bounds the
queues.

Deadlock is checked for `Buffer`. The others come to an end: the pool is joined,
the connection freed, the owner gone, the server destroyed, the process in
`fault`.

## 4. What the runs check

`EventLoopThread` (the loop, its thread and its users)
: `NoLostWakeup`: when the thread is in `epoll_wait` and work or a quit is
  pending, the eventfd is readable or somebody is about to write it.
  `SerialExecution`: the refinement of `SerialExecutor`. `QueuedFunctorRuns`,
  `QuitStopsLoop`: what was queued runs and a quit ends the loop, with no
  timeout of `epoll_wait`. `DestructorIsSafe`: unless
  somebody other than the owner asked the loop to quit, the destructor never
  calls a loop that is gone and the object goes only after its thread; with such
  a request both go wrong in the code, as the exception says.
  `InitBeforeUse`: nobody gets the loop before the thread-init callback returned. `StartReturns`.

`WorkThreadPool`
: `NoUnderflow`: no `front()` of an empty queue. `NoTaskAbandoned`: no task is
  left to sleeping workers. `QueuedTaskStarts`. `JoinReturns`: the destructor
  ends if no worker was between its test and its wait when `stop_` was set.

`Connection` (`send` from anywhere, `shutdown` on the io thread; the server may be destroyed)
: `Registered`: a channel is in the epoll set exactly while it has an interest.
  `WaitingIsWatched`: data waits exactly when `EPOLLOUT` is asked for.
  `FinAfterData`. `StreamRefined`: the refinement of `ByteStream`.
  `GoneIsUnregistered`: a freed channel is in no table. `RemovedWasReported`:
  what was up is reported down. `RemovalIsFinal`: nothing registers a removed
  channel. The last three except by name a server that ends in the middle of a
  `shutdown()` (`EndedInShutdown`), for there they fail.

`ConnectionRace` (workers call `send` and `shutdown`)
: `PeerEndReported` and `DownIsFreed`, although no socket ever need be writable.

`TcpServer`
: `TypeOK`, of which that `getNextLoop` stays within `loops_` is the part that
  could fail. `ActiveIsLive`: while a thread goes through the bare pointers of
  `activeChannels_`, none of their connections is freed. `NoDanglingChannel`:
  no poller knows a channel that is gone, the acceptor's included.
  `ReportedAtEnd`: after the destructor every connection was reported down, but
  for those named below. `LivesRefined`: the refinement of `ConnectionLives`.
  `AcceptsWhenFree`: a peer refused with `EMFILE` is accepted when a descriptor
  is free. `DestructorReturns`: it joins workers that were in `loop()`.

`AsyncLog`
: `OneInstance`: threads that log first at once make one log. `AllIsWritten`:
  messages leave in the order they were pushed, all of them before the
  destructor returns, and to nowhere only when the file was closed or opened
  again under the writer. `LogDrains`: each is written, and the destructor
  returns.

`Asynclogging`
: `PointersInv`: no null buffer is used. `InOrder`: file, buffers being
  written, filled buffers and the current one are, in that order, all messages
  but those erased. `AtExit`: what the destructor leaves unwritten.
  `MessageIsWritten`, `DestructorReturns`.

`Buffer`
: `IndicesInv`, `QueueRefined` (the refinement of `ByteQueue`),
  `GrowsWhenFull`.

### Where the code departs from what its text says

Four runs check one property each that a comment or a message of the code
states, and find it violated:

* `EventLoopThreadQuitLost`: `loop()` resets `quit_` (`EventLoop.cc:87`), so
  a `quit()` between `loop_ = &loop` and `loop()` is lost and
  `~EventLoopThread` joins for ever.
* `WorkThreadPoolStopLost`: `stop_` is set without the mutex
  (`WorkerThreadPool.cc:45`); a worker between its test and its wait misses the
  notification and the destructor joins for ever.
* `ConnectionTextLost`: `send` from another thread queues `buf.c_str()`
  (`Connection.cc:52`); the text may be gone when it is sent. The example does
  exactly this.
* `ConnectionWriteAfterDown`: `shutdown` tests and sets `state_` in two
  steps (`Connection.cc:121`) and can overwrite `kDisconnected`, after which a
  queued `send` writes to a connection reported down.

Observations without a run of their own, each at its line in `hazards`: a
functor queued on the loop's own thread before `loop()` waits ten seconds for
the poll's timeout (the properties name such functors, `early`); a loop that
ends before `startloop()` saw it leaves `startloop()` waiting; a loop that ends
on somebody else's `quit()` during `~EventLoopThread` may be called when it is
gone, or left unjoined (`asked`), and one that sees the flag of a `quit()` in
progress may be gone before that `quit()` wakes it up; tasks queued when
the pool is destroyed are dropped; `shutdownInloop` after `handleClose` shuts the
write side down with data waiting; a connection in `kDisconnecting` removed by
`~TcpServer` is never reported down, and a `send` queued behind its removal puts
the removed channel back into the epoll set (`EndedInShutdown`); `~TcpServer`
queues `connectDestroyed` and then sets `quit_`, so that a loop past its swap
drops the functor and the connection is closed unreported (`late`);
descriptor 0 is taken for an error of `accept` and its peer is lost;
`~Asynclogging` does not write filled buffers.

## 5. Fairness

`Spec` is without fairness; liveness is checked under `FairSpec`.

* Threads are scheduled: weak fairness of every step that waits for nothing
  (`LoopStep`, `IoStep`, `WorkerStep`, `ThreadStep`, the calls in progress).
  User callbacks and tasks are assumed to return.
* `epoll_wait` returns when the eventfd is readable (weak), and in
  `Connection` reports a hang-up, an error or input (strong, for workers may
  change the interest in between). Nothing is assumed of its timeout, nor that
  a socket is ever writable.
* A worker that keeps asking for a mutex gets it (strong fairness of `Lock`):
  the mutex is released again and again.
* In `TcpServer` every loop's thread runs, `Poll` returns when a functor, a quit
  or a peer waits (weak; `EventLoop` shows the first two), a worker enters
  `loop()`, and a destructor that was called goes on. No peer need come or go.
* A task ends (strong fairness of `EndTask`): user code does not call a
  connection for ever.
* `wait_for` of the log thread ends by its timeout: `Exchange` is part of
  `ThreadStep`.
* No call is ever owed: nobody has to queue, quit, destroy, send, close or log,
  and no condition variable wakes anybody without a notification.

## 6. What is proved

TLAPS proves the theorems listed in `PROJECT.json` for every value of the
constants that satisfies the modules' `ASSUME`s.

* `EventLoop_proof`. `NoLostWakeup` is not inductive: it speaks of `poll`
  only. `WakeupInv` carries the promise through every phase from which the loop
  reaches `poll` without swapping (`check`, `functors`, `functor`), and
  `PhaseInv` says that `callingPendingFunctors_` is set in exactly the phases in
  which a self-queued functor needs a wake-up. Given these, each action keeps the
  promise: a push by another thread makes one (`tpc`), a push by the loop's own
  thread writes the eventfd or comes before the swap, and the eventfd is read only
  in `events`, from which the loop goes through the swap. `SerialExecution` maps the queue to
  `functors \o pending`: the swap moves the boundary between the two, and only
  `FunctorReturns` completes.
  Assumed: the array and the counter have at least one entry, the wake-up
  channel is none of the others.
* `EventLoopThread_proof`. `StepOfLoop`: every step of the composition is a step
  of `EventLoop` or leaves it alone. Hence `ThreadIsLoop`
  (`ThreadSpec => Spec`), through which every theorem about the loop holds of a
  loop in a thread. `HandshakeInv` ties `opc`, `ptr`, `life`, `quit` and
  `asked`: the owner is past `startloop()` only if the pointer was published,
  which is so exactly in `life = "loop"`; the thread leaves `loop()` only when
  `quit_` is true; and before the owner's own call `quit_` is true only if
  somebody else made it so. Hence `DestructorSafe` and `CallbackBeforeUse`.
  `ThreadTypeCorrect` adds the types.
* `WorkThreadPool_proof`. `LockInv`: one worker is past `lock`, and the one about
  to wait has seen the queue empty. From it `NoTaskAbandoned` follows although
  the notification is sent without the mutex: whoever adds a task while a worker
  is about to wait would have needed that worker's mutex. `TasksStartInOrder`: first
  in, first started.
* `Asynclogging_proof`. `BuffersCorrect`: with the shape of the buffers
  (`BuffersOK`), `PointersInv` is inductive. If both spares were handed out,
  `nextBuffer_` was used up, so a filled buffer and the current one were taken:
  two buffers come back whatever was erased.
  `OrderInv` adds what `InOrder` and `AtExit` need: that the thread holds buffers
  only while it writes, that a buffer whose `cur_` has not moved has no message (the
  destructor tests `cur_`), and that the destructor returns after the thread.
  `append` puts the next number at the end of the sequence `InOrder` speaks of,
  `Exchange` only moves its parts, and what `WriteBuffers` erases from the middle
  (`ListsRemove`) leaves the rest in order. That concatenated buffers have their
  messages concatenated (`ContentsFacts`) is a fact about the recursive
  `FlattenSeq`: it is proved by `SetInduction`, where a set of numbers takes the place
  of a predicate, from the library's `WFMin`.
  Assumed: no message is longer than a buffer less one byte, which `LOG_FORMAT`
  ensures.
* `Buffer_proof`. `IndicesInv` is inductive. The content of a buffer
  is compared byte by byte: `MakeSpaceKeeps`, `WriteAppends`, `ReadFdAppends` and
  `RetrieveDrops` say what each method does to it, whatever the sizes, and
  `BufferImplementsQueue` and `GrowthCorrect` follow.
* `AsyncLog_proof`. `LogInv` adds to the properties where the writer has a
  message in hand (`HandInv`), that there is none before there is an instance
  (`WriterInv`), that `exit_` is set only when no thread is inside `log` and the
  writer ends only on an empty queue (`ExitInv`), and that a writer that chose
  the file finds it open unless another thread used `fout_` (`FileInv`). Only
  `Push`, `Take` and `Write` move a message; each keeps
  `Out \o hand \o queue = pushed` by associativity. `AllIsWritten` follows: after
  the join both the hand and the queue are empty.

* `Connection_proof`. `ConnInv` holds whatever user code calls on whatever thread.
  Its parts: the types, with `index_`, registration and interest of the channel
  in step (`TypeInv`); before the user is told of the connection,
  `connectEstablished` waits once, ahead of everything (`FreshInv`); what the
  handlers still to be dispatched and the functors rely on, as that `disableAll`
  meets a channel that is added (`ChannelInv`); that until the user is told of the
  end only the server's end removes the connection (`UpInv`); that a channel in the
  poller will be removed, since the map has the connection or `connectDestroyed` is
  queued or runs (`KeepInv`); and `WaitingIsWatched`, which rests on all of them:
  `sendInLoop` turns `EPOLLOUT` on and `handleWrite` off, and between the two lie
  user callbacks that send themselves. From it `TypeCorrect`,
  `RegisteredWithInterest`, `WaitingDataIsWatched`, `RemovedReported` and
  `FinFollowsData`.
  `DownInv` says that a connection once down stays so, with no interest and no
  registration, and keeps what it had written. It rests on the assumption
  `NoWorkerShutdown`, that threads other than the io thread do not call
  `shutdown()`: its `setState(kDisconnecting)` may undo `kDisconnected`
  (`Connection.cc:121`), and `ConnectionWriteAfterDown` shows `NoWriteAfterDown`
  violated without the assumption. With it `RemovedForGood`, `GoneUnregistered`,
  `NothingAfterDown` and the refinement `ConnectionIsStream` hold: each step opens
  the stream, closes it, moves units from accepted to written in order, or
  stutters. The run `Connection` has the same workers.
* `TcpServer_proof`, for any number of threads, connections and descriptors.
  None of the properties is inductive, for the map gives up its reference
  long before the connection is gone. `QueueInv` says which functor may wait on
  which loop, and that `connectEstablished` waits once, before anything else of its
  connection: so `connectDestroyed` never finds `kConnecting`. `HeldInv` says who
  holds a connection its poller knows (the map, or a `connectDestroyed` on its own
  loop, or its loop is gone), and who will report one that is out of the map and
  still up (a `connectDestroyed` its loop is sure to run, unless it is in `late`).
  `StateInv` ties `state_`, channel and loop, `PhaseInv` and `ServerInv` the loops'
  phases to the destructor's progress: a worker quits only when the map is empty.
  `ActiveAreLive`: an active connection is up, so its poller knows it, so it is
  held, and its loop has not ended. `AllReportedAtEnd`: a joined worker has an
  empty batch. `ServerKeepsLives`: every step is, for each connection, a step of
  `ConnectionLives` or none; only the end of a batch and the destructor let go.
  Assumed: `setThreadNum` gets a number up to `MaxThreads`, and there are finitely
  many descriptors.

Only model-checked: liveness, under the fairness of section 5 (TLAPS proves
none of it here). Every other property of a passing run is proved, those of
`Connection` named above under `NoWorkerShutdown`, under which their run has them.

## 7. Not modelled

* `Logger`: the `LOG_` macros set one shared level and print it; a line may carry
  the level of another thread's call. No component depends on it.
* `TcpServer`: a `ConnectionPtr` that user code keeps (workers of the example do;
  `Connection` has them), `shutdown()`, the thread-init callback, and the
  overflow of `nextConnId_`. `getAllloops` and `disableReading` have no caller.
* `TcpServer::start()` called once the base loop runs, from a callback or another
  thread; `main.cpp` calls it before `loop()`, as `Start` does.
* `Connection` locks `tie_` in the step of `epoll_wait`, the code at the start of
  `handleEvent`. Between the two the last `ConnectionPtr` of a channel that is still registered
  can only go after an end in a `shutdown()` (`EndedInShutdown`) or the race of
  `ConnectionWriteAfterDown`; `TcpServer` keeps the two apart and proves
  `ActiveIsLive` for the connections it has.
* Destruction of the base loop, and of a server whose base loop still runs.
* Socket options, `bind` and `listen` failures, which end the process; peers that
  give up before they are accepted.
* `Asynclogging::open` and its singleton. `AsyncLog`'s text, its levels but for
  the choice they leave, and its singleton at the end of the process, which
  nobody destroys: what is queued then is lost.
* `ChatServer` destroys its worker pool before its server: `WorkThreadPool`
  assumes that nobody adds a task to a pool that is gone.
* Conversions: `InetAddress`, `Timestamp`, `CurrentThread`.
* Timestamps passed to callbacks, and the text of log lines.

## 8. Plan

Done in this order: `EventLoop` (everything else rests on its promise),
`WorkThreadPool`, `Connection` with `Channel`, `EventLoopThread`,
`Asynclogging`, `Buffer`, with proofs after each but `Connection`; then
`TcpServer` with several loops and connections, and `AsyncLog` with its proofs;
then the proofs about `Connection` and `TcpServer`, and of the order of `Asynclogging`'s
file.

Next:

1. Proof that `Connection`'s `output` may be replaced by a `Buffer`.
2. The end of `ChatServer`: the pool destroyed while io threads add tasks.
