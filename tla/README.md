# LearnMuduo in TLA+

TLA+ models of LearnMuduo, a C++ rewrite of the muduo network library: model-checked with TLC
on small instances, and proved with TLAPS for every value of the constants where that is possible.

Contents: [1 The system](#1-the-system), [2 Inventory](#2-inventory),
[3 Modules and correspondence](#3-modules-and-how-they-correspond-to-the-code),
[4 Runs](#4-runs-bounds-and-what-they-show), [5 Fairness](#5-fairness), [6 Proofs](#6-proofs),
[7 What the code does against its own words](#7-what-the-code-does-against-its-own-words),
[8 Not modelled](#8-not-modelled), [9 Plan](#9-plan).

## 1 The system

`base/` holds threads and synchronisation: `Thread` (a pthread with a latch that start() waits on),
`CountdownLatch`, `ThreadPool` (workers over a queue of limited size), blocking queues, logging, dates.
`net/` holds the reactor: an `EventLoop` per thread calls `Poller::poll` (a `PollPoller` or an
`EpollPoller`), lets each active `Channel` call its handler, and then runs the tasks other threads
queued. `EventLoopThread` runs a loop in a thread of its own and hands out a pointer to it;
`EventLoopThreadPool` deals out several. `TimerQueue` is a channel on a timerfd.
`Acceptor`, `TcpServer` and `TcpConnection` are channels on sockets; `Buffer` holds their bytes and the
protobuf codec of `applications/` frames messages in it. Every part writes its log through `Logger`, whose lines carry
the local time of a `TimeZone`.

The interactions that matter:

- *Calls from other threads* enter a loop by `postTask_mt`/`queueTask` (push under `m_mtx`, then write the
  eventfd) and `quit_mt` (set `m_quit`, then write the eventfd). Push and write are two steps.
- *Callbacks*: `Poller` returns channels, the loop calls their handlers, and a handler may call back into
  its own loop (queue a task, quit, change or remove channels).
- *Shared state without a lock*: `m_quit` and `m_looping` of `EventLoop`, `m_loop` of `EventLoopThread`,
  `m_running` of `ThreadPool`, the `Thread` object read by the thread that runs in it.
- *Condition variables*: `ThreadPool` (`m_notEmpty`, `m_notFull`), `EventLoopThread` (`m_cond`),
  `CountdownLatch`, the queues.
- *Asserts are compiled in*: CMakeLists.txt never defines NDEBUG. A failed assert, `LOG_FATAL` and
  `LOG_SYSFATAL` end the process; the models have a state for that ("aborted", `alive = FALSE`).

### The net/ code cannot get past a constructor, and what the models do about it

As written, no `EventLoop` can be constructed. `isInLoopThread()` (net/eventLoop.h:55) returns
`m_threadId != ThreadUtils::getTid()`, so `assertInCurrentThread()` is fatal precisely on the owning
thread, and the constructor itself calls it through `TimerQueue`'s `enableRead()`. Behind that,
`m_poller` (net/eventLoop.h:72) is never assigned, so `updateChannel()` calls through a null pointer.
`EventLoop` has a constant `Faults`. `Faults = {"ownerTest", "nullPoller"}` is the code to the letter, which
stops in the constructor. With a fault left out, the one expression concerned has
the meaning its name and its callers give it, and everything else stays as it is; the runs and
`EventLoopThread` use `Faults = {}`. Without this the rest of net/ would have no behaviours to
check. The theorems about `EventLoop` hold for every value of `Faults`; those about `EventLoopThread` have `Faults = {}` as a hypothesis.

`TcpConnection` has the same constant with the member "readv": `SocketUtils::readv` (net/socketUtils.cpp:20) is
a stub that answers 0, so every connection sees an end of file at its first readable event. Its run uses `Faults = {}`; its theorems hold for both.
The same device serves wherever a line keeps a whole component from working:

| Module | Members of `Faults`, and the line that is as written with it |
|---|---|
| EventLoop | "ownerTest" (net/eventLoop.h:55), "nullPoller" (net/eventLoop.cpp:91, net/eventLoop.h:72) |
| TcpConnection | "readv" (net/socketUtils.cpp:20) |
| TimerQueue | "timerRef": the task captures a local pointer by reference (net/timerQueue.cpp:38); "settime": `timerfd_settime` gets a zeroed value (net/timerQueue.cpp:78-81) |
| TcpServer | "listeningFd": the callback is given the listening socket (net/acceptor.cpp:48); "noCloseCallback": nobody installs `removeConnection` (net/tcpServer.cpp:80-82); "connRef": tasks capture the pointer by reference (net/tcpServer.cpp:38, 87, 100). The other way about, "threadCheck": connectionEstablished insists on its connection's thread, as net/tcpConnection.cpp:104 means it, where the inverted test of net/eventLoop.h:55 lets the base thread pass |
| Codec | "noLength": the length is computed and dropped (protobufCodec.cpp:131); "datavalue": a field of an empty repeated field is set (server.cpp:59) |

The run timer_never_armed has "settime" present and finds the promise of net/timerQueue.h:33 broken; the passing run of TimerQueue has "timerRef" present and leaves "settime" out, so that handleRead is checked. The run of Codec is as written.
What the written lines lead to is also proved: `NoTimerFires`, `ServerIsConsistent` and `ServerKeepsPromise` (any `Faults`), `RepliesLackLength`.

## 2 Inventory

| Component | State | Operations | What is hard | What makes it correct |
|---|---|---|---|---|
| EventLoop | `m_quit`, `m_looping`, `m_executingAsyncTask`, `m_asyncTaskList`, the eventfd, active channels | `loop`, `postTask_mt`, `queueTask`, `quit_mt`, `executeAsyncTasks` | push and wakeup are two steps; tasks queue tasks; quit at any time, even before `loop()` | tasks run once and in order; nothing queued is slept over; a quit is seen |
| EventLoopThread | `m_loop`, `m_thread`, `m_cond` | `startLoop`, `ThreadFunc`, destructor | `m_loop` is read and written outside the lock; the loop lives on the thread's stack | `m_loop` is never set without a loop; startLoop returns; the destructor joins |
| EventLoopThreadPool | `m_loops`, `m_next` | `start`, `getNextLoop`, `getLoopForHash`, `getAllLoops` | index at the end of the list, empty pool | connections are dealt to its loops in turn |
| Poller, Channel | `m_channelMap`; `m_events`, `m_revents`, `m_index` | `updateChannel`, `removeChannel`, `poll`, `handleEvents` | `m_index` means something else in each poller; removal while events are handled | poll reports only known channels that asked |
| PollPoller | `m_pollFdList` | the same | silent slots hold `-fd-1`; removal moves the last slot | slots and indices stay in bijection; interested fds are polled |
| EpollPoller | `m_index` as new/added/deleted, the kernel's list, the event buffer | the same | three copies of one fact; the buffer fills | kernel and map agree; no `epoll_ctl` is fatal |
| TimerQueue, Timer | two sets of timers, `m_cancelingTimers` | `addTimer_mt`, `cancelTimer`, `handleRead`, `reset` | cancel during the callbacks; addresses used again; the timerfd is armed for the earliest timer | both sets agree; a cancelled timer is not restarted; the earliest is armed (it is not: §7) |
| TcpConnection | `m_state`, the two buffers, its channel, the references to it | send, shutdown, forceClose, startRead, stopRead, the handlers, connectionEstablished, connectionDestroyed | cross-thread calls carry a bare `this`; closing while writing; close reached from peer, timer, user and holder | users are told of the end once; units leave in order and drain; no assert fails; the object dies last |
| Acceptor, TcpServer | the spare fd; the connection map | `listen`, `handleRead`, `newConnection`, `removeConnection` | running out of fds; removal hops between two loops; fds are given out again | a removed connection is destroyed once, on its loop, before its fd is closed; the backlog moves |
| Buffer | reader and writer index | `append`, `retrieve`, `ensureSpace`, `readFromFd` | growing or moving; filling exactly | a queue of bytes |
| Codec | position in the buffer | `onMessage`, `parse`, `fillEmptyBuffer` | partial, joined and wrong frames | the messages before the first wrong frame, once and in order; a packet of the format parses (what is sent lacks its length: §7) |
| Thread, CountdownLatch | `m_started`, `m_joined`, `m_tid`; the count | start, join, run; wait, countDown | the object may be destroyed while its thread still reads it | start knows the tid, and no Thread goes before; a joined one outlives its thread; join returns |
| ThreadPool | `m_running`, `m_taskQueue`, two condition variables | start, stop, run, `runInThread`, take | notify_one to a thread that is overtaken; stop against sleepers; nested run | bounded, in order, no lost notification, stop returns |
| Blocking queues | a deque, a condition variable | put, take, add, consume, clear | one condition variable for both ends, notification after the lock, spurious wakeups | each item once, no lost wakeup |
| Dates, time zones, conversions | the transitions read from a file | pure functions | boundaries, the repeated hour, unreadable files | agree with the calendar and the number |
| Logging | level, zone, the cached time string of each thread, a fixed buffer | Logger, `<<`, ~Logger, setLogLevel, setTimeZone | the cache against a new zone; pieces that do not fit | a line tells when and by which thread it was made, and its level |

PROJECT.json lists the same components with their files and status, and under "hazards" each place where
the code is hard to test, with the property that would notice it going wrong.

## 3 Modules and how they correspond to the code

A critical section under a mutex is one action. A method that does two visible things without a lock
around both is two actions, and the thread is between them in a location of its own
(`held[t]`, `ownerPc`, `pc[t]`). Names of variables and operators are those of the source.

**EventLoop.** `pc` is the loop thread's position in `loop()`; `held[t]` says which half of which
call another thread has finished. `PostTask` is the locked push of `queueTask`, `FinishQueue` its test and
its write; `QuitMt` and `FinishQuit` are the halves of `quit_mt`. `asyncTaskFd` counts: the eventfd is
created with `EFD_SEMAPHORE`, so a read takes one unit. `HandleIo` stands for any client channel: what its callback calls
are `QueueTaskInLoop` and `QuitInLoop` steps while it is active, and likewise inside tasks and the init
callback. Each task is queued once, so that order can be stated; `posted`, `executed` and `polled` are
history variables and no guard reads them, except that `pushTask` uses `posted` to keep a task from being queued twice.
An object's `loop()` is run at most once, and it is destroyed only after `loop()` has returned. Other threads may hold the pointer longer: a call they
begin or finish on a destroyed loop happens, and `misused` remembers who made it. `~EventLoop` closes no descriptor, so what such a call writes still arrives; what else it does to the dead memory is left out.

**EventLoopThread** extends `EventLoop` (there is one loop, and its variables are those of the module), whose actions become steps of its own, and adds `m_loop`
and the positions of owner and thread. `StartThread`, `ClearLoop`, `CheckLoop`, `ReturnLoop` are `startLoop`;
`ConstructLoop`, `Publish`, `RunLoop`, `Unpublish`, `ExitThread` are `ThreadFunc`; `BeginDestroy`, `ReadLoop`,
`QuitLoop`, `WakeLoop`, `Join` are the destructor, which reads `m_loop` twice: a null at the second read ends the process (`ownerPc = "crashed"`). `clientQuit` remembers whether anybody but the destructor
has quit the loop: several promises hold only if not. Threads that were given the pointer may use it
as long as the owner does.

**ThreadPool.** A thread's location `pc[t]` covers `runInThread`, `take` and `run`; sleeping on a condition
variable is the location "waitEmpty" or "waitFull", `notify_one` moves one sleeper, and `SpuriousWakeup`
moves any. `TestRunning` reads `m_running` without the lock, as the code does. A task in `Spawning` calls
`run()` from the worker. The pool is started and stopped once, and nobody calls `run()` while `start()`
is still filling `m_threads` (which would be a data race on the vector). Exceptions thrown by tasks end the process and are left out.

**Poller** is the abstract specification of both pollers: a map of known channels, what each asks for, and
`poll` that reports some of those that asked, or were silenced once more although they were silent (`watched`). **Channel** is what both implementations share: the channels' interest and index, the map, what poll answered, the events
clients may ask for. **PollPoller** and **EpollPoller** extend it, each with its refinement mapping (`ImplementsPoller`, `EpollImplementsPoller`: instances of `Poller`), its meaning of an
index and its array or kernel list (external: how `epoll_ctl` answers). Operators of the same name carry the prefix Epoll in the second (`EpollSpec`), so that one module can hold the proofs of both. A channel is named by its descriptor. The
constant `Clients` says which habits clients have: a first operation that asks for nothing ("silentFirst"), silencing
a silent channel ("redundant"), asking again after having gone silent ("resume"). A failed assert ends the process: in `PollPoller` the whole
state is then frozen, so that what the process had promised until then stays comparable with `Poller`. A removed `Channel` keeps its index in `PollPoller`, and only the next
`Channel` on the descriptor starts with -1 (`NewChannel`); a call on the old one fails an assert.

**TcpConnection** models one connection with its `Channel`. `m_events`, `registered` and `watched` stand for the channel, the poller that knows it and whether
it is in the list the poller waits on; the constant `Poller` says which poller the loop has. `setEvents` is every change of interest, and `canUpdate` its condition: `PollPoller` refuses a channel that is
silent or was removed (`aborted = "update"`), `EpollPoller` takes a silent channel in again, for no event if it is silenced twice, and then reports hangups to it, so `PollReturns` asks for `watched` only.
`m_sendBuf` and `wire` are sequences of units, a message is two units with fresh numbers, and `accepted` (history) collects what
`sendInLoop` did not give up. `shut` is the write side of the socket. The loop is reduced to its queue of
tasks (`tasks`, first in first out, as `EventLoop` shows it to be) and to the callbacks of one `handleEvents` that are still to come
(`calls`). A call from another thread is two steps, `CallBegins` (the test of `m_state`) and `CallPosts` (`setState` and posting, which
nothing orders with the loop thread); on the loop thread it is one step, `LoopCall`, or a part of `HandleRead` when the message callback makes it.
"send" is the overload with a `Buffer`, whose task tests again; "sendRef" is any overload whose task captures its parameter by reference:
what it finds there is the message or `junk`. `refs` holds the `shared_ptr`s: the holder's ("owner"), each user's, and the lock on the tie during
`handleEvents` ("dispatch"). A queued connectionDestroyed holds one more; other tasks and timers hold none, and a task or timer that runs with `~Alive`
is a use of a dead object (`aborted = "freed"`). The holder is external: it lets go once, when its close callback runs or for reasons of its own
(`HolderDrops`, not before it was established: tcpServer.cpp:83 does that at once), and queues connectionDestroyed. (`TcpServer` is such a holder; as written it installs no close callback, and a connection of its would stop the process at line 95.)
`aborted` names what stopped the process. `notes` is what the connection callback was told.

Calls that users make inside the connection callback or the write-complete callback are made by the model right after the handler; both callbacks are the last
thing their handlers do, save one test in handleWrite. A user's high-water-mark callback is never installed in the repository, so crossing the mark calls an
empty `std::function` (`aborted = "highWaterMark"`).

**Connection** is the abstract specification of a connection's life between its holder and its loop: made and held, established, closed, let go, destroyed. `TcpConnection` implements
it (`ImplementsConnection`): its holder sees the state through what the connection callback was told and whether connectionDestroyed is done. `TcpServer` implements it once per connection: there the
state is the server's copy and the holder is the map. The same module on both sides joins the two: what `TcpConnection` assumes of its external holder is no more than what `TcpServer` does, and what `TcpServer` keeps of a connection's
states is what `TcpConnection` makes of the calls. `LoopEnds` is the server's alone, when the loops of the pool end with tasks still queued: a connection that had closed goes quietly, one that had not fails the assert of its destructor (tcpConnection.cpp:42).

**TimerQueue** names a `Timer` by its address, and an address is free again once its Timer was deleted, so that a `TimerId` (address and sequence)
may be stale. `heap` is what lies at each address, `m_timerList` a set of pairs (expiration, address), `m_timerIdList` and
`m_cancelingTimers` sets of pairs (address, sequence). `AddTimer` is `addTimer_mt` on the loop thread, where `postTask_mt` runs the task at once; `AddTimerMt` and `RunTask` are
its halves on another. The task finds its own `Timer`, or, as line 38 captures a local by reference, that of any call (`finds`; `aliased` remembers that it did), or no pointer ("junkTimer"). `handleRead` is `BeginHandleRead` (with `getExpired`), a `RunCallback` per timer, and `EndHandleRead` (`reset`); between them
the callbacks add and cancel. `PollReturns` fixes the `timestamp` handleRead will be called with; other callbacks of the same poll may come first. Nothing
in the repository calls `cancelInLoop` (`cancelTimer` is empty): it is an action of any code on the loop thread, as its assert requires.
A failed assert ends the process: "expiresNow" is that of line 113, "assert" any other.

**TcpServer** composes `Acceptor`, `EventLoopThreadPool`, the connection map, the pollers' descriptors and the loops, of which it keeps the queue of tasks (in order,
as `EventLoop` has it) and of a connection the states the server can tell apart. Descriptors are numbers, and the lowest free one is given
out, as the kernel does: a descriptor that was closed before its channel left the poller would be found there by the next connection. `newConnection` deals the connection to a loop and calls connectionEstablished at once, on the base loop's thread
whatever that loop is. `handleRead` is one action when accept
succeeds or fails for good; when descriptors are exhausted it is `HandleReadEmfile`, `ShedOne`, `ReopenSpare`, because other threads open descriptors in between (`OtherOpens`).
What the base loop's thread does (`baseIsFree`) excludes itself: its tasks and the closes of its own connections wait while it accepts or destructs.
The end of the server is `BeginDestruct`, a `DestroyConnection` per connection, `EndDestruct`, and the pool's loops end after it (`LoopEnds`), dropping what they had queued. `EndDestruct` aborts for a server that was never started on a PollPoller, whose remove finds a channel it has under descriptor -1.

**Buffer** gives each operation of the class as an operator on a record of vector and indices, with the condition under which its asserts hold as a second one; **ByteQueue** is the abstract
specification of a queue of bytes. **Codec** (run as written: line 131 drops the length, and server.cpp:59 may end the process or go unnoticed) is `ProtobufCodec::onMessage` over a Buffer, one turn of its loop a step, with `parse`, `send`, `fillEmptyBuffer`, the dispatcher and the server
behind it. A peer sends right and wrong frames and the socket delivers their bytes in pieces of any size. An `int32_t`, a character and a type's name are one
unit each; `adler32` and the descriptor pool are external.

**Thread** models `Thread` with its latch, and `ConsumerProducerQueue` and `BlockingQueue` as what the threads' functions use: adders, movers from one queue to the
other, and takers. `Start`/`Started`, `Join`/`Joined` are the two ends of the owner's calls; `RunTid`, `Run` are `Thread::run`. The notification of
`ConsumerProducerQueue` comes after the lock and is a step of its own; that of `BlockingQueue` is inside it. `Wakes` is a wakeup, with or without a notification.
The owner makes, starts, joins and destroys Threads in any order, and may destroy one that it started and did not join, as test/threadTest.cpp:25-29 does: the thread runs on, and what it reads in the
Thread that is gone may end the process (`ReadsDead`) or not.

**Date**, **TimeZone** and **Convert** are pure operators, each with a reference definition next to it (counting leap years and days, the last transition not after an
instant, the value of a text of digits). **Logging** extends them: `Statement` is the constructor of `Logger` up to the first item, `Stream` one `<<`, `Destroy` the
destructor. A piece of text is its kind and its length; `append` drops what does not fit, and a stream also records where each piece starts. `writer`, `made` and `zones` of a Logger are history: its
thread, its moment, and the zones in force within that second. Any set of threads may write (`Writers`), each with its own id, cached second and string (empty at first); time passes between any two items of a line.

## 4 Runs, bounds and what they show

| Run | Instance | What it shows |
|---|---|---|
| loop_thread | loop thread, owner, 1 client, 3 tasks, `MaxEvents` 2 | neither a queued task nor a quit request is slept over; order, at most once, nothing lost; with fairness: queued tasks run, quit stops the loop; the member `m_loop` is never set without a live loop, the destructor outlives the thread if it alone quits; startLoop wakes, join returns |
| loop_thread_start | 1 task | *violation*: startLoop may wait for ever |
| thread_pool | 2 workers, 3 callers, 4 tasks (one calls run()), limit 2 | bound and no lost notification on either condition variable, order; with fairness: stop returns, accepted tasks are taken |
| poll_poller | 3 descriptors, any habit | slots and indices in bijection; implements `Poller` |
| epoll_poller | 3 descriptors, any habit, buffer of 1 | kernel and map agree, nothing aborts; implements `Poller` |
| tcp_connection | loop thread, 1 other thread, 3 calls, mark at 4 units | the stream is intact, waiting data is watched and drains, one UP and one DOWN unless users meddled with reading, each way of stopping has the calls to blame that it should, no dangling task, a closed connection is freed (all on `EpollPoller`); implements `Connection` |
| timer_queue | 2 addresses, 3 timers, clock and requests up to 4 | the two lists agree; no assert but that of line 113 fails before a task has found another Timer than its own; a cancelled timer is gone |
| timer_never_armed | the same, as written | *violation*: the timerfd is not armed for the first timer |
| tcp_server | base loop and up to 2 more, 2 connections, 4 descriptors | map, tasks, pollers and descriptors agree; each connection implements `Connection`; with fairness: a closed connection is destroyed, the backlog moves even without descriptors |
| codec | buffer of 10 units, 3 packets and 6 wrong frames, 2 of them sent | exactly the messages before the first wrong frame; the Buffer implements `ByteQueue` |
| logging | 4 instants, 2 zones, 2 threads, 2 lines of at most 1 item, 1 setting, buffer of 110 bytes; 10 years, 10 seconds, 34 numbers | lines tell their time, their own thread and their level; calendar, zones and numbers convert to what they mean |
| threads | 2 adders (2 items and 1), 1 mover and 1 taker (2 each), bounded queue of 1, 1 clear() | start() waits for the tid; a joined Thread outlives its thread; no lost wakeup; each item once; with fairness: join returns |

Each module's type invariant is a part of one of the checked invariants, or, in EventLoop, EventLoopThread, ThreadPool, the pollers, TcpConnection and Thread, proved (§6).

Why these bounds are enough to be interesting: `EventLoop` is checked in its thread, where the owner and a client post to it: two other threads are needed for one of them to overtake the other between
push and write, three tasks for one to be in the local list, one in the shared list and one still to come.
`MaxEvents` bounds only how often quit is called while the eventfd is not drained: `quit_mt` may start only below
it. Two workers and three callers let a notified thread be overtaken; the limit is reached, and a
waiter is woken without finding room. Three descriptors let the removed slot, the moved slot and a bystander differ; in
epoll_poller the buffer of one event fills, grows to two and to four.
Three calls on a connection (`MaxCalls`) let a message wait in the buffer while a second call ends the connection and a third is still
queued; a message of two units can be written in part; the mark of four units lets two messages wait and a third not. Partial writes, errors
and the peer's disappearance are not bounded. The run has an `EpollPoller`, which lets more happen; `PollPoller`, its refusals included, is covered by the theorems, which hold for both. `Patient = TRUE` makes users keep their reference until their tasks and timers have run; the code needs it (§7).

Three timers at two addresses: an address is freed by a cancel and used again while the stale TimerId is still held, and a batch of two expires while a third waits. Four descriptors, of which the
acceptor has two: two connections fill the process, and so does one connection with a descriptor of another thread. With two loops and two connections the turn goes round once, and the part of `Consistent` that
counts turns is exercised for one and two loops; for more the theorem speaks. Ten units of buffer: two frames do not fit at its end, fit after moving, or make it grow, depending on how they are cut. A buffer
of 110 bytes takes the heading and a number but not the long text with the end of the line; ten microseconds make a second (`kMicroSecondsPerSecond`), so that instants stay in range of TLC's integers. `MaxSettings`, `MaxLines`, `MaxItems`, `MaxFrames`, `MaxTimers`,
`MaxTime`, `MaxConns`, `MaxThreads`, `MaxClears` and `Share` bound how much is done. No other bound is used. The run threads does not go on from states in which the
process has ended (`Runs`): no step is possible there.

Deadlock checking is off where the system stops by design (the loop has returned, the process has aborted, the pool has stopped, the work is done); it is on for epoll_poller, which never stops.

## 5 Fairness

Every thread that can take a step eventually does, once it is inside a call; nobody is obliged to begin one. In particular:

- the loop thread is *not* promised that `poll()` times out: `ThreadProgress` makes it leave poll only when the
  eventfd is readable. The timeout of 1000 ms in the code would hide a lost wakeup, and a task that waits for it is what the mechanism exists to avoid;
- spurious wakeups happen but no liveness property depends on them: `SpuriousWakeup` and `Wakes` have no fairness;
- client callbacks and tasks return. A task that never ends stops its thread, in the code as well;
- clients are not obliged to call `run()`, `postTask_mt`, `quit_mt` or `stop()`.

Weak fairness suffices for the threads of these modules because a thread's steps stay enabled until it takes them: critical sections are
atomic in the model, so no thread is kept out of a mutex for ever.

In TcpConnection the loop thread alternates between polls and tasks, so a task is not enabled all the time: `RunTask` has strong fairness, which is what `EventLoop`'s
`QueuedTaskRuns` provides. `PollWritable` and `WriteSome` have it because poll is level triggered and the peer goes on reading: a socket that is asked about room again
and again has some. A peer that never reads is outside `BufferDrains`. Users finish calls they have begun and drop their references in the end; nothing makes
the holder, the peer or a timer act, so `ClosedIsFreed` speaks of connections that went down and have no timer armed. In TcpServer `RunTask` of each loop has strong fairness for the same reason, and
`HandleRead` weak fairness: poll is level triggered, and a listening socket with a backlog stays readable. `BacklogMoves` excludes that another thread opens a descriptor at the very moment the spare one is given up (`stolen`).

## 6 Proofs

All theorems are for every value of the constants under the ASSUME of their module: any finite or infinite set of threads, tasks
and descriptors for the loop and for PollPoller, finite sets where the code counts them (ThreadPool, EpollPoller). Most are `Spec => []Inv`, by an inductive invariant
shown in three facts: initial, preserved by every action, and implying the property.

- **EventLoopProofs.** `TypeCorrect`, `NoTaskStranded`, `QuitIsSeen`, together `LoopNeverSleepsOver`, and `TasksInOrder`. `NoStrandedTask` only speaks of `poll`; it is inductive once it is
  claimed from the swap of the task list on (`WakePending`): between swap and poll, a task that arrives must already have
  its wakeup under way, whether from another thread (its call is half done) or from a task (`m_executingAsyncTask` is set,
  `LoopShape`). `FaultsAbort` disposes of the inverted owner test: nothing gets past the constructor with it.
  For the loop in its thread the module has `PublishedLoopLives`, `NoNotifyMissed` and `ThreadIsOutlived` (together `LifetimesStayNested`), from an invariant that ties the position of `ThreadFunc` to the
  loop's life (`Lifetime`), says that a loop returns only after somebody quit it (`QuitFirst`), and that, if only the destructor quits, nobody
  has before the destructor did (`SoleOwner`). `LoopIsEventLoop` proves that the composition implements `EventLoop`; `LoopStaysSafe` and `ThreadTypeCorrect` carry the loop's theorems over by it.
- **BaseProofs.** Of the pool: `QueueIsBounded`, `WorkersAreNotified`, `CallersAreNotified`, together `NobodyOversleeps`, `OrderIsKept`, `StopLeavesTheRest`. The notification invariants count threads: while anyone sleeps on a condition variable, there are at least as many
  threads on their way as there are tasks to take (or places to fill). They are inductive as they stand given the types; the proof counts who arrives at and leaves each location.
  Of the log: `LinesToldWhen`, for any threads, zones, levels, items and instants. `LinesTellWhen` speaks of finished lines only; the invariant (`LogInv`) follows a line while it is written. A string that a thread
  keeps from the second that is running shows a zone that was in force within it (`Kept`; `recentZones` is the history of these), the thread's id is its own, and the first four pieces of a stream stay what they are through every later append, whether that fits or not (`Headed`, `Continues`).
  The heading itself is never dropped: `HeadingFits` (kSmallBuffer is 4000) and `NumbersFit` (the static_asserts of logStream.cc) say why. `LocaltimeIsInEffect` shows that findLocaltime's search by halves finds the last transition
  not after an instant, in any zone whose transitions ascend, as lower_bound needs.
  Of the dates: `DatesAreTheCalendars` says, for every year from -4799 on, the first for which the shifted year is not negative, that getJulianDayNumber numbers each day as counting leap years and days does, and getYearMonthDay undoes it; `UtcTimesReturn` that fromUtcTime undoes toUtcTime
  from the first second of that calendar on. Divisions are taken one at a time (`CenturiesComeOff`, `DateByParts`), the twelve months are unfolded (`MonthsAddUp`), and the leap years, a recursive count in the reference,
  are compared from the first year at which the two might differ (`LeapsAreCounted`, by `LeastMember`).
- **PollerProofs.** PollPoller: `SlotsAgree` and `Refinement` for every habit of clients; `InterestedArePolled` for clients whose first operation asks for something. Its
  stronger invariant says that every slot holds exactly `c` or `-c-1` (`-1`, the third value of `SlotsInBijection`, only comes from a silent first operation).
  EpollPoller: `KernelAgrees`, `NothingAborts` and `EpollRefinement` for every habit: the silent channels in the kernel's list are those that were silenced twice.
- **TcpConnectionProofs.** The handlers are made of parts (`handleClose`, `sendInLoop`, ...) that take the rest of the queue as a parameter, so each part has one lemma per invariant and the actions combine them.
  `StreamStaysIntact` strengthens `StreamIntact` by `NoRef`: while no user has called an overload that captures by reference, no such task is queued or being posted. `WriteSideIsMinded` proves both halves of `WriteSideMinded` together:
  a send on a shut socket with an empty buffer gets nothing written and aborts, which needs both; `Fresh` says that before connectionEstablished nobody else has the connection, so nothing can have happened to it.
  `ToldUpAndDownOnce`, `NobodyElseAborts` and `FreedAreForgotten` come from one invariant, `LifeInv`: what is queued or being posted was called and its caller still holds the connection (`Carried`); without shutdown and forceClose
  the state stays among those handleClose knows (`Clean`); the poller waits on the channel exactly when it has interest (`Attended`), and after DOWN it has none and at most a write callback is left (`Told`); once neither holder nor queue has the connection, a closed one is unknown to the poller (`Gone`). These three
  are claimed unless the channel was `stirred` (startRead or stopRead with `EpollPoller`). Who is to blame for a refusal of `PollPoller` takes two more: a connection reads as long as nobody called startRead or stopRead (`Reading`), and only startRead revives a closed one (`Cleared`);
  and the destructor finds it closed (`Past`). The proof sorts every step that does not abort into three kinds, `Stays`, `Closes` and `Ends` (`EveryStep`), and shows the invariant of the kinds (`StepsKeepLife`) and of the aborts (`AbortStep`) apart; `Treats` is what a step that does not close does to the channel, and each handler has a lemma on whom its aborts blame (`CloseBlamed`, `SendBlamed`, `ReadingBlamed`, `DestroyedBlamed`).
  `LivesAsPromised` is the refinement of `Connection`. Its heart is `Hears`: of any step of an established connection the holder hears nothing or one DOWN, it lets go but once, and nobody else queues connectionDestroyed. With `LifeInv`, which knows that a
  connection that was told DOWN is not told again, `Hears` is a step of `Connection` or none (`HearsLives`); before it is established nothing but the establishing concerns it (`FirstLives`).
- **TimerQueueProofs.** `ListsStayConsistent` and `CancelledStaysGone` come from one invariant: the types, the agreement of the lists, that an assert fails only after a task has found another Timer than its own, the shape of a batch (`BatchShape`: outside handleRead there is none, and
  its members are not in the lists), that sequence numbers were given out once (`NumbersGiven`, without which an address used again could revive a stale TimerId), and `CancelledIsGone` itself. `NoTimerFires` is about line 81 as written: the timerfd is never armed and handleRead never runs.
  `EarliestStaysArmed` shows that this line is all that is wrong with the arming (`"settime" \notin Faults`): the timerfd watches the earliest timer. It adds `Watched`, which extends the claim over the batch, and needs the least element of a set of
  entries, which `LeastMember` gets from well-founded induction, as the sets are not known to be finite.
- **TcpServerProofs.** `ServerIsConsistent`: `Consistent`, for any number of loops, connections and descriptors, either poller and any of `Faults`, the code as written included. `OneTaskEach` is not inductive: the invariant (`Lives`) adds that removals wait in the
  base loop alone and that a connection of a living server is in the map until it closed (`Mapped`). `OneOwnerPerFd` becomes `Descriptors`: a poller knows descriptors of established connections only (`Watched`), so an accepted descriptor just given out is new to it,
  and only the listening one can be known; and while the spare descriptor is given up, either its place is free or somebody else took it (`Spare`). `DealtInTurn` becomes `Pool`: all loops have had the same number of turns, once the one under way is not counted (`turns`).
  Tasks are counted by the lemmas `CountAppend` and `CountTail`; a step about one connection leaves the books of the others alone (`LivesStep`), and the parts that do not see a step are carried over by `PoolFrame`, `PhasesFrame` and `DescriptorsFrame`.
  `ServerKeepsPromise` is the refinement of `Connection` by each connection of the server, from the same invariant: that the map has no connection with a destruction queued is what makes each task a step of `Connection` (`KeptMoves` for the connection a step is about,
  `KeptStill` for the others).
- **ThreadProofs.** `ObjectsOutlive`, whether owners join or detach (what an un-joined Thread leaves behind is `ReadsDead`); `NoWakeupLost` and `ItemsOnce` for any set of threads, size of queue and shares.
  `Life` says where a thread may be, given the latch, the tid and whom the owner awaits, and `InHand` who may be between unlock and notify; both go with the types (`Lives`). `Awaited` is what makes `NoLostWakeup` inductive: while anybody
  sleeps without a reason, a notification is on its way. The items are numbered downwards as they are added (`Numbered`), so a new one is new; they are in one place each (`Placed`), none is lost but by clear() (`Kept`), and
  the numbers of an adder fall from what was taken back to what is queued (`InOrder`), if there is one mover.
- **CodecProofs.** `AppendAppends`, `RetrieveTakes`, `ReadFromFdAppends` say what the Buffer's operations do to its contents, through moving and growing; `WhenAppendAsserts` and `WhenReadAsserts`
  say exactly when the process survives them. `BufferImplementsQueue` is the refinement of `ByteQueue` by the codec's input Buffer, for every set of frames.
  `PacketParses`: a packet of the documented format, of any payload, is one for parse. `RepliesLackLength`: as written no answer is such a packet, for its length is missing, and that is all.
  `HandlesAsSent`: whatever the pieces in which the bytes come, the messages handed on are those of the frames before the first wrong one. Its hypothesis `framesAreClear` says what the frames a peer sends are: packets of any payload that fits,
  or frames that a reader refuses by what stands in them; MCCodec assumes it of the run's frames, so that TLC evaluates it. The invariant splits what was sent, without recursion, into what was consumed, what waits and what is still to come
  (`Streamed`, `Cuts`), a frame boundary at a time.

Only model-checked: `ConversionsAgree` as a whole, and all liveness properties. Of the conversions, what they say of dates and of UTC is proved above; the digits of numbers are computed by recursion over the number, and the way back from a local time
depends on the hours that the zone's summer time repeats and skips; both stay with TLC, over the numbers, years and instants of the run. The liveness properties
(`QueuedTaskRuns`, `QuitStopsLoop`, `StartLoopWakes`, both `JoinReturns`, `StopReturns`, `AcceptedIsTaken`, `BufferDrains`, `ClosedIsFreed`, `ClosedIsDestroyed`, `BacklogMoves`), since fairness and ENABLED are beyond the prover.

## 7 What the code does against its own words

Some of these are runs; the others were met while modelling, and are in the models as written or behind `Faults`.

*The loop and its thread*

- `isInLoopThread()` (net/eventLoop.h:55) is the negation of its name, and `m_poller` is never assigned: no `EventLoop` can be constructed.
- A `quit_mt()` before `loop()` begins is lost (net/eventLoop.cpp:62).
- `startLoop()` clears `m_loop` after starting the thread that sets it, and may then wait for ever (loop_thread_start).
- The destructor of `EventLoopThread` calls `m_loop->quit_mt()`, whose write to the eventfd comes after `m_quit` is set; the thread may return from `loop()` and destroy the loop in between (net/eventLoopThread.cpp:38; the model notes it in `misused`). If somebody else quits the loop, the second read of `m_loop` there may also find null.

*Pollers*

- In `PollPoller`, a channel that goes silent and asks again fails the assert of line 53, against net/channel.h:26 (the process ends in `ImplementsPoller`). A channel whose first operation
  asks for nothing gets the descriptor -1: it is never polled later (line 55 restores no descriptor) and cannot be removed (assert of line 74). That
  habit is what the assumption `"silentFirst" \notin Clients` of `InterestedArePolled` excludes.
- In `EpollPoller`, silencing a silent channel adds it to the kernel again for no event (line 60); the kernel then reports hangups to it. `Poller` promises no more: a client that does this must expect to be called.

*TcpConnection*

- `handleClose()` asserts CONNECTED or DISCONNECTED; `forceClose()` and `shutdown_mt()` lead it to DISCONNECTING and CONNECTING (line 88).
  In fact a connection that was ever force-closed or shut down cannot be closed without stopping the process; `OnlyTheseCallsAbort` says which calls are to blame for which assert.
- `shutdown_mt()` sets CONNECTING where handleWrite (line 73) tests for DISCONNECTING, so a write side with data waiting is not shut once it has drained.
- `sendInLoop()` asserts that write(2) did not fail (line 218) after lines 210-215 have prepared for EWOULDBLOCK and EPIPE.
- Tasks posted by other threads, and timers, carry a bare `this`; with `Patient = FALSE` they find the connection freed.
- `stopRead()` silences a channel that waits for nothing else, and every later close silences it once more (lines 91, 117). With `PollPoller` that fails the assert of pollPoller.cpp:53. With `EpollPoller` it puts the channel into the kernel's list for no event (epollPoller.cpp:49-60),
  and the hangup that is reported then closes the connection again: DOWN is told twice. `ToldOnce` and `FreedIsForgotten` except these (`stirred`); on `PollPoller` nothing is excepted.
- `startRead()` after the close gives a closed channel interest again: DOWN twice or the assert of `Channel::remove` with `EpollPoller`, the assert of pollPoller.cpp:53 with `PollPoller`.
- A message that brings the buffer to the mark stops the process, and so does a first write that fails (`OnlyTheseCallsAbort` says that no other send does).
- `SocketUtils::readv` answers 0 without reading (net/socketUtils.cpp:20).

*Timers*

- A timer whose expiration is exactly the time `poll()` returned fails the assert of net/timerQueue.cpp:113: the sentry of `lower_bound` is the least, not the greatest, entry of that time.
- `resetTimerfd` passes zero to `timerfd_settime`, so no timer fires (run timer_never_armed, theorem `NoTimerFires`); the delay `howMuchTimeFromNow` computes is used by nobody.
- `addTimer_mt` captures its local pointer by reference (`RunTask` may then insert another Timer twice, which the assert of line 160 forbids); `cancelTimer` is empty; `~TimerQueue` leaks the timers of tasks still queued, and those tasks find no queue.

*Server*

- `Acceptor::handleRead` passes the listening descriptor, not the accepted one (net/acceptor.cpp:48), which leaks and whose number the poller already knows: the first connection dealt to the base loop stops the process (`aborted = "fdKnown"` with `Faults` as written; `ServerIsConsistent`).
- `newConnection` calls connectionEstablished on the base loop's thread whatever the loop of the connection (the test of eventLoop.h:55 is inverted, so the assert passes, and the poller of a running loop is changed from outside); it installs no close callback, so the first close calls an empty `std::function`.
- `removeConnection`, `removeConnectionInLoop` and the destructor capture the connection's pointer by reference in tasks that run later.
- `TcpServer::m_started` is never set: a second `start()` reaches the pool's assert.

*Buffer and codec*

- `Buffer::append` asserts that a byte stays free behind what it wrote: filling the vector exactly aborts, and growing leaves exactly none unless some were free at its end. A read that overflows the Buffer aborts
  unless moving makes room with a byte to spare (theorem `WhenReadAsserts`); "extraBuf" (net/buffer.cpp:19) is of use only then.
- `fillEmptyBuffer` drops the length it computes (theorem `RepliesLackLength`); `onQueryResults` sets a field of an empty repeated field (undefined). A wrong frame stays in the Buffer and is reported again with whatever comes after it.

*Threads, queues, pool*

- `ThreadPool::stop()` wakes workers, not callers of `run()` that wait for room; they sleep for ever. Nothing in the repository promises otherwise.
  A worker whose task is such a caller keeps `stop()` waiting, and when all workers are, accepted tasks stay in the queue: `StopReturns` and `AcceptedIsTaken` name exactly these exceptions. A second `stop()` fails the assert of `Thread::join`.
- `~Thread` detaches a thread that still reads the object's name and function; test/threadTest.cpp:27 destroys Threads it has not joined (`ReadsDead`). `++numCreated` and the `load()` behind it are two steps, so two Threads may get one default name.

*Log and time*

- A time zone set in the second that was last formatted serves from the next second on (base/logging.cc:110), and it is set without any lock while other threads read it.
- A piece that does not fit into the line is dropped whole, also the newline. LOG_WARN and above ignore the level.
- A zone file that cannot be read makes a valid zone without any local time, whose front is taken (base/timeZone.cc:217); only the summer hour of one hour is undone for the repeated hour (line 299).

## 8 Not modelled

Generated protobuf code, the demonstration programs, vendored `StringPiece`, addresses and byte order, thread-local caches of names, formatting of doubles, the values of texts. `BoundedBlockingQueue` and `ThreadLocalSingleton` are templates that do
not compile when instantiated, so they have no behaviour. Data races whose outcomes the build may choose freely are left out where the model says so: the vector of `ThreadPool` during `start()`, `g_logTimeZone` during `setTimeZone`.
What the models keep of `Channel` is spread over their users; a channel without a tie has no module of its own, because its state is its owner's.

## 9 Plan

Done: the loop and its thread, the pool, both pollers against an abstract one, connections, timers, the server, the buffer and the codec, threads and queues, the log with its times and numbers.

Left, in this order:

1. To prove: of `ConversionsAgree`, that a local time leads back to its instant, for zones whose transitions lie further apart than their offsets differ; and the digits of a number, by induction over their places, with a prover that can instantiate it.
