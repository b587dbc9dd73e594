# A TLA+ model of muduo_core

muduo_core is a small C++ network library in the style of muduo: one event
loop per thread, a poller below each loop, TCP connections on top, and a server
that accepts connections on a main loop and hands them to the loops of a thread
pool. This directory holds TLA+ modules translated from the sources, TLC
configurations that check them on small instances, and TLAPS proofs of what
holds for all instances. Paths below are relative to the repository.

## Inventory

| Component | State | Operations | Interacts with |
|---|---|---|---|
| `EventLoop` | `looping_`, `quit_`, `callingPendingFunctors_`, `pendingFunctors_` (guarded by `mutex_`), `activeChannels_`, the eventfd `wakeupFd_` | `loop`, `quit`, `runInLoop`, `queueInLoop`, `wakeup`, `handleRead`, `doPendingFunctors` | any thread queues callbacks or quits; the loop's thread polls, handles channels, runs callbacks, which call back into it |
| `EventLoopThreadPool`, `EventLoopThread`, `Thread` | `loops_`, `next_`; `loop_`, `mutex_`, `cond_`; `tid_`, a semaphore | `start`, `getNextLoop`, `getAllLoops`; `startLoop`, `threadFunc`, destructor; `start`, `join` | the owner's thread and each new thread synchronise while starting and destroying |
| `Buffer` | `buffer_`, `readerIndex_`, `writerIndex_` | `append`, `retrieve*`, `readFd`, `writeFd`, `makeSpace` | used by one connection on one thread |
| `TcpConnection` | `state_` (atomic), `outputBuffer_`, `inputBuffer_`, its channel and socket | `connectEstablished`, `connectDestroyed`, `send`, `sendFile`, `shutdown` and their `...InLoop` halves, `handleRead/Write/Close/Error` | its loop calls it; application threads call it through `shared_ptr`; it calls the application and, to be removed, the server |
| `Channel` | `events_`, `revents_`, `index_`, `tie_` | `enable*`, `disable*`, `remove`, `handleEvent` | between a loop's poller and its owner |
| `Poller`, `EPollPoller` | `channels_`, the `events_` array, the epoll set | `poll`, `updateChannel`, `removeChannel` | one per loop |
| `TcpServer` | `connections_`, `nextConnId_`, `started_` | `start`, `newConnection`, `removeConnection`, `removeConnectionInLoop`, destructor | acceptor and map on the main loop, connections on subloops |
| `Acceptor` | listening socket and channel | `listen`, `handleRead` | main loop, server |
| `Socket`, `InetAddress`, `Timestamp`, `CurrentThread`, `Logger`, `Callbacks`, `noncopyable` | a descriptor, values, a log level | system calls, conversions, output | |

Where it is hard, and what makes each component correct:

- **EventLoop**: a callback is pushed under the mutex, but the decision to wake
  the loop and the write to the eventfd come after it is released, and `quit_`
  is a flag next to them. Correct means: a loop never sleeps on queued work or
  on a `quit()`; callbacks run once and in order; `quit()` ends `loop()`.
- **Thread pool**: `loop_` is published under a mutex and read without it by
  the destructor, while the thread may leave its loop. Correct means: `start()`
  hands out loops that are ready, threads end before the objects they use, and
  neither `start()` nor the destructor waits for ever.
- **Buffer**: the choice between writing, moving and growing, with sizes that
  differ by `kCheapPrepend`, and a read that spills into a second array.
  Correct means: it is a queue of bytes and never leaves its vector.
- **TcpConnection**: `state_` is tested on one thread and acted upon on
  another; closing comes from the peer, from the application and from the
  server; the object lives as long as the last `shared_ptr`, but some callbacks
  hold a plain `this`. Correct means: one UP and one DOWN, no byte lost, doubled
  or overtaken, a FIN only after the output, and no use after destruction.
- **Poller and channel**: `index_`, `channels_` and the kernel's set are changed
  in three functions, and descriptors come back under another channel. Correct
  means: epoll watches exactly what the channels ask for, `epoll_ctl` never
  fails (that would end the process), and no ready descriptor is left out for
  ever because `events_` is too short.
- **TcpServer**: two loops take turns to remove a connection, the destructor
  races with both, and descriptors run out. Correct means: each connection is
  told UP, then DOWN, then its descriptor is closed, in this order and once; no
  loop keeps a channel that is gone; a full server takes clients again; the
  destructor returns (it does not when `loop()` of a subloop erases its
  `quit()`, see `thread_pool_lost_quit`).

`PROJECT.json` lists under "hazards" each place where this bites, with the
property that watches it.

## Modules

| Module | What it is | Proofs |
|---|---|---|
| `TaskQueue` | what a loop promises the callers of `queueInLoop` and `runInLoop`: a first-in first-out queue until it stops | |
| `EventLoop` | one loop, its thread, and other threads | `EventLoopProofs` |
| `EventLoopThreadPool` | the owner's thread and the threads of a pool | `EventLoopThreadPoolProofs` |
| `ByteQueue` | what a `Buffer` promises: a queue of bytes | |
| `Buffer` | the vector and the two indices | `BufferProofs` |
| `ConnectionLife` | what the application is promised of one connection: UP, DOWN, gone | |
| `TcpConnection` | one connection with channel, socket, peer, application threads, its loop and the server's map | `TcpConnectionProofs`, `TcpConnectionOrderProofs`, `TcpConnectionLifeProofs` |
| `TcpServer` | a server with its acceptor, main loop, subloops and many connections reduced to their life | `TcpServerProofs` |
| `EPollPoller` | one poller with several channels and the kernel's epoll set | `EPollPollerProofs` |

Three abstract specifications say what a component promises: `TaskQueue` is
implemented by `EventLoop`, `ByteQueue` by `Buffer`, and `ConnectionLife` by
both `TcpConnection` (every detail of one connection) and `TcpServer` (every
connection, in outline). A module takes of another what that one's properties
say: a loop with queued work does not block (`EventLoop!NoLostWakeup`), a buffer
is a sequence (`Buffer!RefinesByteQueue`), a registered channel gets its events
(`EPollPoller!EpollAgrees`, `NoStarvation`).

`MC<module>` and the `.cfg` files beside it give the constants their values.
Definitions whose name has a suffix (`NeedsWakeup_OnlyForeign`) are the code
with a bug in it: with the definition of the same stem replaced by them, the
property named in `PROJECT.json` fails. No specification uses them.

### EventLoop

`pc` is the place of the loop's thread: `check` at `while (!quit_)`, `poll` in
`epoll_wait`, `handle` between two active channels, `callback` inside a
channel's callback, `run` inside `doPendingFunctors`. `QueueInLoop(t, f)` is
the locked block of `queueInLoop`, `FinishQueue(t)` the rest of it (the test,
and the write to the eventfd); `Quit` and `FinishQuit` split `quit()` likewise.
The loop's own thread makes these calls from callbacks, from running functors,
and before and after `loop()`. A poll returns because the eventfd is readable
(`PollWoken`, with any non-empty set of channels, as `epoll_wait` reports only as
many as fit), because of other descriptors, or because of the timeout.

Each thread calls `quit()` once at most and each callback is queued once; that
bounds the eventfd's counter. The C++ memory model is not modelled: the flags
are `std::atomic` with sequentially consistent accesses.

### EventLoopThreadPool

`owner` and `cur` are the place of the thread that calls `start()` and the
destructor, and the `EventLoopThread` it is at; `place[i]` is where thread `i`
is in `threadFunc`; `loop[i]` says whether `loop_` is set. `ClearLoop` and
`EndThread` are two steps, since the owner may read the null `loop_` before
`mutex_` is released. `quit()` on a subloop is two steps, too: `QuitLoop` sets
`quit_`, and by the time `WakeLoop` reads `threadId_` and writes `wakeupFd_` the
loop may have returned and gone with the stack of its thread; what comes then
is undefined, and `owner` may become `crashed`. A subloop appears as its `quit_`
only: that it returns once `quit_` is set is what `EventLoop!QuitStops` shows.
`SelfQuitters` are the threads on whose loop a callback calls `quit()`; the
properties that fail for them exclude them by name. There is at least one
thread here; `TcpServer` has a pool with none.

### Buffer

Operations are atomic, one connection on one thread uses a Buffer. `AppendTo`
is `append` with `ensureWritableBytes` and `makeSpace`: three cases. `ReadFd`
takes any bytes `readv` can return into the vector and `extrabuf`. `moved` is
what the last call put in, or what `retrieveAsString` or `writeFd` handed out,
so that a Buffer that loses a part of what it is given is no `ByteQueue`.
`Contents` maps the vector to the queue of `ByteQueue`.

### TcpConnection

The connection's loop is EventLoop once more, as one channel sees it: `place`
is `poll`, `event` (in `handleEvent`), `run` (in the batch that was swapped
out) or `destroy` (in `connectDestroyed`, after its test of `state_`);
`callback` is the application's callback that is running, in which the
application may send, send a file or shut down. A handler that ends in a callback
is split there, since other threads run meanwhile: `HandleClose` is
`handleClose` up to the end of `connectionCallback_`, `EndDownClosed` is
`closeCallback_`, that is `TcpServer::removeConnection`. Calls of other threads
are split between the test of `state_` (`Call`), setting it
(`SetDisconnecting`) and queueing (`QueueSend`, `QueueShutdown`).

`Alive` says who still holds a `shared_ptr`: the server's map, callbacks in
either loop's queue, the batch until its end, `tie_` during an event, and
application threads. The callbacks of `RawOps` were bound to a plain `this`.
When one of them runs on a connection that is not alive, `dangling` is
`connection`; when a thread that still holds the connection calls it after its
loop is gone (`loop_` is a plain pointer), `dangling` is `loop`. The model stops
then: what the program does is undefined. `closeCallback_` always finds its
server, since `~TcpServer` waits for the subloops before it ends.

Bytes are numbered in the order in which the application gives them to `send`
and `sendFile`, and `given` says who gave each. The socket takes any number of
them; a peer may send, close and reset at any time; `Pending` and `PerhapsRoom` are what level-triggered
epoll reports. `sameLoop` chooses between a server without subloops (removal is
a direct call) and one with (removal is queued in the server's loop, and the
server may be destroyed there at any time, after which `StopLoop` ends the loop
with what is still queued).

`Phase` maps the calls of `connectionCallback_` and `Alive` to the phases of
`ConnectionLife`. That module lets a connection go untold (`Abandon`) only when
`~TcpServer` has begun.

Abstracted or assumed: the string given to `send` on another thread stays
valid until the loop has used it (the code queues a pointer to it); the write
complete and high-water callbacks are set; write errors other than EPIPE and
ECONNRESET do not occur; SIGPIPE is ignored by the application; the server is
destroyed after its own loop has ended, so calls still queued there are not
run. `connectEstablished` is queued, also when server and connection share the
loop, where it is in fact called directly.

### TcpServer

Loop 0 is the main loop, 1 to `numThreads` are the subloops; with no subloop the
connections live in loop 0. Each loop has the rounds of `EventLoop` (`check`,
`poll`, `event`, `run`), a queue, a batch and its poller's `channels_` by
descriptor. `Accept` is `Acceptor::handleRead` with the whole of
`newConnection`, for the lowest free descriptor; `AcceptFails` is the same with
none free. `HandleClose` is `handleClose` with `removeConnection`, which goes to
the main loop directly or through its queue. A connection is `state_`, the
`index_` of its channel and the number of its UP and DOWN calls; input and
output are left to `TcpConnection`, and `shutdown()` appears as the state that
the UP callback may leave. A descriptor is free again when nobody holds the
connection (`Alive`), so `Alive` is also what decides whether accept works.

The application starts the server (`Start`), may end the main loop at any time
(`QuitMain`), and then destroys the server: `DestroyConnection` is one round of
the loop in `~TcpServer`, whose local `conn` is `held`; `DestroyMembers` begins
the destruction of the members, in which the pool stops one subloop after the
other (`joining`) while the rest go on; then the main `EventLoop` goes with
its queue. Connections, channels and queues stay shared with running subloops
all the time.

`Start` leaves every loop at `entering`: `start()` returns when the subloops are
published, and each sets `quit_` to false as it enters `loop()` (`EnterLoop`),
at any time from then on. The pool's `quit()` has its two halves, as in
`EventLoopThreadPool`: `QuitSubloop` sets `quit_`, `WakeSubloop` writes the
eventfd, or uses a loop that is gone by then, after which `server` may be
`crashed`. So the destructor has the two flaws of the pool's here, too:
`DestructionReleasesAll` names them (`QuitErased`, `crashed`) and says that
nothing else keeps `~TcpServer` from ending. After a crash the destructor takes
no further step; the loops may go on.

### EPollPoller

A `Channel` is created on a free descriptor (`NewChannel`), and may be enabled,
disabled and removed in any order (`SetEvents`, `Remove`), by the callbacks of
the round or by functors of the same loop; `Destroy` ends a channel that was
removed, after the round's active channels, and its descriptor is free for
another. `interest` and `ptr` are the
kernel's epoll set, changed by `Update` as `epoll_ctl` does; `ctlError` remembers
a call that the kernel would refuse. `condition` is what is going on at each
descriptor and changes at any time; `Poll` returns as many ready descriptors as
`events_` has entries, any ones if there are more, and doubles `events_` when it
is full.

## Runs

| Run | Checks | Result |
|---|---|---|
| `event_loop` | 2 threads, 1 channel, 2 callbacks (40 934 states): `TypeOK`, `NoLostWakeup`, `QuitWakesPoll`, `PromptlyRun`, `QuitStops`, `RefinesTaskQueue` | hold |
| `thread_pool` | 3 threads, one of which may quit by itself, 2 connections per loop (2 364 states): `TypeOK`, `StartedIsReady`, `ThreadEndsFirst`, `RoundRobin`, `StartEnds`, `JoinEnds` | hold |
| `thread_pool_lost_quit` | `DestructionEnds` | violated: `loop()` erases a `quit()` that came before it (`EventLoop.cpp:83`), and the destructor joins for ever |
| `buffer` | prepend 1, size 2, extra 2, at most 4 bytes (12 919 states): `TypeOK`, `IndicesInOrder`, `GrowsOnlyWhenFull`, `RefinesByteQueue` | hold |
| `connection` | 1 thread that sends files and shuts down, 2 bytes, 1 message (3.4 million states): `TypeOK`, `RefinesConnectionLife`, `WriteInterest`, `NothingCutOff`, `SendOrder`, `RemovedBeforeDestroyed`, `RegisteredWithInterest` | hold |
| `connection_send` | 1 thread that sends, callbacks that do too, 3 bytes (7.0 million states): `SendOrder`, `ToldOnce` | hold |
| `connection_liveness` | 1 thread that shuts down, 1 byte, 1 message (83 971 states): `CloseCompletes`, `DownIsCalled`, `ShutdownSendsFin` | hold |
| `connection_give_up` | `GivesUpWriting` | violated: `sendInLoop` does not return on `kDisconnected` (`TcpConnection.cpp:87`) |
| `connection_give_up_file` | `GivesUpFile` | violated: `sendFileInLoop` looks for `kDisconnecting` only (`TcpConnection.cpp:295`) and queues itself for ever, after a reset and with the server alive |
| `connection_dangling` | `NoDanglingConnection` | violated: `shutdown()` queues a plain `this` (`TcpConnection.cpp:152`); `send()` does too (line 73), and with `ThreadOps = {"send"}` the run finds that |
| `server` | no subloop or two, 3 clients, 2 descriptors (237 394 states): `TypeOK`, `ChannelsAgree`, `RefinesConnectionLife`, `HungUpIsReleased`, `AcceptResumes`, `DestructionReleasesAll` | hold |
| `poller` | 2 channels, 2 descriptors, `events_` of 1 entry (116 358 states): `TypeOK`, `EpollAgrees`, `EpollCtlSucceeds`, `SizeBounded`, `NoStarvation` | hold |

The violated properties say what a comment or the repository's README promises;
the findings in `PROJECT.json` quote it.

**Bounds, and why they are enough.** `event_loop`: two foreign threads and the
loop's make every pair of callers meet between push and wakeup, and two
callbacks let one be queued while the other runs or waits in the batch. The
proofs remove the bounds for safety. `thread_pool`: three threads give a first,
a middle and a last, with the one that quits by itself in the middle; two
connections per loop let `next_` wrap twice. `buffer`: the sizes are chosen so
that four bytes reach all three cases of `makeSpace` with either index at either
end, and a read can fill the vector exactly or spill over; the proofs remove
them. `connection`: two bytes make a partial write, a crossing of the mark (2),
one call before and one after another; one message makes EPOLLIN with and
without data. Its thread does not call `send`: a `sendInLoop` that runs after
`handleClose` registers the channel again (`TcpConnection.cpp:87` does not
return), and then a second `handleClose` reports the end twice and the
connection can be destroyed with its channel registered, so
`RefinesConnectionLife` and `RemovedBeforeDestroyed` do not hold; and bytes that a thread queued before a
callback called `shutdown` are lost, so `NothingCutOff` does not either (put
`"send"` into `ThreadOps` of `MCTcpConnection.cfg` and TLC shows each).
`connection_send` has that thread, and three bytes: one before and one after a
partial write, and one of the other thread between them.
`connection_liveness` has one byte and no file from the thread
to keep the graph small enough for TLC's liveness check; what it shows does not
depend on the order of bytes. Its `DownIsCalled` holds `~TcpServer` to the DOWN as
well, and leaves out by name the two cases in which the code tells nobody: a
connection that was shut down, and `connectDestroyed` in the queue of a loop that
stops. `server`: with three clients and two descriptors
accept fails, goes on when a connection has ended, and uses a descriptor again
whose former connection is still known to another loop's queue; two subloops
let one be joined while the other still works, and `GetNextLoop` wrap round.
`poller`: two channels on two descriptors let a descriptor pass from one to the
other in either order; with one entry `events_` is too short as soon as both are
ready, and long enough after it was doubled. The proofs remove these bounds for
safety.

**Fairness, and why the code justifies it.** `EventLoop!PromptSpec`: the
scheduler runs a thread that can run, and callbacks return; nothing is assumed
of the poll timeout or of other descriptors, so the promises do not rest on the
ten seconds of `kPollTimeMs`. `EventLoopThreadPool!Spec`: weak fairness for
each thread and for the owner inside `start()` and the destructor; nothing
makes the application use or destroy the pool. `TcpConnection!FairSpec`: weak
fairness for the loops and for calls that were begun; that a loop with queued
work polls without blocking is `EventLoop!NoLostWakeup`. Strong fairness of
polls that report EPOLLOUT says that the peer reads what it is sent: without it
no output ever has to end, and only `ShutdownSendsFin` needs it. Nothing is
assumed of `StopLoop` there, so what passes does not rest on the end of
`~TcpServer`. `EndingFairSpec`, for `connection_give_up_file`, adds that a loop
which goes round and round stops once the server is destroyed (strong fairness:
it tests `quit_` in each round only), so that the endless requeue TLC shows is not
one that `~TcpServer` would have ended.
`TcpServer!Spec`: weak fairness for each loop, entering `loop()` included,
and for a destructor that has begun; clients come and hang up, and the application quits, if they like.
Because a step of loop 0 with no descriptor left is an accept that fails, and
another poll follows, the loop spins; `AcceptResumes` says that this does not keep
it from the removals. `EPollPoller!Spec`: weak fairness for the loop only; which
of the ready descriptors the kernel picks is not fair, so `NoStarvation` rests on
the growth of `events_`.

**Deadlock** is checked for `Buffer` and `EPollPoller`. The other systems may really stop (a loop
that returned, a pool that is destroyed, a connection that has ended), and
their configurations say so.

## Theorems

All for every value of the constants that satisfies the modules' assumptions.

`EventLoopProofs`
- `TypeCorrect`: `Spec => []TypeOK`. `TypeOK` is inductive: it ties `looping_`
  and `callingPendingFunctors_` to the place of the loop's thread and says where
  that thread may be inside a call.
- `WakeupSafe`, `QuitSafe`: `Spec => []NoLostWakeup` and `[]QuitWakesPoll`.
  Neither is inductive, they speak of `poll` only. The invariant `Announced`
  says, for each place from `check` on, what covers queued work: an eventfd
  that is not zero or a caller that is about to write it, or the swap that is
  still to come in this round; and the same for `quit_`. `NoLostWakeup` and
  `QuitWakesPoll` are what it says at `poll`.
- `ImplementsTaskQueue`: `Spec => RefinesTaskQueue`, where the queue is
  `functors \o pendingFunctors`. It needs the invariant `Handover`: a callback
  is fresh, queued, in the batch or done, and only one of these, and a batch
  exists only while the loop is in `run`. The lemmas on `Elements` and on
  appending to a concatenation carry the steps.

`BufferProofs`
- `TypeCorrect`, `IndicesCorrect`: from the inductive invariant `IInv`
  (`Fits(buffer, readerIndex, writerIndex)`: the vector is a sequence of bytes
  and `kCheapPrepend <= readerIndex <= writerIndex <= Len(buffer)`).
- `GrowthJustified`: `Spec => GrowsOnlyWhenFull`.
- `ImplementsByteQueue`: `Spec => RefinesByteQueue`. Lemmas say what a piece of
  a sequence is after `Copy` and `Resize`; `AppendHolds` and `ReadHolds` put
  them together for the three cases of `makeSpace` and for the spill of
  `readFd`; `MoveReaderHolds` does it for `retrieve`.

`EPollPollerProofs`
- `TypeCorrect`, `EpollAgreement`, `CtlNeverFails`: from one inductive invariant,
  `EpollAgrees` and `EpollCtlSucceeds` with `OwnDescriptor` (a descriptor has one
  channel, and `channels_` has a channel only under its own). The lemma `CtlFits`
  says what follows for one channel: the kernel knows its descriptor exactly when
  `index_` is `kAdded`, so that each of the three calls of `epoll_ctl` fits.
- `SizeStaysBounded`: `Spec => []SizeBounded`, for any finite set of descriptors.

`EventLoopThreadPoolProofs`
- `TypeCorrect`, `StartedReady`, `ThreadsEndFirst`: none of the properties is
  inductive. `StartProgress` says which threads exist while `start()` is at
  `cur` and what the semaphore says of `cur`'s `tid_`; `StopProgress` says which
  objects are destroyed while the destructor is at `cur`; `StoppedByOwner` says
  that a loop has `quit_` set or has returned only after the owner stopped it,
  unless it quits by itself. From these, `NotStoppedYet`: the destructor finds
  `loop_` set both times it reads it, although it reads it without the mutex.
- `SpreadEvenly`: `Spec => []RoundRobin`.

`TcpConnectionProofs`
- `TypeCorrect`: from `TypeInv`, which adds to `TypeOK` what `Places` says about
  where the loop is and what it has still to do.
- `WriteInterestHolds`: with `Writing`, which says the
  same before `connectEstablished`, too; a step that puts bytes into `outputBuffer_`
  also asks for EPOLLOUT, and one that takes the last out stops asking.
- `ToldOnceHolds`: two high-water callbacks are never in the queue together,
  because while one waits the buffer is still over the mark, or the round
  has handled its events and takes the queue next (`Told`); a send that finds the
  buffer over the mark queues none.

`TcpConnectionOrderProofs`
- `SendOrderHolds`: `Spec => []SendOrder`, for sends of any threads, of
  callbacks, and files. `SendOrder` speaks of `sent` alone and is far from
  inductive. The invariant `InOrder` puts all bytes that were not dropped in one
  line: `flow` (`sent`, then `outputBuffer`), then the arguments of the callbacks
  of the batch from `at` on, then those of the queue. `Ordered` says that two
  bytes in this line fit: no byte twice, and of one thread the earlier first;
  `Owned` says whose bytes a callback holds. Each step takes callbacks off the
  front of the line and puts parts of one span of bytes at the end of the flow
  and at the end of the line; the lemmas show once that this keeps the order,
  and once for each action that it is such a step.

`TcpConnectionLifeProofs`
- `RegisteredWithInterestHolds`, with no hypothesis on who sends: from
  `Up /\ Registered`. `Up` says that while the connection is `kConnected` its
  channel is registered for reading, `Registered` that a channel the poller knows
  has an interest, and what holds where `handleEvent` may still close it.
- `RemovedBeforeDestroyedHolds`, `NothingCutOffHolds`, `ConnectionLifeRefined`:
  from one inductive invariant, `LifeInv`. `Established` says that nothing
  happens before `connectEstablished` has run; `Closed` that after the one DOWN
  the channel has no interest; `InTime` that as long as the poller knows the
  channel somebody who holds the connection is to remove it; `ShutdownAsked`,
  `Delivered` and `FinAfter` follow the bytes and the FIN. The lemma `PhaseIs`
  reads the phase of `ConnectionLife` off the invariant, and `StepRefines` maps
  every step.
- These three assume `"send" \notin ThreadOps`: threads of the application may
  call `sendFile` and `shutdown`, callbacks may call all three, but no other
  thread calls `send`. Without it they are false of this code, not only
  unproved (TLC finds each violated once a thread may call `send`): the callback
  of such a `send` is bound to a plain `this`, does not return on
  `kDisconnected` (the finding of `connection_give_up`), and when it runs after
  `handleClose` it registers the channel again. The run `connection` has the
  same restriction. The results of the other two modules on a connection do not
  need it.

`TcpServerProofs`
- `TypeCorrect`: `TypeInv` adds `Started` to `TypeOK`: nothing happens before
  `start()`, no loop beyond the pool runs, all have returned when the server is
  gone, and `acceptChannel_` is active only while a client waits, so that
  `nextConnId_` stays within the clients there are.
- `ChannelsAgreeHolds`: `ConnInv` follows a connection through the map, the
  queues and the batches, as `Rest(l)`, the callbacks loop `l` has still to run.
  `Firsts` says that no callback of a connection is ahead of its
  `connectEstablished`; `OwnLoop` that both wait only in the
  connection's own loop; `Wanted` that while its loop runs and its channel is or
  is to be registered, `connectDestroyed` waits there or is still to be queued
  (`Claimed`: the map has it, or the main loop is to remove it); `OwnFd` that
  live connections have different descriptors. That a registered connection is
  alive is the part of `ChannelsAgree` that is not inductive, and follows from
  `Wanted`.
- `ConnectionLifeRefined`: with `Told`, which ties the two counts of calls to
  `state_`, `index_`, the waiting callbacks and the map. `GoneStays` says that
  accept alone brings a connection to life, `Changes` that a step tells the
  application nothing, UP or DOWN of a connection, and `StepRefines` maps each
  to its step of `ConnectionLife`. No hypothesis is needed here, as this module
  leaves sending to `TcpConnection`.

Every invariant that a passing run checks is stated by a theorem, and so are
`RefinesTaskQueue`, `RefinesByteQueue`, `RefinesConnectionLife` (in both
modules) and the action properties. Only model-checked are the liveness
properties `PromptlyRun`, `QuitStops`, `StartEnds`, `JoinEnds`, `CloseCompletes`,
`DownIsCalled`, `ShutdownSendsFin`, `HungUpIsReleased`, `AcceptResumes`,
`DestructionReleasesAll` and `NoStarvation`: temporal proofs under fairness are
out of the prover's reach.

## Not modelled

`InetAddress` and `Timestamp` are values, and `Logger` only writes; no behaviour
depends on them. `Logger` and `localtime()` are used by all threads without a
lock, which shows in the log only. `Socket::bindAddress`, `listen` and the
options are one system call each, before the loop runs, and end the process or
are ignored when they fail. `getAllLoops` copies `loops_` and has no caller. The
examples are applications. `build/` and `lib/` are generated.

Of modelled components, these cases are left out:

- A server that is destroyed inside its own running loop: `removeConnection` and
  `Acceptor` have plain pointers to it, and nothing guards against that. The
  examples destroy it after `loop()`.
- `~Acceptor`, which comes when every loop has ended.
- `errno` is looked at after `LOG_ERROR`, which may change it; SIGPIPE is not
  ignored by the library. Both are assumed to be in order.
- Callbacks that the loop's own thread queues before `loop()` are announced by
  nobody (`EventLoop.cpp:155`) and wait for a poll to return, at most
  `kPollTimeMs`. `NoLostWakeup` and `PromptlyRun` leave them out by name.
- The comment in `~TcpServer` (`TcpServer.cpp:49-50`) says that `connectDestroyed`
  makes the disconnect callback. It does not for a connection in
  `kDisconnecting`, nor for one whose subloop ends before it takes the callback
  from its queue; `ConnectionLife` allows both as `Abandon`.

## Plan

Done: all the modules above, their runs, and proofs of every safety property
the runs check. What is left:

1. `TcpConnection` with threads that send: what still holds of the life of a
   connection then, with the callbacks of `sendInLoop` told apart by whether they
   run before or after `handleClose`.
2. The state predicates on which liveness rests, as invariants for all
   constants: that in each state in which `DestructionReleasesAll` or
   `HungUpIsReleased` is still owed, some loop has a step to take.
