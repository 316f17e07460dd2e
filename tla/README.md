# A TLA+ model of hlink

hlink is a C++ network library: a reactor (`EventLoop` over epoll), a TCP server
with a pool of IO threads, a TCP client with retries, timers, a byte buffer, a
thread pool and a blocking queue. This directory models its control: which thread
does what in which order, what is shared, who keeps whom alive, and which of the
assertions of the code hold.

Paths below are relative to `src/`. The build type is forced to `Debug`
(`CMakeLists.txt`), so assertions are part of the program, and `LOG_CRITICAL`
(`core/include/logging.hpp:42`) is one of them: where one fails, the process is gone.

## 1. The system

| Part | State | Operations | Talks to |
| --- | --- | --- | --- |
| `EventLoop` (net/src/eventloop.cpp) | queue of functors, quit flag, eventfd, the list of active channels, the batch being run | `loop`, `quit`, `run_in_loop`, `queue_in_loop`, `init`, `update_channel`, `remove_channel`, timer calls | its `Poller`, its `TimerQueue`, every `Channel` of its thread; any thread may post to it |
| `Channel` (channel.cpp) | interest, registration flag, tie | enable, disable, `remove`, `handle_event` | the loop that owns it; callbacks of its owner |
| `Poller` (poller.cpp) | `channels_`, the event list, the epoll set | `poll`, `update_channel`, `remove_channel` | the kernel |
| `TcpConn` (tcp_conn.cpp) | `state_`, its channel, input and output buffers | `connect_established`, the four handlers, `send`, `shutdown`, `force_close`, `start_read`, `stop_read`, `connect_destroyed` | its IO loop; the user's callbacks; the server's close callback |
| `TcpServer` (tcp_server.cpp) | the map of connections | `start`, `new_connection`, `remove_connection`, destructor | `Acceptor`, `EventLoopThreadPool`, connections on other loops |
| `EventLoopThread`, `EventLoopThreadPool` (eventloop_thread.cpp, eventloop_therad_pool.cpp) | threads, loops, round robin | `start`, `get_next_loop`, destructors | one `EventLoop` per thread |
| `Acceptor` (acceptor.cpp) | listening socket, spare descriptor | `listen`, `handle_read` | `TcpServer::new_connection` |
| `Connector`, `TcpClient` (connector.cpp, tcp_client.cpp) | state, retry delay, the one connection | `start`, `stop`, `restart`, `connect`, `disconnect` | loop, timers, `TcpConn` |
| `TimerQueue` (timer_queue.cpp, sys_timerfd.cpp) | two sets of timers, those cancelled during a round, the timerfd | add, cancel, expiry | loop |
| `Buffer` (core/src/buffer.cpp) | bytes, read and write positions | append, pop, prepend, read from a descriptor | `TcpConn`, the user |
| `ThreadPool`, `BlockingQueue` (core) | a queue, a mutex, condition variables | `start`, `run`, `stop`; `push`, `pop`, `drain` | the user's threads |
| `Socket`, `InetAddr`, `sys_socket`, logging, utilities | none of their own | wrappers | the kernel |

What is hard about it:

* **Threads.** A functor posted from another thread must be run once, in order,
  and soon, although the loop may be about to sleep. A connection's `state_` is read and
  written by threads without a lock.
* **Callbacks.** `run_in_loop` on the loop's own thread is a plain call, so that a
  callback can close, remove and destroy in the middle of the dispatch that called it.
* **Three hops.** A connection goes down on its IO loop, leaves the server's map on the
  base loop and is destroyed on the IO loop. In between it is kept by functors.
* **Ends.** A loop that returns leaves functors unrun; a server dies while its
  connections are open, half closed or on their way out.

What makes each part correct: for the loop, no lost wakeup, no lost, repeated or
overtaken functor, and `quit()` works; for a connection, UP once, DOWN once and nothing
afterwards, destroyed only after it left the poller, and destroyed at all; for the server, an
entry in the map from creation to the end of the connection; for timers, no repetition after a
cancel and no late round; for the pool and the queue, no accepted task lost and nobody left
asleep; for the buffer, positions in order and no byte lost or overtaken; for the acceptor, no descriptor leaked and
a backlog that drains; for the loop threads, no loop used before it is there or after it is gone.

## 2. Modules

| Module | Models | Kind |
| --- | --- | --- |
| `Executor` | what a loop, or a pool, promises to those who post to it | abstract specification |
| `EventLoop` | one loop, its owner thread, other threads | component |
| `EventLoopThreadPool` | the threads that loops live on: start, publication, destruction | component |
| `Acceptor` | the listening socket and the table of descriptors | component |
| `Channel` | a channel's interest and registration, order of dispatch | operators |
| `ConnLifecycle` | what a server promises its user about a connection | abstract specification |
| `TcpConn` | connections and the loops they live on | component, uses `Channel` |
| `TcpServer` | the server and the end of its pool, composed with its connections | component, extends `TcpConn` |
| `Reconnector` | what a client promises about the connections it makes | abstract specification |
| `TcpClient` | a client with its connector, composed with its connection | component, extends `TcpConn` |
| `Buffer` | the byte buffer | operators |
| `ByteStream` | what a connection promises about the bytes it is given | abstract specification |
| `TcpConnStream` | the bytes of one connection, in both directions | component, extends `Buffer` |
| `TimerQueue` | the timers of a loop | component |
| `ThreadPool` | the pool of worker threads | component |
| `BlockingQueue` | the queue between threads | component |
| `Pipeline` | a pool whose tasks push results into a queue | composition of the two |
| `MC...` | the instances that TLC checks | model checking |
| `...Proofs` | theorems about `EventLoop`, `TcpServer` with its connections, `EventLoopThreadPool`, `Acceptor`, `TcpConnStream` with its `Buffer`, `TimerQueue`, `TcpClient` with its connection, `Pipeline` with its `ThreadPool` and `BlockingQueue` | proofs |

### EventLoop

One action per step that another thread can see. The owner is a program counter `pc`
through `loop()`: `check` (the `while`), `poll`, `events` (the rest of the active channels),
`handler` (inside a callback), `swap` (inside `mtx_`), `batch`, `functor`. A thread is inside
`queue_in_loop` (`emplace` while it holds `mutex_`, then `wakeup`) or `quit`.
`run_in_loop` from another thread is `queue_in_loop`; from the owner it is a plain call and no
step of the loop. The eventfd counter is the Boolean `wakeup_fd_`; channels other
than the wakeup channel are one value, `"io"`.

`queue_in_loop` and `do_queued_functors` take *different* mutexes, so the model lets the two
critical sections overlap. The first overlap sets `raced`; from then on an append may be
lost or the process may crash. Properties of order are stated up to that point, and properties
of progress end there (`Stopping`).

`enqueued`, `executed` and `early` are history: what was posted, what was started, and what the
owner itself posted outside `loop()` (`queue_in_loop` writes no wakeup for that).

### TcpConn and TcpServer

`TcpConn` has what a server and a client share: connections, loops, the users' callbacks and threads,
peers. `TcpServer` and `TcpClient` extend it with the code that makes connections and hears of
their end, and each has its own `Init` and `Next`.

The stack of calls under way on each thread is `calls[x]`, the innermost call first;
every function of `TcpConn` and `TcpServer` that changes state is one action that replaces
its own entry by the calls it makes, in order. `RunInLoop` is `EventLoop::run_in_loop`: a call
on the loop's own thread, an element of `queue_functors_[l]` elsewhere. It relies on what
`EventLoop` shows: the queue is first in, first out and a loop that has something queued comes
to run it (by a wakeup, or at the latest by the poll timeout).

A loop goes through `Poll`, one `HandleEvent` for each active channel, `SwapQueue`, one
`RunFunctor` for each functor, `FunctorsDone`. `Poll` takes every channel that is ready and puts
them into any order. A callback of the user (`user` on the stack) may call what the constants
`OwnOps` and `PeerOps` say. `send`, `shutdown` and `force_close` are two steps each, the test
of `state_` and what follows, because they may run on any thread.

Who keeps a connection alive is computed, not stored: `Alive` is membership in the map, in
the user's `kept`, in a functor that captured the `shared_ptr`, or on some thread's stack.
Functors that captured `this` do not count; running one for a dead connection is
`use_after_free`. Failing assertions set `aborted` to the name of the function.

A connection's socket is `data` (bytes not yet read), `peer` (`open`, `fin`, `reset_error`
while `SO_ERROR` is pending, `reset`) and `shut` (our own half is closed); `Reported` says
what epoll then reports. The output buffer is empty or not.

`TellsOutput` says whether the user sets the write complete and high water mark callbacks. `handle_write` calls the first at once, between the end of
writing and its look at DISCONNECTING (`HandleWrite`, `HandleWritten`); `send_in_loop` queues a functor (`QueueOutputCallback`) that captured `this`, not the
`shared_ptr`: the connection must still be there when it runs (`OutputCallback`). Either callback may call what `OwnOps` says. *When* they are called,
by the bytes that wait, is `TcpConnStream`.

Two simplifications: a Channel at the address of one that is gone is another one for `MayRemove`, where the code compares addresses; and
`TcpConnStream` has `force_close_with_delay` only while the connection lasts until the timer expires, whose lambda uses a captured `this` as well (`tcp_conn.cpp:332`).

### TcpClient

The client is on one loop. The first call on its stack is the owner's `connect()`, before
`loop()`. `state_`, `started_` and `channel_` are the Connector's fields; `channel_` holds the descriptor of the attempt and its `Channel`, which
`RemoveAndReset` unregisters at once and a functor destroys. `connection_` of the code
is `connections_`, a set of at most one. `mutex_` is a lock with a holder, because `disconnect()` may run on a
thread of the user; `disconnect` is two steps, before the lock and from there, and `new_connection` and
`remove_connection` wait for it.

A descriptor's number is handed out again as soon as its socket is closed (`Usable`), so two of them carry any number
of attempts: one may still be on its way out while the next one connects. Time is left out: `retries` counts the timers that were set and
`TimerExpires` may happen at any time, whatever the delay, which the code doubles up to its maximum.
The kernel ends a handshake with success, an error or a connection to itself (`HandshakeEnds`).

The destructor runs on the loop's thread, posted as a functor by a callback. It replaces the close callback by one that uses only
the loop, closes the connection if nobody else holds it, and stops the Connector if there is no connection.
What runs later for a Connector that is gone is `use_after_free`. A `connect()` for which no socket can be made ends the process in the code; it is not an action.

### EventLoopThreadPool

The owner goes through `StartThread`, `LookAtLoop` (and sleep) for each thread, serves (`GetNextLoop`), and destroys
the threads one after the other: `ReadLoop` and `RereadLoop`, `QuitLoop`, `Join`, `DestroyMembers`, `DestroyThread`. A
thread goes through `thread_func`: the init callback, `Publish`, `NotifyAll`, the loop, `Clear`, `Unlock`, `Leave`. What a loop does
is `EventLoop`; here it returns some time after its `quit_flag_` is set. `Quitters` are the threads whose callbacks
may call `quit()` on their own loop, `left` those that did. Only the first thread gets the init callback (section 5).

The destructor reads `loop_` twice without the mutex, to test it and to call `quit()` (`eventloop_thread.cpp:37-38`), and the thread sets it to null some time before it
releases the mutex. So `Clear` and `Unlock` are two steps, as `ReadLoop` and `RereadLoop` are; a compiler may also keep the first value. A second look at null is the place
`crashed`; `quit()` on a loop that is destroyed ends there too, or does nothing.

### Acceptor

Each system call of `handle_read` is a step, and other threads of the process open and close descriptors between them.
`fds` counts the descriptors in use; `connections` and `others` say whose they are, `idle_fd_` what the field refers to. `taken` is
history: another thread opened a descriptor while the spare one was closed. `accept()` succeeds, finds nothing,
fails with an expected error, fails with `EMFILE`, or fails with an error that `net::accept` does not expect, which aborts the process.

### Buffer and TcpConnStream

A buffer is a record with the fields of `Buffer::Impl`. `buffer_` is the whole vector, the bytes outside of the readable
part included, because `peek_int` and the move look at memory by position; cell `i` of the code is `buffer_[i + 1]`. An
operator is what a member function leaves behind. The assertions in it are `Can...`. The sizes of the code (8, 1024, 65536) are
constants, and a byte is a number below `ByteBase`.

`TcpConnStream` is one established connection; `conn` has its fields for writing, its functors in the loop's queue, and
the socket. `SendInLoop` is the set of what `send_in_loop` can leave, because the kernel takes any part of a write.
The other thread's `send()` is two steps, the test of `state_` and the posting of the functor. Of
its overloads two kinds remain: those whose functor is `send_in_loop` (`raw`), and that for a `Buffer`,
whose functor calls `send()` again and tests `state_` a second time (`buffer`). The user's message callback takes frames
(a length and so many bytes) with `read_int` and `pop_as_string`, and sends each back with `append` and `prepend_int`.
`handle_close` is one action, `TakeDown`, that may come at any moment: how it comes about is `TcpConn`.

### ThreadPool, BlockingQueue and Pipeline

What a thread does under the mutex is one step, and so is each notification, which comes after the unlock. A thread in a wait may wake
without a notification. `TakeTask` hands out the head of the queue and notifies one waiting `run()`; a task that was taken may give
another one to `run()` (`Follow`), on its worker, or inline if the pool has no threads yet (`running` is the stack of tasks that a
thread is inside of). `run_flag_` is read without the mutex in `run_in_thread`: reading an old value is the same as the
thread being slow between `check` and `take`.

`Pipeline` composes the two as they are used: the body of every task pushes a result (`PushResult`, `DeliverResult`), and other threads
`pop()` or `drain()` them. It takes the actions of both modules as they are.

### TimerQueue

`heap` has the fields of every living `Timer` by address, and addresses are used again, so the pair of
address and sequence number in a `TimerId` matters. Expirations are relative: the number of ticks left, and 0 for
anything overdue; which of two overdue timers is earlier is left open. `alarm` is the timerfd: ticks to go, 0 when it is readable, `Off`
when it is not set. A poll that returns the timerfd and its handler are two steps, so that time, functors and
other handlers come in between. A round is `HandleRead` (`get_expired` included), one `Run` for
each expired timer, and `Reset`. Within it the loop's thread adds and cancels timers from callbacks; other threads post
functors, which run in order between rounds.
`cancelled` and `over` are history: the cancels that were carried out, and the timers that ran and do not repeat.

## 3. Runs

| Run | Question | Result |
| --- | --- | --- |
| `loop` | two threads and the owner post two functors and quit at any time | `NoLostWakeup`, `LoopInv`; with the wakeup channel registered `PromptRun`, `PromptQuit`; without it `EventualRun`, `EventualQuit`; `EventLoop` implements `Executor` |
| `loop_race` | do the two critical sections exclude each other? | no |
| `loop_threads` | a pool of three threads starts and is destroyed while loops quit of themselves | `LoopsOutlive`; `start` and the destructor return (`StartLoopReturns`, `DestructorReturns`), each with the exception of the loops that quit |
| `accept` | four peers, three descriptors, other threads that use them too | `DescriptorsOwned`; the backlog drains (`BacklogDrains`) |
| `server_single` | one loop, two connections, callbacks that send and close, none for the output | `NothingAborts`; a connection whose peer left is destroyed (`ClosedIsDestroyed`); implements `ConnLifecycle` |
| `server_pool` | base loop and one IO loop, two connections that the user keeps; connection and output callbacks close their own, a thread without a loop sends, peers finish | `NothingAborts`, `ServerInv`, `InLoopThread`, `DisconnectedIsFinal` |
| `server_dies` | the server and its two IO threads end at any time, callbacks stop reading | `NothingAborts`, `DestroyedIsUnregistered` |
| `server_thread_close` | `tcp_server.cpp:179` | can fail |
| `stream` | frames in and out in any pieces, two messages of a thread, a shutdown, a close or reset at any moment | `BytesIntact`, `NoneLostWhileOpen`, `CallbacksTold`; `ShutdownCompletes`; implements `ByteStream` |
| `client` | retries, stops, a thread that disconnects, and the end of the client | `NothingAborts`, `ClientInv`, `CallersHold`; it keeps trying (`KeepsTrying`); implements `Reconnector` |
| `timers` | three timers on two addresses, added and cancelled by callbacks and by other threads | `TimersOwned`, `ArmedForEarliest`, `CancelIsFinal`, `NoTimerLost`; a timer that waits fires or is cancelled (`EveryTimerFires`) |
| `pipeline` | two workers, a queue of one place, tasks that submit tasks, a consumer, `stop()` at any time | `NoSleeperBesideWork`, `NoSleeperBesideResult`; `EveryTaskRuns`, `StopReturns` |

**Bounds.** Each functor is posted once and there are two: a lost wakeup
takes one in the queue and one that arrives after the swap, an inversion takes two (and what
matters of this is proved for any number). Two other
threads are enough for one to hold `mutex_` while the other waits for it and the owner swaps.
Two connections give every pair of neighbours in a list of active channels
and in the map; two IO loops give every pair of threads that end one after the other.
`MaxCallbackOps` is the number of calls per callback, `MaxQueue` the length of a queue at which users
stop posting (what the library itself posts is not bounded by it). In `TcpServer` connections are used once:
a descriptor's number is not used again, `DestroyedIsUnregistered` is the condition that
makes this harmless. In `TcpClient` they are used again, and two suffice: an attempt and a connection on its
way out. Three timers on two addresses make every address come back, and leave a second timer beside one that is
cancelled; delays of one and two ticks give an insertion before and one behind what waits, with an interval of one a timer
is due again while a round lasts; the queue of two functors holds an add and the cancel behind it. Connections are symmetric in the runs that say so; no run with a
liveness property uses symmetry.

Three loop threads are a first one (with the init callback), one in the middle and a last one, and the first and the last may quit.
Three descriptors leave room for the spare one, a connection and another thread's, so every one of them can be the
one that is missing. The buffers of `stream` have a first size of two behind one byte of room, so that five bytes in two frames grow, move and shrink them
and overrun the array of `append_from_fd`, of two bytes as well; messages of two or three bytes against a mark of three
cross it, and every way of splitting a write comes up. In `pipeline` the queue has one place: with two workers inside tasks that
submit, and a caller with three tasks, `run()` waits on every kind of thread, and all workers can come to wait for room.

Deadlock is not checked: a server whose peers are silent, and a loop after `loop()`, do
stop.

**Fairness.** `PromptSpec`: a thread that is inside `queue_in_loop` or `quit` finishes, the
owner goes on, callbacks return and the kernel reports a readable registered eventfd; nothing is assumed about
other IO or timeouts. `EventualRun` and `EventualQuit` are conditional on `PollsTimeOut`: a poll ends
after `POLL_TIMEOUT_MS`. `FairSpec` of `TcpServer`: threads go on with the calls they began, callbacks return,
and loops keep looping (`LoopStep` of a sleeping loop is enabled only when something
is ready or queued). Peers and users are never assumed to do anything. `FairSpec` of `TcpClient` adds
that a retry timer that was set expires, which is what `timers` shows of a loop whose timer channel is registered (the client's loop is one that
its owner called `init()` on). `FairSpec` of `TimerQueue`: time passes, the loop keeps looping and callbacks return; nobody is
assumed to add or cancel. `EventLoopThreadPool`: every thread comes on, and a loop that was told to quit returns. `Acceptor`: the
loop polls and the handler goes on; strong fairness of `Accept \/ AcceptFails` and of `FindsEMFILE` says that `accept()` is not interrupted
for ever and that `errno` survives `LOG_ERROR` once in a while. `TcpConnStream`: the loop runs functors, callbacks return, and the kernel takes bytes
again and again unless the peer resets. `Pipeline`: a thread that is not asleep comes on and a task returns; a wait is never assumed to end without
a notification.

**What the programs of the runs leave out, and what happens there.** The passing runs state for which
programs the assertions hold. Beyond those, while a program stays inside the library's documented calls:

* `send()` from another thread on a connection that nobody keeps uses a freed
  connection, because the functor captured `this`; the user of `server_pool` keeps it (`KeepsRefs`, `DropsRefs`).
* So do the functors of the write complete and high water mark callbacks (`tcp_conn.cpp:104`, 128), on a server with one loop or one that is destroyed, if nobody keeps the
  connection: its removal is one dispatch on one loop and comes before them (section 5). `server_single` and `server_dies` have no such callbacks (`TellsOutput`), the user of
  `server_pool` keeps every connection. On the loops of a pool that lives on, `connect_destroyed` is queued behind them: that is proved only (`NeverAborts`), for connections kept or not.
* The callbacks for the output are not in `log`: `ConnLifecycle` is about the connection and message callbacks. A write complete callback may come after DOWN.
* `start_read()` or `stop_read()` after the connection went down changes a channel that is on its way out;
  with `ChecksConnected` the callbacks test `is_connected()` first. In `server_dies` a callback makes one call and there is no message
  callback, so a connection that was stopped is hardly ever started again; the proofs have no such bound.
* `shutdown()` from another thread has the test-then-set of `server_thread_close`: the connection comes back from
  DISCONNECTED (`DisconnectedIsFinal`).
* `connect_destroyed` may be queued on an IO loop that has already decided to
  return; the connection then ends without DOWN. This is why `server_dies` does not claim
  `ImplementsLifecycle`.
* `TcpClient::stop()` from another thread races with `restart()`, which sets `started_` again after a
  look at `connected_`: the stop is lost. In `client` it is called by functors.
* `disconnect()` while the connection is not up yet does nothing but clear `connected_`; the attempt goes on.
* `force_close()` in the DOWN callback and `disconnect()` from another thread together close
  twice. `client` closes in neither (`ClosesIn`).
* An error of `connect()` that is not retried ends the attempts for good (`FatalErrors`); the user is not told.
* `add_timer` from another thread reads the sequence number of a Timer that it has already posted (`timer_queue.cpp:182`). `TimerQueue` takes it that
  the caller is back before the Timer runs; if not, it reads a deleted Timer.
* A callback that cancels a timer which another thread has posted but the loop has not inserted yet cancels nothing (`SharesIds`).
* `~TimerQueue` deletes the timers that are waiting; one that is still in a functor of the loop's queue is leaked. The destructor is
  not an action.
* Times are of `system_clock`, the timerfd's of `CLOCK_MONOTONIC`: the model has one clock, nobody sets it.
* `send(const void *, size_t)` and `send(string_view)` from another thread keep the caller's pointer until the functor runs
  (`tcp_conn.cpp:267`). `TcpConnStream` posts the bytes: its users leave that memory alone.
* `high_water_mark_callback_` is called without a test for an empty function (`tcp_conn.cpp:129`). `TcpConnStream` has users that set it.
* `EventLoopThreadPool` has at least one thread: without threads `start` calls the callback on the base loop and nothing runs at the same time.
* `ThreadPool` has no `init_task_`, no task that throws or that calls `stop()` (which would join itself), is stopped once, and
  `set_max_queue_size` is called before `start`.

## 4. Proofs

`EventLoopProofs` proves for every set `Threads` and `Functors` (the only assumption is that
`NoFunctor` is not a functor):

* `TypeCorrect`: `Spec => []TypeOK`.
* `WakeupNeverLost`: `Spec => []NoLostWakeup`.
* `FunctorsInOrder`: `Spec => []FunctorOrder`.
* `LoopInvariant`: `Spec => []LoopInv`, all parts together.
* `LoopIsExecutor`: `Spec => ImplementsExecutor`, that is, `EventLoop` implements `Executor` under
  `abstractPending` and `abstractDone`.

`NoLostWakeup` is not inductive alone. Whether the owner writes the eventfd depends on
`run_queue_functors_`, so the proof needs `RunFlagMatchesLoop`: the flag is set exactly inside
`do_queued_functors`. Then every append happens either before a swap that is still ahead in this round, or with
a write done or about to be done; and the only step that clears the eventfd, `HandleWakeup`, happens
where a swap is ahead. `FunctorOrder` needs `BatchIsLocal` (the batch is empty outside `do_queued_functors`, so that the swap loses
nothing) and `PostingMatches` (a thread in `emplace` holds a functor), and facts about concatenation from
`SequenceTheorems`. The refinement maps each `emplace_back` to `Post`, `CallFunctor` to `Run`, the first
overlap of the critical sections to `Break`, and everything else to a stutter.

`TcpServerThreadProofs` and `TcpServerProofs` prove about `TcpServer` with its connections, for any finite set of connections, any loops, threads, calls of callbacks, bounds
on queues and sizes of the poll's list. What it assumes of the constants (`ConfigAssumption`) is what the code makes: the loops of the pool are different from
each other and from the base loop, and no user's thread is one of them. The proof goes in four steps, each on the invariant of the one before: the first two, which hold
however the server is used or nearly so, are in `TcpServerThreadProofs`, the others in `TcpServerProofs`.

1. *Which thread runs what.* `ThreadsInv` types the state and says, for each thread, what its stack may hold: the functions of a connection that assert their
   thread only on the stack and in the queue of the connection's own loop, those that belong to the server only on the base loop, and on other threads only the
   outer halves of `send`, `shutdown`, `force_close`, `start_read` and `stop_read`. From it `TypeCorrect` and `RunsInLoopThread`: `Spec => []InLoopThread`,
   whatever the users call. `InLoopThread` is not inductive: it says nothing of a functor until that is run.
2. *What is down stays down.* If nobody closes a connection from another thread (`ClosesOnOwnThread`), the second half of a `shutdown()` or
   `force_close()` finds the connection as the test left it, because both are next to each other at the top of one stack; a call that removes a connection is about one that is
   DISCONNECTED; the map holds all the others (`SettledInv`). From it `StaysDisconnected` (`Spec => DisconnectedIsFinal`) and `MapIsSound` (`Spec => []ServerInv`).
   Without the assumption both are false: that is the run `server_thread_close`.
3. *No assertion fails*, if the server is used well (`WellUsed`): `NeverAborts` (`Spec => []NothingAborts`) and `LeavesThePoller`
   (`Spec => []DestroyedIsUnregistered`). The invariant, `SoundInv`, is about what is *ahead* of each loop, its stack, the rest of the batch and its queue in a row: of a connection
   exactly one thing is ahead that carries its life on (`connect_established`; then nothing, while the channel is registered; the report to the server, the erasure, `connect_destroyed`, `remove`),
   at most once, in this order and before whatever still needs the connection; and what is not in the map and not kept is held by a functor that
   is ahead. A functor that captured `this`, and a channel in the list that is being handled, always find somebody who holds their connection.
   When the thread of a loop is over, its functors are gone and nothing is claimed of its connections.
   Callbacks for the output have an invariant of their own, `NoticeInv`, because nothing of a connection's life waits for them: of a connection with one in the batch or the queue, either
   the user keeps it (`KeptInv`), or it is in the map, or its `connect_destroyed`, whose functor holds it, is behind *all* of them (`NoticesInv`). The last holds on the loops of a pool
   because `remove_connection` comes from the base loop and appends it; such a functor is queued only for a connection that is open, so none comes later.
   `SoundInv` and `NoticeInv` need each other and are proved as one, `ServerSound`.
4. *The promise to the user.* `LifecycleKept`: a server that is used well and not destroyed implements `ConnLifecycle` (`Spec => ImplementsLifecycle`). The
   log of what the user heard tells the stage of the connection (`LogInv`), no loop ends (`NoQuit`), and so nothing is destroyed that is not down (`EndsDown`).

`WellUsed` is not there to ease the proof: each conjunct excludes a program that makes an assertion fail or uses a connection that is gone, and sections 3 and 5 say which.
Other threads and callbacks of other connections close nothing (the test-then-set of `shutdown()`; `eventloop.cpp:200`). A program that stops reading neither sends nor
forces a close (`tcp_conn.cpp:69`) and starts it again only on a connection that `is_connected()`. If the server is destroyed, callbacks close nothing (`channel.cpp:105`). What is called
from elsewhere is called on a connection that stays kept. With callbacks for the output, every connection stays kept, or the server lives on and serves on the
loops of a pool (`tcp_conn.cpp:104`). The poll's list never fills (`poller.cpp:52`). The runs `server_single`, `server_pool` and `server_dies` are such uses,
and TLC checked `SoundInv` on them, and on variants of their constants, before it was proved. `LifecycleKept` needs `~ServerDies` because `connect_destroyed`
may be queued on a loop that has decided to return.

`TimerQueueProofs` proves for every set of addresses, delays and intervals and for every bound
(`TimerAssumption` says only that they are numbers of the right kind):

* `TypeCorrect`: `Spec => []TypeOK`.
* `EveryTimerOwned`: `Spec => []TimersOwned`. `handle_read` splits the waiting timers and `reset` joins them again, so it needs that outside a round `expired` and
  `todo` are empty, and that no functor posts a Timer twice (`Owned`).
* `NoneLost`: `Spec => []NoTimerLost`. The invariant `Kept` adds that a timer of the round that has run and does not repeat is in `over`,
  and that what `cancel_timers_` holds was cancelled; then what `reset` deletes is exactly what was cancelled or is at its end.
* `CancelsAreFinal`: `~SharesIds => (Spec => []CancelIsFinal)`. The assumption is needed (section 5). The invariant `Final` has sequence
  numbers that do not come twice, cancels that are queued behind their adds, and that a timer cancelled during its round is in `cancel_timers_` until `reset`.
* `EarliestIsArmed`: `Near => (Spec => []ArmedForEarliest)`, where `Near` says that no delay or interval leaves the range of an `int`
  in microseconds, which is needed too. `reset_timerfd` is then never told a negative time, and everything in the heap stays within that range.

`ServerPartsProofs` is about the two parts of a server that know of no connections. (It extends both their modules, which is why the specification of `Acceptor`
is named `AcceptorSpec`.) Of `Acceptor` it proves for any number of descriptors and peers `AcceptorTypeCorrect` (`AcceptorSpec => []AcceptorTypeOK`) and
`EveryDescriptorOwned` (`AcceptorSpec => []DescriptorsOwned`).
The equation of the descriptors is inductive with the types; that the spare one is back after `handle_read` needs `Spare`, which says for each step of
`handle_read` what `idle_fd_` can be: up to `CloseIdle` it is open, or lost and `taken` set; from there to `OpenIdle` it is not, and some descriptor is free or `taken` set.

Of `EventLoopThreadPool` it proves `NothingDangles`: `Spec => []LoopsOutlive`, for any number of threads and any `Quitters`. `PoolInv` relates the owner's place to the places of the
threads: those that `start` has passed have published their loop and are in it unless they quit, nobody else has told them to, and those that
the destructor has passed are done. `LoopsOutlive` makes the exception of `left`: of a loop that a callback made quit nothing is claimed, neither that it exists nor that the mutex
of its thread outlives the thread's use of it (section 5).

`TcpClientProofs` is about `TcpClient` with its Connector and its connections, for any set of descriptors, any other threads that call `disconnect()`, and any peers and callbacks. It has two
invariants, the second on the first.

1. *What each thread may have to do.* `ClientThreads` types the stacks, the functors and the fields. It holds only together with two facts about control. `OneReset`: the functor that
   destroys the Connector's Channel is ahead of the loop at most once, and while it is, the Channel is there and no attempt is under way. `LockInv`: a thread of the user is outside
   `disconnect()`, before its lock, or holds `mutex_` and works on the connection that the client holds. From it `TypeCorrect` (`Spec => []TypeOK`) and
   `LockKeepsConnection` (`Spec => []CallersHold`), which need no assumption on the user.
2. *One attempt at a time.* `OneAttemptAtATime`: `Spec => []ClientInv`, if nobody calls `connect()` after the first time (`"connect" \notin ClientOps`). `ClientInv` counts what there is
   now; `Chain` says also what is going to be. `Exclusive` says of a timer, an attempt, an attempt about to begin, and a connection, that they exclude each other, where a connection counts from the
   call that will install it until its `remove_connection` has run, not only while it is open. `Orderly`: what begins, installs or closes is on the stack once, and the second half of a call that closes is on top of it, about a
   connection that is still up. `Held`: a connection about to be installed is new, and the client holds none that is over unless its removal is ahead. `Wished`:
   while `connected_` is set, nobody is inside `disconnect()`, and a connection that is to be removed stays down. The last is what `restart()` needs: it is called only
   when `connected_` is set, and begins an attempt, so at that moment no other thread may have the old connection closed once more.
   A second `connect()` is excluded because the property is false with it (section 5, `connector.cpp:57` and the item behind it).
   TLC checked `Chain` on `client` and on variants with more callbacks, peers and errors before it was proved, the largest of them only in part.

`PipelineProofs` proves about `ThreadPool`, for any workers, callers, programs and bound:

* `PoolIsExecutor`: `Spec => ImplementsExecutor`. `RunAppends` is `Post`, `TakeTask` is `Run`, all else stutters.
* `NobodyStranded`: `Spec => []NoSleeperBesideWork`. `CalmInv` counts as above for both conditions at once (a worker that takes a task makes room
  and wakes a `run()`), and needs that after the owner's notifications `run_flag_` stays unset, so that nobody goes to sleep any more.

About `BlockingQueue` it proves that `ResultsInv`, the types of the queue of results with `NoSleeperBesideElement`, holds at first (`ResultsQuiet`) and is kept by every step of the queue, whoever takes
it (`ResultsKept`), for finitely many threads. Here too the invariant counts, and the proof is arithmetic about the cardinalities of finite sets: a push adds an element and a thread in
`notifying`; a notification moves one from `notifying` to `awake`; `PopTakes` takes an element and at most one thread; `PopWaits` and `drain` leave none.

Last, `Pipeline` implements both its parts (`PipelineImplements`), from which `NoTaskStranded` and `NoResultStranded` follow
by what is proved about the parts.

`TcpConnStreamProofs` begins with `Buffer`, for every buffer and all sizes; these are facts about operators, not about a state machine:

* `RoomIsMade`: `check_writable_bytes(len)` gives a buffer again, with room for `len`, with the same readable bytes, and the assertion before the
  move (`buffer.cpp:346`) holds, also when `prepend()` has used the room in front: where it has, the sum of the room is too small to decide for moving.
* `AppendedInOrder`, `PrependedInOrder`, `PoppedInOrder`, `ShrunkInOrder`: `append` leaves what was readable with the data behind it, `prepend` with the data
  in front, a pop takes that many bytes off the front, and `shrink` changes nothing that is read.
* `ReadInOrder`: `append_from_fd` leaves what was readable with the data behind it, whether it needs the array on the stack or not.
* `IntIsReadBack`: `peek_int` returns the int that `append_int` or `prepend_int` of the same width wrote, negative or not, for any width and any size of a byte.
* `FramedInOrder`: the message that a user makes with `append`, `prepend_int` and a pop of everything.

They rest on `Overlay`, what `copy_n` does to a vector cell by cell, and `ReadBehind`, `ReadBack`, `ReadBefore`, what is read afterwards.

Then it proves about `TcpConnStream`, for any input, program, water mark and sizes:

* `StreamInvariant`: `Spec => []StreamInv`. The buffers stay buffers, writing is enabled exactly while bytes wait, the stream has ended only when none do, and what is owed to the user
  is known.
* `CallbacksCome`: `Spec => []CallbacksTold`, a part of it.
* `ConnectionIsStream`: `Spec => ImplementsStream`. `HandleWrite` and a `send()` deliver and take bytes at once, which `ByteStream` allows; `ShutdownWrite` closes, `TakeDown` takes
  down, all else stutters. It needs that `fin` is set only when nothing waits.
* `NothingChanged`: `Spec => []BytesIntact`, and `NothingLost`: `Spec => []NoneLostWhileOpen`.

The last two have an invariant of their own, `IntactInv`, which TLC checked on `stream` first. `BytesIntact` says that *some* number of bytes was taken out of
`input_buffer_` and that the payloads of these are `received`. Payloads are read off frame by frame from the start, so one step more can be added only if what was taken
so far ends where a frame ends: `Whole`, for the input that was taken and for the answers that were accepted. An answer that is not accepted is excused because the connection is not
CONNECTED or is reset, never because the stream has ended: so the proof needs that nobody ends it, and no `shutdown_in_loop` is queued, while the connection is CONNECTED (`StaysOpen`).

`Payloads`, `FlattenSeq` and the powers are recursive functions. The induction theorems of the library cannot be used, but what they say of one set can be proved: `LeastElement` is `WFMin`
for the natural numbers, `Induction` and `Recursion` (a function that satisfies a recursive equation exists, and is the one that is defined) follow from it for a set given as a constant, and
each use names its set. This is also why `Power`, `Payloads`, `Of` and `Queued` are written as they are.

Writing this proof showed one thing about the model: the user must not take a frame whose length is read as a negative int. `FrameReady` says so, as the code of a user has to.

Only model-checked: liveness, which TLAPS does not reach because of fairness and `ENABLED` (`PromptRun`, `PromptQuit`, `EventualRun`, `EventualQuit`, `StartLoopReturns`,
`DestructorReturns`, `BacklogDrains`, `ClosedIsDestroyed`, `ShutdownCompletes`, `KeepsTrying`, `EveryTimerFires`, `EveryTaskRuns`, `StopReturns`); and
of `TcpClient` its `NothingAborts` and `ImplementsReconnector`. `NothingAborts` needs for the client what `SoundInv` is for the server, what is ahead of the loop of each connection,
with the difference that descriptors come back, so that what is said of a life has to be said of an attempt. The refinement needs that and how the log tells the stage of a connection.

## 5. Disagreements between the code and what it says

Each is a run that expects a violation; `PROJECT.json` has the quotation.

1. `eventloop.cpp:137` says the swap is locked against other threads that insert; it locks
   `mtx_`, they lock `mutex_` (`loop_race`).
2. `tcp_server.cpp:179`: `force_close()` from another thread can bring a connection
   back from DISCONNECTED and have it removed twice (`server_thread_close`).

The same models show these when a constant is changed; no run keeps them:

* `tcp_conn.cpp:69`: a connection whose channel does not read is closed twice in one dispatch
  when its peer resets it. `server_pool` with one connection, no threads, `OwnOps <- PauseOps`, `PeerDoes <- AllPeers`.
* `tcp_conn.cpp:104`, 128: the functor of a callback for the output captured `this`. A write complete callback sends again, which queues another one; in the next round the
  peer's end of stream is read, and close, erasure and `connect_destroyed` run in one dispatch and free the connection before the functor runs.
  `server_single` with `TellsOutput = TRUE`; on a server that is destroyed, `server_dies` with `OwnOps <- SendOnly`, `PeerDoes <- PlainPeers` and `TellsOutput = TRUE`.
* `eventloop.cpp:200`: on a server with one loop, a callback that force-closes another connection
  removes a channel that is still to be handled. `server_pool` with `loops_ <- NoLoops`, `PeerOps <- ForceClose`.
* `channel.cpp:105`: destroying the server while a connection is DISCONNECTING removes a channel that still has events, because
  `connect_destroyed` disables a CONNECTED one only. `server_dies` with `OwnOps <- CloseOps`.
* `poller.cpp:52`: the list of events grows only after it was full, which the assertion forbids: sixteen ready channels at once fail it.
  `server_single` with `EventListSize = 2`.
* `connector.cpp:57`: `connect()` on a client without retries whose connection has ended finds the Connector still
  CONNECTED. `client` with `retry_ = FALSE`, `ClientOps <- Connect`, `PeerDoes <- Finishing`.
* `tcp_client.cpp:111`: `connect()` in the DOWN callback begins an attempt while another thread is still inside `disconnect()`, whose `shutdown()`
  has tested the old connection and now sets it to DISCONNECTING again: there are both (`ClientInv`). `client` with `ClientOps <- Connect`.
* `connector.cpp:110`: `force_close()` in the UP callback starts the next attempt before the functor that destroys the Channel of
  the last one has run. `client` with `force_close` among `OwnOps` and `ClosesIn = {"UP"}`.
* Destroying the client while it has no connection, or after `stop()`: a functor or a timer uses a Connector that is gone. `client` with `DestroysQuietly = FALSE`.
* `sys_timerfd.cpp:24`: `timers` with `IntRange = 4`: a delay of two ticks, standing for more than 2^31 microseconds, becomes
  negative and the timerfd is not set (`ArmedForEarliest`), against `timer_queue.cpp:145` ("if it is the earliest, the timerfd's
  expiration has to be adjusted").
* `timers` with `SharesIds = TRUE`: a cancel overtakes its add (`CancelIsFinal`).

And these are in the models, where a property makes an exception for them:

* A `send()` of another thread that came before a `shutdown()` can be lost: the loop ends the stream as soon as `output_buffer_` is drained
  in DISCONNECTING, and the functor of a `Buffer` tests `state_` again (`tcp_conn.cpp:57`, 286, 304; `NoneLostWhileOpen`).
* `force_close_with_delay` makes a weak callback and never calls it: the connection stays DISCONNECTING (`tcp_conn.cpp:333`; `ForceCloseWithDelay`).
* `start` moves the init callback into the first thread; the others get an empty one (`eventloop_therad_pool.cpp:45`; `StartThread`).
* A loop that quits in its init callback may set `loop_` to null before `start_loop` looks: it waits for ever (`StartLoopReturns`). One that quits later
  leaves a dangling pointer in the pool (`LoopsOutlive`).
* The destructor of a thread whose loop quit by itself may find `loop_` null while that thread still has the mutex locked, and destroys the mutex before it is unlocked
  (`eventloop_thread.cpp:37`, 71; `LoopsOutlive`); with the mutex of libstdc++ this goes well, because the `jthread` is joined before the memory is given back. Or the loop returns between its two
  looks: then it calls `quit()` through null or on a loop that is gone (line 38; `DestructorReturns`).
* `stop()` of a pool leaves accepted tasks in the queue, never run. Tasks that call `run()` on a full queue from every worker block the pool
  (`EveryTaskRuns`).
* `errno` is read after `LOG_ERROR`; if it was changed, `handle_read` does nothing about the full table and is called again at once. If another thread takes the
  spare descriptor's place, the backlog stays (`BacklogDrains`). `accept()` in a process without memory or files aborts it (`sys_socket.cpp:98-108`).

## 6. Not modelled, and the plan

Left out of modelled components: the destructors of `EventLoop` and `TimerQueue`; `TcpClient::connection()`, `connect()` and `stop()` on other threads,
and destruction there; what section 3 lists for `ThreadPool`.

Not modelled: `Socket`, `InetAddr` and most of `sys_socket` wrap a system call or an address and have no state, so nothing can go wrong in them in
several steps; logging, `WeakCallback` and `Singleton` likewise; the test programs were read for how the library is used.

Next, in this order:

1. Proofs about `TcpClient`: on `Chain`, what is ahead of each loop (`NothingAborts`), then `ImplementsReconnector`.
2. `TcpClient` with `connect()` and `stop()` on other threads, and the programs for which they work.
