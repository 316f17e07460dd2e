------------------------------ MODULE TcpConn ------------------------------
(***************************************************************************)
(* TcpConn (net/src/tcp_conn.cpp) on the loops that run it: the dispatch of  *)
(* channel.cpp and the rounds of eventloop.cpp.  TcpServer.tla and           *)
(* TcpClient.tla say who creates a connection and who is told that it        *)
(* closed; here is what both have in common.                                 *)
(*                                                                         *)
(* A loop alternates the channels that its poll reported with the functors  *)
(* that were queued when it swapped its queue.  What a thread is executing  *)
(* is a stack of calls, the innermost first: run_in_loop on the loop's own   *)
(* thread is a call made at once, on another thread an element of the        *)
(* loop's queue (in the order of posting: Executor.tla, EventLoop.tla).      *)
(*                                                                         *)
(* A connection lives while a shared_ptr holds it: its server or client, the *)
(* user, a functor that captured one, or a call under way.  Functors that     *)
(* captured the raw 'this' do not keep it.                                  *)
(***************************************************************************)
EXTENDS Integers, Sequences, SequencesExt, Channel

CONSTANTS
  Conns,        \* the connections, one TcpConn each, named by their descriptors
  Base,         \* the loop of the server or client
  loops_,       \* the IO loops of the EventLoopThreadPool, a sequence without
                \* repetition; <<>> when there are none
  Users,        \* the user's threads that have no loop
  OwnOps,       \* what callbacks call on the connection they are given
  PeerOps,      \* what callbacks call on another connection they kept
  PeerDoes,     \* what the peers do: "sends", "finishes" (FIN), "resets" (RST)
  ThreadOps,    \* what Users call on connections they kept
  KeepsRefs,    \* the user stores the TcpConnPtr it is given
  DropsRefs,    \* and may drop it again
  ChecksConnected, \* callbacks call start_read() and stop_read() only on a connection
                   \* that is_connected()
  TellsOutput,  \* the user has set the write complete and high water mark callbacks
  EventListSize,   \* INIT_EVENT_LIST_SIZE of the Poller, 16 in the code
  MaxCallbackOps,  \* bound: calls in one callback
  MaxQueue         \* bound: calls from other threads waiting in a queue

Ops == {"send", "shutdown", "force_close", "start_read", "stop_read"}

IoLoops  == {loops_[i] : i \in 1..Len(loops_)}
AllLoops == {Base} \cup IoLoops

ASSUME ConfigAssumption ==
  /\ OwnOps \subseteq Ops /\ PeerOps \subseteq Ops /\ ThreadOps \subseteq Ops
  /\ MaxCallbackOps \in Nat /\ MaxQueue \in Nat /\ EventListSize \in Nat
  /\ IsFiniteSet(Conns)
  /\ loops_ \in Seq(IoLoops) /\ Base \notin IoLoops
  /\ \A i, j \in 1..Len(loops_) : loops_[i] = loops_[j] => i = j
  /\ Users \cap AllLoops = {}

VARIABLES
  conn,          \* per connection: state_, its loop, its channel, and whether its
                 \* output_buffer_ holds bytes
  socket,        \* per connection, in the kernel: unread data, what the peer did,
                 \* and whether our side was shut down
  connections_,  \* those that the server's map, or the client's connection_, holds
  kept,          \* the connections whose TcpConnPtr the user stores
  phase,         \* per loop: "poll", "events", "functors" or "exited"
  active_channels_, current,   \* per loop: what the poll reported, and how far
  queue_functors_, functors, running,  \* per loop: the queue, the batch, how far
  quit_flag_,    \* per loop
  calls,         \* per thread: the calls under way, innermost first
  log,           \* history, per connection: the user's callbacks, messages in a row once
  aborted        \* the assertion that failed, or "no"

loopVars   == <<phase, active_channels_, current, functors, running, quit_flag_>>
connVars == <<conn, socket, connections_, kept, loopVars, queue_functors_, calls, log,
              aborted>>

-----------------------------------------------------------------------------
Threads == AllLoops \cup Users

Call(fn, c) == [fn |-> fn, c |-> c]

\* Functors that captured the shared_ptr, and those that captured 'this'.
Owning == {"connect_established", "connect_destroyed", "remove_connection_in_loop"}
Raw    == {"send_in_loop", "shutdown_in_loop", "force_close_in_loop",
           "start_read_in_loop", "stop_read_in_loop", "output_callback"}

Captured(s, c) == \E i \in 1..Len(s) : s[i].fn \in Owning /\ s[i].c = c

Created(c) == conn[c].state # "none"

\* Some shared_ptr holds the connection.
Alive(c) ==
  /\ Created(c)
  /\ \/ c \in connections_ \/ c \in kept
     \/ \E l \in AllLoops : Captured(queue_functors_[l], c) \/ Captured(functors[l], c)
     \/ \E x \in Threads : \E i \in 1..Len(calls[x]) : calls[x][i].c = c

\* The innermost call of thread x is fn on c.
Executing(x, fn, c) == calls[x] # <<>> /\ Head(calls[x]) = Call(fn, c)

\* The innermost call returns after making the calls 'more'.
Return(x, more) == /\ calls' = [calls EXCEPT ![x] = more \o Tail(@)]
                   /\ UNCHANGED queue_functors_

\* The same, after loop->queue_in_loop(functor) on the loop's own thread.
ReturnQueueing(x, more, functor) ==
  /\ calls' = [calls EXCEPT ![x] = more \o Tail(@)]
  /\ queue_functors_' = [queue_functors_ EXCEPT ![x] = Append(@, functor)]

\* The innermost call returns after loop->run_in_loop(functor).
RunInLoop(x, l, functor) ==
  IF x = l
  THEN Return(x, <<functor>>)
  ELSE /\ calls' = [calls EXCEPT ![x] = Tail(@)]
       /\ queue_functors_' = [queue_functors_ EXCEPT ![l] = Append(@, functor)]

\* The user's callback for c: it may make MaxCallbackOps calls.
UserCallback(c) == [i \in 1..MaxCallbackOps |-> Call("user", c)]

Logged(c, what) ==
  log' = IF what = "MESSAGE" /\ log[c] # <<>> /\ Last(log[c]) = what THEN log
         ELSE [log EXCEPT ![c] = Append(@, what)]

\* An assertion of the code fails and the process is gone.
Abort(where) ==
  /\ aborted' = where
  /\ UNCHANGED <<conn, socket, connections_, kept, loopVars, queue_functors_, calls, log>>

\* is_connected().
IsConnected(c) == conn[c].state = "CONNECTED"

Open(c) == conn[c].state \in {"CONNECTED", "DISCONNECTING"}

NewConn  == [state |-> "none", loop |-> Base, channel |-> NewChannel, output |-> FALSE]
NewSocket == [data |-> FALSE, peer |-> "open", shut |-> FALSE]

ConnInit ==
  /\ conn = [c \in Conns |-> NewConn]
  /\ socket = [c \in Conns |-> NewSocket]
  /\ connections_ = {}
  /\ kept = {}
  /\ phase = [l \in AllLoops |-> "poll"]
  /\ active_channels_ = [l \in AllLoops |-> <<>>]
  /\ current = [l \in AllLoops |-> 0]
  /\ queue_functors_ = [l \in AllLoops |-> <<>>]
  /\ functors = [l \in AllLoops |-> <<>>]
  /\ running = [l \in AllLoops |-> 0]
  /\ quit_flag_ = [l \in AllLoops |-> FALSE]
  /\ log = [c \in Conns |-> <<>>]
  /\ aborted = "no"

-----------------------------------------------------------------------------
(* The loops.                                                               *)

Watched(l) == {c \in Conns : conn[c].loop = l /\ conn[c].channel.flag = "ADDED"}

\* What epoll reports for a watched connection; errors and hangups need no interest.
Reported(c, writable) ==
  LET s == socket[c]
      reset == s.peer \in {"reset", "reset_error"}
  IN     (IF IsReading(conn[c].channel) /\ (s.data \/ s.peer # "open") THEN {"IN"} ELSE {})
    \cup (IF reset \/ (s.peer = "fin" /\ s.shut) THEN {"HUP"} ELSE {})
    \cup (IF s.peer = "reset_error" THEN {"ERR"} ELSE {})
    \cup (IF IsWriting(conn[c].channel) /\ (writable \/ reset) THEN {"OUT"} ELSE {})

Idle(x) == calls[x] = <<>>

\* poll() returns with every ready channel, in any order, because something is
\* ready or because of a wakeup; 'others' are those that are not connections.
\* fill_active_channels asserts that the list of events is not full, so that it
\* never comes to grow.
Poll(l, others) ==
  /\ phase[l] = "poll" /\ Idle(l)
  /\ \E writable \in SUBSET Watched(l) :
       LET ready == others \cup
                    {e \in {[c |-> c, events |-> Reported(c, c \in writable)] :
                             c \in Watched(l)} : e.events # {}}
       IN /\ ready # {} \/ queue_functors_[l] # <<>> \/ quit_flag_[l]
          /\ IF Cardinality(ready) >= EventListSize
             THEN Abort("fill_active_channels")
             ELSE /\ \E list \in SetToSeqs(ready) :
                       active_channels_' = [active_channels_ EXCEPT ![l] = list]
                  /\ phase' = [phase EXCEPT ![l] = "events"]
                  /\ current' = [current EXCEPT ![l] = 0]
                  /\ UNCHANGED <<conn, socket, connections_, kept, queue_functors_,
                                 functors, running, quit_flag_, calls, log, aborted>>

Handling(l) == phase[l] = "events" /\ Idle(l) /\ current[l] < Len(active_channels_[l])

NextActive(l) == active_channels_[l][current[l] + 1]

\* The loop calls the handlers of the next active channel.
Dispatches(l, handlers) ==
  /\ current' = [current EXCEPT ![l] = @ + 1]
  /\ calls' = [calls EXCEPT ![l] = handlers]
  /\ UNCHANGED <<conn, socket, connections_, kept, phase, active_channels_,
                 queue_functors_, functors, running, quit_flag_, log, aborted>>

\* handle_event of a connection.  Channel::tie makes the call hold the connection,
\* but the list holds the bare Channel.
HandleEvent(l) ==
  /\ Handling(l) /\ NextActive(l).c \in Conns
  /\ LET e == NextActive(l)
         handlers == Dispatch(e.events)
     IN IF ~Alive(e.c)
        THEN Abort("use_after_free")
        ELSE Dispatches(l, [i \in 1..Len(handlers) |-> Call(handlers[i], e.c)])

\* do_queued_functors takes what is queued; the lambdas live until the batch ends.
SwapQueue(l) ==
  /\ phase[l] = "events" /\ Idle(l)
  /\ current[l] = Len(active_channels_[l])
  /\ phase' = [phase EXCEPT ![l] = "functors"]
  /\ active_channels_' = [active_channels_ EXCEPT ![l] = <<>>]
  /\ current' = [current EXCEPT ![l] = 0]
  /\ functors' = [functors EXCEPT ![l] = queue_functors_[l]]
  /\ queue_functors_' = [queue_functors_ EXCEPT ![l] = <<>>]
  /\ UNCHANGED <<conn, socket, connections_, kept, running, quit_flag_, calls, log,
                 aborted>>

RunFunctor(l) ==
  /\ phase[l] = "functors" /\ Idle(l)
  /\ running[l] < Len(functors[l])
  /\ LET f == functors[l][running[l] + 1]
     IN IF f.c \in Conns /\ ~Alive(f.c)
        THEN Abort("use_after_free")
        ELSE /\ running' = [running EXCEPT ![l] = @ + 1]
             /\ calls' = [calls EXCEPT ![l] = <<f>>]
             /\ UNCHANGED <<conn, socket, connections_, kept, phase,
                            active_channels_, current, queue_functors_, functors,
                            quit_flag_, log, aborted>>

\* The batch is destroyed and quit_flag_ checked.  When the loop of an IO thread
\* returns, the loop and its queue are destroyed with it.
FunctorsDone(l) ==
  /\ phase[l] = "functors" /\ Idle(l)
  /\ running[l] = Len(functors[l])
  /\ functors' = [functors EXCEPT ![l] = <<>>]
  /\ running' = [running EXCEPT ![l] = 0]
  /\ phase' = [phase EXCEPT ![l] = IF quit_flag_[l] THEN "exited" ELSE "poll"]
  /\ queue_functors_' = IF quit_flag_[l] /\ l # Base
                        THEN [queue_functors_ EXCEPT ![l] = <<>>] ELSE queue_functors_
  /\ UNCHANGED <<conn, socket, connections_, kept, active_channels_, current,
                 quit_flag_, calls, log, aborted>>

-----------------------------------------------------------------------------
(* TcpConn, one action per function.  In each, x is the thread and the call   *)
(* under way is its innermost.                                               *)

ConnectEstablished(x, c) ==
  /\ Executing(x, "connect_established", c)
  /\ IF conn[c].state # "CONNECTING"
     THEN Abort("connect_established")
     ELSE /\ conn' = [conn EXCEPT ![c].state = "CONNECTED",
                                  ![c].channel = Enable(@, "read")]
          /\ Logged(c, "UP")
          /\ kept' = IF KeepsRefs THEN kept \cup {c} ELSE kept
          /\ Return(x, UserCallback(c))
          /\ UNCHANGED <<socket, connections_, loopVars, aborted>>

\* The socket after a call that returned its pending error, if it had one.
ErrorTaken(c) == [socket EXCEPT ![c].peer = IF @ = "reset_error" THEN "reset" ELSE @]

\* Bytes, an error, or the end of the stream.
HandleRead(x, c) ==
  /\ Executing(x, "handle_read", c)
  /\ \/ /\ socket[c].data
        /\ socket' = [socket EXCEPT ![c].data = FALSE]
        /\ Logged(c, "MESSAGE")
        /\ Return(x, UserCallback(c))
     \/ /\ ~socket[c].data /\ socket[c].peer \in {"open", "reset_error"}
        /\ socket' = ErrorTaken(c)
        /\ Return(x, <<>>)
        /\ UNCHANGED log
     \/ /\ ~socket[c].data /\ socket[c].peer \in {"fin", "reset"}
        /\ Return(x, <<Call("handle_close", c)>>)
        /\ UNCHANGED <<socket, log>>
  /\ UNCHANGED <<conn, connections_, kept, loopVars, aborted>>

\* getsockopt(SO_ERROR) clears the error.
HandleError(x, c) ==
  /\ Executing(x, "handle_error", c)
  /\ socket' = ErrorTaken(c)
  /\ Return(x, <<>>)
  /\ UNCHANGED <<conn, connections_, kept, loopVars, log, aborted>>

\* write() takes all of the output, or a part or nothing, or fails.  When the output is
\* drained, write_complete_callback_ is called at once.
HandleWrite(x, c) ==
  /\ Executing(x, "handle_write", c)
  /\ \/ /\ IsWriting(conn[c].channel) /\ socket[c].peer \in {"open", "fin"}
        /\ conn' = [conn EXCEPT ![c].output = FALSE,
                                ![c].channel = Disable(@, "write")]
        /\ Return(x, Append(IF TellsOutput THEN UserCallback(c) ELSE <<>>,
                            Call("handle_written", c)))
        /\ UNCHANGED socket
     \/ /\ Return(x, <<>>)
        /\ socket' = IF IsWriting(conn[c].channel) THEN ErrorTaken(c) ELSE socket
        /\ UNCHANGED conn
  /\ UNCHANGED <<connections_, kept, loopVars, log, aborted>>

\* The end of handle_write, once the output is drained and the user was told.
HandleWritten(x, c) ==
  /\ Executing(x, "handle_written", c)
  /\ Return(x, IF conn[c].state = "DISCONNECTING"
               THEN <<Call("shutdown_in_loop", c)>> ELSE <<>>)
  /\ UNCHANGED <<conn, socket, connections_, kept, loopVars, log, aborted>>

\* Mutant: the channel stays enabled.
TakeDownEnabled(c) == /\ conn' = [conn EXCEPT ![c].state = "DISCONNECTED"]
                      /\ Logged(c, "DOWN")

\* Mutant: the user is not told.
TakeDownSilently(c) ==
  /\ conn' = [conn EXCEPT ![c].state = "DISCONNECTED", ![c].channel = DisableAll(@)]
  /\ UNCHANGED log

\* What handle_close and connect_destroyed do alike: DISCONNECTED, disable_all, and
\* the connection callback.
TakeDown(c) ==
  /\ conn' = [conn EXCEPT ![c].state = "DISCONNECTED", ![c].channel = DisableAll(@)]
  /\ Logged(c, "DOWN")

HandleClose(x, c) ==
  /\ Executing(x, "handle_close", c)
  /\ IF ~Open(c)
     THEN Abort("handle_close")
     ELSE /\ TakeDown(c)
          /\ Return(x, Append(UserCallback(c), Call("remove_connection", c)))
          /\ UNCHANGED <<socket, connections_, kept, loopVars, aborted>>

\* Only a connection that is still CONNECTED is taken down here.
ConnectDestroyed(x, c) ==
  /\ Executing(x, "connect_destroyed", c)
  /\ IF conn[c].state = "CONNECTED"
     THEN /\ TakeDown(c)
          /\ Return(x, Append(UserCallback(c), Call("remove", c)))
     ELSE Return(x, <<Call("remove", c)>>) /\ UNCHANGED <<conn, log>>
  /\ UNCHANGED <<socket, connections_, kept, loopVars, aborted>>

\* The assertions of EventLoop::remove_channel: while events are handled, only the
\* channel being handled or one outside the list of active channels may go.  They
\* compare addresses; here a Channel at the address of one that is gone is another.
MayRemove(l, c) ==
  phase[l] = "events" =>
    \/ \A i \in 1..Len(active_channels_[l]) : active_channels_[l][i].c # c
    \/ current[l] > 0 /\ active_channels_[l][current[l]].c = c

\* Channel::remove.
RemoveChannel(x, c) ==
  /\ Executing(x, "remove", c)
  /\ IF ~Removable(conn[c].channel) THEN Abort("remove")
     ELSE IF ~MayRemove(x, c) THEN Abort("remove_channel")
     ELSE /\ conn' = [conn EXCEPT ![c].channel = Removed(@)]
          /\ Return(x, <<>>)
          /\ UNCHANGED <<socket, connections_, kept, loopVars, log, aborted>>

\* What send_in_loop does last: it queues write_complete_callback_ or
\* high_water_mark_callback_.
TellOutput(c) == IF TellsOutput THEN <<Call("queue_output_callback", c)>> ELSE <<>>

\* Mutant: a DISCONNECTED connection may be written to.
SendWhenDisconnected(x, c) ==
  /\ Executing(x, "send_in_loop", c)
  /\ conn' = [conn EXCEPT ![c].output = TRUE, ![c].channel = Enable(@, "write")]
  /\ Return(x, <<>>)
  /\ UNCHANGED <<socket, connections_, kept, loopVars, log, aborted>>

\* The kernel takes bytes of c.
Writable(c) == socket[c].peer \in {"open", "fin"} /\ ~socket[c].shut

\* The bytes, or what a direct write left of them, are added to the output, which may
\* cross the high water mark; or the direct write takes all of them; or the connection
\* is down, or the direct write fails for good.
SendInLoop(x, c) ==
  /\ Executing(x, "send_in_loop", c)
  /\ \/ /\ conn[c].state # "DISCONNECTED" /\ (conn[c].output \/ Writable(c))
        /\ conn' = [conn EXCEPT ![c].output = TRUE,
                                ![c].channel = IF IsWriting(@) THEN @ ELSE Enable(@, "write")]
        /\ \E more \in {<<>>, TellOutput(c)} : Return(x, more)
        /\ UNCHANGED socket
     \/ /\ conn[c].state # "DISCONNECTED" /\ ~conn[c].output /\ Writable(c)
        /\ Return(x, TellOutput(c))
        /\ UNCHANGED <<conn, socket>>
     \/ /\ conn[c].state = "DISCONNECTED" \/ ~(conn[c].output \/ Writable(c))
        /\ socket' = IF conn[c].state = "DISCONNECTED" THEN socket ELSE ErrorTaken(c)
        /\ Return(x, <<>>)
        /\ UNCHANGED conn
  /\ UNCHANGED <<connections_, kept, loopVars, log, aborted>>

\* queue_in_loop of the callback, and the functor, which captured 'this'.
QueueOutputCallback(x, c) ==
  /\ Executing(x, "queue_output_callback", c)
  /\ ReturnQueueing(x, <<>>, Call("output_callback", c))
  /\ UNCHANGED <<conn, socket, connections_, kept, loopVars, log, aborted>>

OutputCallback(x, c) ==
  /\ Executing(x, "output_callback", c)
  /\ Return(x, UserCallback(c))
  /\ UNCHANGED <<conn, socket, connections_, kept, loopVars, log, aborted>>

ShutdownInLoop(x, c) ==
  /\ Executing(x, "shutdown_in_loop", c)
  /\ socket' = [socket EXCEPT ![c].shut = @ \/ ~IsWriting(conn[c].channel)]
  /\ Return(x, <<>>)
  /\ UNCHANGED <<conn, connections_, kept, loopVars, log, aborted>>

ForceCloseInLoop(x, c) ==
  /\ Executing(x, "force_close_in_loop", c)
  /\ Return(x, IF Open(c) THEN <<Call("handle_close", c)>> ELSE <<>>)
  /\ UNCHANGED <<conn, socket, connections_, kept, loopVars, log, aborted>>

\* reading_flag_ adds nothing to is_reading() in these two.
StartReadInLoop(x, c) ==
  /\ Executing(x, "start_read_in_loop", c)
  /\ conn' = IF IsReading(conn[c].channel) THEN conn
             ELSE [conn EXCEPT ![c].channel = Enable(@, "read")]
  /\ Return(x, <<>>)
  /\ UNCHANGED <<socket, connections_, kept, loopVars, log, aborted>>

StopReadInLoop(x, c) ==
  /\ Executing(x, "stop_read_in_loop", c)
  /\ conn' = IF IsReading(conn[c].channel)
             THEN [conn EXCEPT ![c].channel = Disable(@, "read")] ELSE conn
  /\ Return(x, <<>>)
  /\ UNCHANGED <<socket, connections_, kept, loopVars, log, aborted>>

-----------------------------------------------------------------------------
(* The user: callbacks, and threads without a loop.  send(), shutdown() and   *)
(* force_close() test state_ first and act on it in a second step.           *)

Waiting(l) == Len(queue_functors_[l]) >= MaxQueue

\* The callback for c calls op on c or on another connection the user keeps.  A send
\* may queue a callback, which may send: so it counts as a call that waits.
UserCalls(x, c, d, op) ==
  /\ Executing(x, "user", c)
  /\ (d = c /\ op \in OwnOps) \/ (d # c /\ d \in kept /\ op \in PeerOps)
  /\ ChecksConnected /\ op \in {"start_read", "stop_read"} => IsConnected(d)
  /\ (conn[d].loop = x /\ ~(op = "send" /\ TellsOutput)) \/ ~Waiting(conn[d].loop)
  /\ Return(x, <<Call(op, d)>>)
  /\ UNCHANGED <<conn, socket, connections_, kept, loopVars, log, aborted>>

UserReturns(x, c) ==
  /\ Executing(x, "user", c)
  /\ Return(x, <<>>)
  /\ UNCHANGED <<conn, socket, connections_, kept, loopVars, log, aborted>>

ThreadCalls(u, c, op) ==
  /\ Idle(u) /\ c \in kept /\ op \in ThreadOps
  /\ ~Waiting(conn[c].loop)
  /\ calls' = [calls EXCEPT ![u] = <<Call(op, c)>>]
  /\ UNCHANGED <<conn, socket, connections_, kept, loopVars, queue_functors_, log,
                 aborted>>

UserDrops(c) ==
  /\ DropsRefs /\ c \in kept
  /\ kept' = kept \ {c}
  /\ UNCHANGED <<conn, socket, connections_, loopVars, queue_functors_, calls, log,
                 aborted>>

\* Mutant: no test.
PassesAlways(op, c) == TRUE

\* The tests of send(), shutdown() and force_close().
Passes(op, c) == IF op = "force_close" THEN Open(c) ELSE IsConnected(c)

AfterTest == [send |-> "post_send", shutdown |-> "post_shutdown",
              force_close |-> "post_force_close"]

TestState(x, c) ==
  \E op \in DOMAIN AfterTest :
    /\ Executing(x, op, c)
    /\ Return(x, IF Passes(op, c) THEN <<Call(AfterTest[op], c)>> ELSE <<>>)
    /\ UNCHANGED <<conn, socket, connections_, kept, loopVars, log, aborted>>

\* What follows the test, or is the whole of start_read() and stop_read(): the
\* functor, all of them capturing 'this', goes to the connection's loop.
PostedBy == [post_send |-> "send_in_loop", post_shutdown |-> "shutdown_in_loop",
             post_force_close |-> "force_close_in_loop",
             start_read |-> "start_read_in_loop", stop_read |-> "stop_read_in_loop"]

Post(x, c) ==
  \E p \in DOMAIN PostedBy :
    /\ Executing(x, p, c)
    /\ conn' = IF p \in {"post_shutdown", "post_force_close"}
               THEN [conn EXCEPT ![c].state = "DISCONNECTING"] ELSE conn
    /\ RunInLoop(x, conn[c].loop, Call(PostedBy[p], c))
    /\ UNCHANGED <<socket, connections_, kept, loopVars, log, aborted>>

-----------------------------------------------------------------------------
(* The peers, as the kernel shows them.                                      *)

PeerActs(c, new) ==
  /\ Created(c) /\ Alive(c)
  /\ socket' = [socket EXCEPT ![c] = new]
  /\ UNCHANGED <<conn, connections_, kept, loopVars, queue_functors_, calls, log, aborted>>

PeerSends(c) == /\ "sends" \in PeerDoes
                /\ socket[c].peer = "open" /\ ~socket[c].data
                /\ PeerActs(c, [socket[c] EXCEPT !.data = TRUE])
PeerFinishes(c) == /\ "finishes" \in PeerDoes
                   /\ socket[c].peer = "open"
                   /\ PeerActs(c, [socket[c] EXCEPT !.peer = "fin"])
PeerResets(c) == /\ "resets" \in PeerDoes
                 /\ socket[c].peer \in {"open", "fin"}
                 /\ PeerActs(c, [socket[c] EXCEPT !.peer = "reset_error"])

-----------------------------------------------------------------------------
\* What a thread does when it goes on with the TcpConn function under way.
ConnStep(x) ==
  \E c \in Conns :
    \/ ConnectEstablished(x, c) \/ HandleRead(x, c) \/ HandleError(x, c)
    \/ HandleWrite(x, c) \/ HandleWritten(x, c) \/ HandleClose(x, c)
    \/ ConnectDestroyed(x, c) \/ RemoveChannel(x, c) \/ SendInLoop(x, c)
    \/ QueueOutputCallback(x, c) \/ OutputCallback(x, c) \/ ShutdownInLoop(x, c)
    \/ ForceCloseInLoop(x, c) \/ StartReadInLoop(x, c) \/ StopReadInLoop(x, c)
    \/ TestState(x, c) \/ Post(x, c) \/ UserReturns(x, c)

\* What a loop does between polls.
LoopStep(l) == HandleEvent(l) \/ SwapQueue(l) \/ RunFunctor(l) \/ FunctorsDone(l)

UserStep ==
  \E c \in Conns :
    \/ UserDrops(c)
    \/ \E op \in Ops : \/ \E x \in Threads, d \in Conns : UserCalls(x, c, d, op)
                       \/ \E u \in Users : ThreadCalls(u, c, op)

PeerStep == \E c \in Conns : PeerSends(c) \/ PeerFinishes(c) \/ PeerResets(c)

-----------------------------------------------------------------------------
(* Properties.                                                              *)

States == {"none", "CONNECTING", "CONNECTED", "DISCONNECTING", "DISCONNECTED"}

ConnTypeOK ==
  /\ conn \in [Conns -> [state : States, loop : AllLoops, channel : Channels,
                         output : BOOLEAN]]
  /\ connections_ \subseteq Conns /\ kept \subseteq Conns
  /\ phase \in [AllLoops -> {"poll", "events", "functors", "exited"}]
  /\ \A l \in AllLoops : /\ current[l] \in 0..Len(active_channels_[l])
                         /\ running[l] \in 0..Len(functors[l])
  /\ quit_flag_ \in [AllLoops -> BOOLEAN]

\* No assertion of the code fails and no freed connection is used.
NothingAborts == aborted = "no"

\* What assert_in_loop_thread says of every function of a connection that touches its
\* channel or its buffers: it runs on the connection's thread.
ConnInLoopThread ==
  \A x \in Threads : \A i \in 1..Len(calls[x]) :
    calls[x][i].fn \in {"connect_established", "handle_read", "handle_error",
                        "handle_write", "handle_written", "handle_close",
                        "connect_destroyed", "remove"} \cup Raw
      => x = conn[calls[x][i].c].loop

\* A connection is not destroyed while its loop's Poller still has its channel.
DestroyedIsUnregistered ==
  \A c \in Conns : Created(c) /\ ~Alive(c) =>
    conn[c].channel.flag = "UNADD" \/ phase[conn[c].loop] = "exited"

\* The user was told that c is down.
WasDown(c) == log[c] # <<>> /\ Last(log[c]) = "DOWN"

\* A connection whose peer is gone goes down and is destroyed, unless the user keeps
\* it.
ClosedIsDestroyed ==
  \A c \in Conns : (log[c] # <<>> /\ socket[c].peer # "open")
                     ~> (WasDown(c) /\ (c \in kept \/ ~Alive(c)))
=============================================================================
