----------------------------- MODULE TcpClient -----------------------------
(***************************************************************************)
(* net/src/tcp_client.cpp and net/src/connector.cpp: a client that keeps one *)
(* connection, made by a Connector that tries until a handshake succeeds.    *)
(* The connection and the loop themselves are in TcpConn.tla.                *)
(*                                                                         *)
(* Descriptors are used again once they are closed, so a few of them carry    *)
(* any number of attempts.  Time is left out: a retry timer expires some time *)
(* after it was set, whatever retry_delay_ms_ was.                           *)
(***************************************************************************)
EXTENDS TcpConn, FiniteSets

CONSTANTS
  Client, Connector, TimerFd,  \* the client, its connector, and the loop's timer channel
  None,
  ClientOps,     \* what callbacks call on the client
  PostedOps,     \* what functors that the user posts to the loop call on it
  ForeignOps,    \* what Users call on it: "disconnect"
  retry_,        \* enable_retry() was called
  ClosesIn,      \* the callbacks that may call force_close(): "UP", "MESSAGE", "DOWN"
  DestroysQuietly, \* the client is destroyed only while it has a connection and if
                   \* stop() was not called
  FatalErrors    \* connect() may fail with an error that is not retried

ASSUME ClientAssumption ==
  /\ {Client, Connector, TimerFd, None} \cap (Conns \cup Threads) = {}
  /\ None \notin [fd : Conns, channel : Channels]
  /\ ClientOps \subseteq {"connect", "stop", "disconnect", "destroy"}
  /\ PostedOps \subseteq {"stop", "disconnect"} /\ ForeignOps \subseteq {"disconnect"}
  /\ ClosesIn \subseteq {"UP", "MESSAGE", "DOWN"}
  /\ {retry_, DestroysQuietly, FatalErrors} \subseteq BOOLEAN

VARIABLES
  state_, started_,   \* of the Connector
  channel_,           \* of the Connector: its descriptor and Channel, or None
  retries,            \* retry timers that were set and did not expire
  due,                \* those that expired and were not yet handled
  connected_,         \* of the TcpClient
  mutex_,             \* of the TcpClient: the thread that holds it, or None
  client,             \* "up", "dying" (in ~Impl) or "dead"
  wanted              \* history: connect() was called, and stop() not since

connectorVars == <<state_, started_, channel_, retries, due>>
clientVars    == <<connected_, mutex_, client, wanted>>
vars          == <<connVars, connectorVars, clientVars>>

\* What most functions of the client leave alone of the connections and the loop.
restVars == <<conn, socket, connections_, kept, loopVars, log, aborted>>

\* The owner calls connect() before it calls loop().
Init ==
  /\ ConnInit
  /\ calls = [x \in Threads |-> IF x = Base THEN <<Call("connect", Client)>> ELSE <<>>]
  /\ state_ = "DISCONNECTED" /\ started_ = FALSE /\ channel_ = None
  /\ retries = 0 /\ due = 0
  /\ connected_ = TRUE /\ mutex_ = None /\ client = "up"
  /\ wanted = FALSE

-----------------------------------------------------------------------------
(* The Connector.                                                           *)

ConnectorCall(x, fn) == Executing(x, fn, Connector) /\ client # "dead"

\* Its functors and timers captured the raw 'this'.
UseAfterFree(x) ==
  /\ client = "dead" /\ calls[x] # <<>> /\ Head(calls[x]).c = Connector
  /\ Abort("use_after_free")
  /\ UNCHANGED <<connectorVars, clientVars>>

Trying == state_ = "CONNECTING"

\* Descriptors that the kernel may hand out.
Usable == {s \in Conns : ~Alive(s) /\ (Trying => channel_.fd # s)}

\* retry, after the descriptor was closed.
Retry == /\ state_' = "DISCONNECTED"
         /\ retries' = IF started_ THEN retries + 1 ELSE retries

\* connect() under way: connecting().
Connecting(x) ==
  \E s \in Usable :
    IF channel_ # None
    THEN Abort("connecting") /\ UNCHANGED <<state_, channel_>>
    ELSE /\ state_' = "CONNECTING"
         /\ channel_' = [fd |-> s, channel |-> Enable(NewChannel, "write")]
         /\ conn' = [conn EXCEPT ![s] = NewConn]
         /\ log' = [log EXCEPT ![s] = <<>>]
         /\ socket' = [socket EXCEPT ![s] = [NewSocket EXCEPT !.peer = "trying"]]
         /\ Return(x, <<>>)
         /\ UNCHANGED <<connections_, kept, loopVars, aborted>>

\* start_in_loop, with the connect() it calls: it is in progress, to be retried, or
\* given up.  Where no socket can be made the process ends, and nothing is left to model.
StartInLoop(x) ==
  /\ ConnectorCall(x, "start_in_loop")
  /\ \/ /\ state_ # "DISCONNECTED" /\ Abort("start_in_loop")
        /\ UNCHANGED <<state_, channel_, retries>>
     \/ /\ state_ = "DISCONNECTED" /\ started_
        /\ Connecting(x) /\ UNCHANGED retries
     \/ /\ state_ = "DISCONNECTED" /\ started_
        /\ Retry /\ Return(x, <<>>) /\ UNCHANGED <<channel_, restVars>>
     \/ /\ state_ = "DISCONNECTED" /\ (FatalErrors \/ ~started_)
        /\ Return(x, <<>>) /\ UNCHANGED <<state_, channel_, retries, restVars>>
  /\ UNCHANGED <<started_, due, clientVars>>

\* remove_and_reset_channel: the Channel leaves the Poller now and is destroyed by a
\* functor.
RemoveAndReset(x, more) ==
  /\ channel_' = [channel_ EXCEPT !.channel = Removed(DisableAll(@))]
  /\ ReturnQueueing(x, more, Call("reset_channel", Connector))

StopInLoop(x) ==
  /\ ConnectorCall(x, "stop_in_loop")
  /\ IF Trying
     THEN RemoveAndReset(x, <<>>) /\ state_' = "DISCONNECTED"
     ELSE Return(x, <<>>) /\ UNCHANGED <<state_, channel_>>
  /\ UNCHANGED <<started_, retries, due, restVars, clientVars>>

ResetChannel(x) ==
  /\ ConnectorCall(x, "reset_channel")
  /\ channel_' = None
  /\ Return(x, <<>>)
  /\ UNCHANGED <<state_, started_, retries, due, restVars, clientVars>>

SocketPeer == socket[channel_.fd].peer

\* get_socket_error: the handshake failed.
SocketError == SocketPeer \in {"refused", "reset_error"}

\* is_self_connection: both ends have the same address.
IsSelfConnection == SocketPeer = "self"

\* Mutant: started_ is not tested.
ConnectorWriteAlways(x) ==
  /\ ConnectorCall(x, "handle_write")
  /\ IF Trying
     THEN RemoveAndReset(x, <<Call("new_connection", channel_.fd)>>) /\ state_' = "CONNECTED"
     ELSE Return(x, <<>>) /\ UNCHANGED <<state_, channel_>>
  /\ UNCHANGED <<started_, retries, due, restVars, clientVars>>

\* handle_write: the handshake ended, with an error, with ourselves, or well.
ConnectorWrite(x) ==
  /\ ConnectorCall(x, "handle_write")
  /\ \/ /\ Trying /\ (SocketError \/ IsSelfConnection)
        /\ RemoveAndReset(x, <<>>) /\ Retry
        /\ UNCHANGED restVars
     \/ /\ Trying /\ SocketPeer = "open"
        /\ RemoveAndReset(x, IF started_
                             THEN <<Call("new_connection", channel_.fd)>> ELSE <<>>)
        /\ state_' = "CONNECTED"
        /\ UNCHANGED <<retries, restVars>>
     \/ /\ ~Trying
        /\ IF state_ = "DISCONNECTED" THEN Return(x, <<>>) /\ UNCHANGED restVars
           ELSE Abort("handle_write")
        /\ UNCHANGED <<state_, channel_, retries>>
  /\ UNCHANGED <<started_, due, clientVars>>

\* Mutant: the state stays CONNECTING.
ConnectorErrorKeepsState(x) ==
  /\ ConnectorCall(x, "handle_error")
  /\ IF Trying
     THEN RemoveAndReset(x, <<>>) /\ retries' = IF started_ THEN retries + 1 ELSE retries
     ELSE Return(x, <<>>) /\ UNCHANGED <<channel_, retries>>
  /\ UNCHANGED <<state_, started_, due, restVars, clientVars>>

\* Connector::handle_error.
ConnectorError(x) ==
  /\ ConnectorCall(x, "handle_error")
  /\ IF Trying
     THEN RemoveAndReset(x, <<>>) /\ Retry
     ELSE Return(x, <<>>) /\ UNCHANGED <<state_, channel_, retries>>
  /\ UNCHANGED <<started_, due, restVars, clientVars>>

\* The callback of every retry timer that expired, in one round of the TimerQueue.
HandleTimers(l) ==
  /\ Handling(l) /\ NextActive(l).c = TimerFd
  /\ Dispatches(l, [i \in 1..due |-> Call("start_in_loop", Connector)])
  /\ due' = 0
  /\ UNCHANGED <<state_, started_, channel_, retries, clientVars>>

TimerExpires ==
  /\ retries > 0
  /\ retries' = retries - 1 /\ due' = due + 1
  /\ UNCHANGED <<connVars, state_, started_, channel_, clientVars>>

-----------------------------------------------------------------------------
(* The TcpClient.                                                           *)

ClientConnect(x) ==
  /\ Executing(x, "connect", Client)
  /\ connected_' = TRUE /\ started_' = TRUE /\ wanted' = TRUE
  /\ Return(x, <<Call("start_in_loop", Connector)>>)
  /\ UNCHANGED <<state_, channel_, retries, due, mutex_, client, restVars>>

\* stop, with Connector::stop.
ClientStop(x) ==
  /\ Executing(x, "stop", Client)
  /\ connected_' = FALSE /\ started_' = FALSE /\ wanted' = FALSE
  /\ ReturnQueueing(x, <<>>, Call("stop_in_loop", Connector))
  /\ UNCHANGED <<state_, channel_, retries, due, mutex_, client, restVars>>

\* disconnect, up to the lock and from there.
ClientDisconnect(x) ==
  /\ Executing(x, "disconnect", Client)
  /\ connected_' = FALSE
  /\ Return(x, <<Call("disconnect_locked", Client)>>)
  /\ UNCHANGED <<mutex_, client, wanted, connectorVars, restVars>>

DisconnectLocked(x) ==
  /\ Executing(x, "disconnect_locked", Client) /\ mutex_ = None
  /\ \/ connections_ = {} /\ Return(x, <<>>) /\ UNCHANGED mutex_
     \/ \E c \in connections_ :
          /\ mutex_' = x
          /\ Return(x, <<Call("shutdown", c), Call("unlock", Client)>>)
  /\ UNCHANGED <<connected_, client, wanted, connectorVars, restVars>>

Unlock(x) ==
  /\ Executing(x, "unlock", Client)
  /\ mutex_' = None
  /\ Return(x, <<>>)
  /\ UNCHANGED <<connected_, client, wanted, connectorVars, restVars>>

NewConnection(x, c) ==
  /\ Executing(x, "new_connection", c) /\ mutex_ = None
  /\ conn' = [conn EXCEPT ![c].state = "CONNECTING"]
  /\ connections_' = {c}
  /\ Return(x, <<Call("connect_established", c)>>)
  /\ UNCHANGED <<socket, kept, loopVars, log, aborted, connectorVars, clientVars>>

\* Mutants: the mutex is not taken; the Connector keeps its state; it is not restarted.
RemoveUnlocked(x, c) ==
  /\ Executing(x, "remove_connection", c)
  /\ connections_' = {}
  /\ ReturnQueueing(x, <<>>, Call("connect_destroyed", c))
  /\ UNCHANGED <<conn, socket, kept, loopVars, log, aborted, connectorVars, clientVars>>

RemoveKeepsState(x, c) ==
  /\ Executing(x, "remove_connection", c) /\ mutex_ = None
  /\ connections_' = {}
  /\ started_' = TRUE
  /\ ReturnQueueing(x, <<Call("start_in_loop", Connector)>>, Call("connect_destroyed", c))
  /\ UNCHANGED <<conn, socket, kept, loopVars, log, aborted, state_, channel_, retries,
                 due, clientVars>>

RemoveForGood(x, c) ==
  /\ Executing(x, "remove_connection", c) /\ mutex_ = None
  /\ connections_' = {}
  /\ ReturnQueueing(x, <<>>, Call("connect_destroyed", c))
  /\ UNCHANGED <<conn, socket, kept, loopVars, log, aborted, connectorVars, clientVars>>

\* remove_connection, with Connector::restart; or the close callback that ~Impl
\* installed, which uses the client's loop_.
RemoveConnection(x, c) ==
  /\ Executing(x, "remove_connection", c)
  /\ \/ /\ client = "up" /\ mutex_ = None
        /\ connections_' = {}
        /\ IF retry_ /\ connected_
           THEN /\ state_' = "DISCONNECTED" /\ started_' = TRUE
                /\ ReturnQueueing(x, <<Call("start_in_loop", Connector)>>,
                                  Call("connect_destroyed", c))
           ELSE /\ ReturnQueueing(x, <<>>, Call("connect_destroyed", c))
                /\ UNCHANGED <<state_, started_>>
        /\ UNCHANGED <<conn, socket, kept, loopVars, log, aborted>>
     \/ /\ client = "dying"
        /\ ReturnQueueing(x, <<>>, Call("connect_destroyed", c))
        /\ UNCHANGED <<state_, started_, restVars>>
     \/ /\ client = "dead" /\ Abort("use_after_free")
        /\ UNCHANGED <<state_, started_>>
  /\ UNCHANGED <<channel_, retries, due, clientVars>>

\* The user destroys the client when its threads are done with it.
MayDestroy == /\ client = "up" /\ \A u \in Users : Idle(u)
              /\ DestroysQuietly => connections_ # {} /\ wanted

\* ~Impl, on the loop's thread: a connection that nobody else holds is closed, and
\* without a connection the Connector is stopped.
DestroyClient(x) ==
  /\ Executing(x, "destroy", Client)
  /\ \/ /\ MayDestroy /\ connections_ = {}
        /\ client' = "dying" /\ wanted' = FALSE /\ started_' = FALSE
        /\ ReturnQueueing(x, <<Call("destroyed", Client)>>,
                          Call("stop_in_loop", Connector))
     \/ /\ MayDestroy /\ connections_ # {}
        /\ client' = "dying" /\ wanted' = FALSE
        /\ Return(x, Append(SetToSeq({Call("force_close", c) : c \in connections_ \ kept}),
                            Call("destroyed", Client)))
        /\ UNCHANGED started_
     \/ /\ ~MayDestroy /\ Return(x, <<>>)
        /\ UNCHANGED <<client, wanted, started_>>
  /\ UNCHANGED <<state_, channel_, retries, due, connected_, mutex_, restVars>>

\* The members are destroyed, the Connector with them.
ClientDestroyed(x) ==
  /\ Executing(x, "destroyed", Client)
  /\ client' = "dead" /\ connections_' = {}
  /\ Return(x, <<>>)
  /\ UNCHANGED <<conn, socket, kept, loopVars, log, aborted, connectorVars, connected_,
                 mutex_, wanted>>

-----------------------------------------------------------------------------
(* The user.                                                                *)

Leaves == UNCHANGED <<connectorVars, clientVars>>

\* A callback calls op on the client, connect() when the connection went down, or posts
\* a functor that destroys it.
CallbackCallsClient(x, c, op) ==
  /\ Executing(x, "user", c) /\ client = "up" /\ op \in ClientOps
  /\ op = "connect" => WasDown(c)
  /\ IF op = "destroy"
     THEN ReturnQueueing(x, <<>>, Call("destroy", Client))
     ELSE Return(x, <<Call(op, Client)>>)
  /\ UNCHANGED restVars /\ Leaves

\* A functor of the user, which does nothing once he destroyed the client.
UserPosts(op) ==
  /\ client = "up" /\ op \in PostedOps /\ ~Waiting(Base)
  /\ queue_functors_' = [queue_functors_ EXCEPT ![Base] = Append(@, Call("if_up", op))]
  /\ UNCHANGED <<calls, restVars>> /\ Leaves

IfUp(x) ==
  /\ calls[x] # <<>> /\ Head(calls[x]).fn = "if_up"
  /\ Return(x, IF client = "up" THEN <<Call(Head(calls[x]).c, Client)>> ELSE <<>>)
  /\ UNCHANGED restVars /\ Leaves

\* Another thread calls the client, which the owner has told to connect.
ThreadCallsClient(u, op) ==
  /\ Idle(u) /\ client = "up" /\ op \in ForeignOps /\ ~Waiting(Base)
  /\ ~Executing(Base, "connect", Client)
  /\ calls' = [calls EXCEPT ![u] = <<Call(op, Client)>>]
  /\ UNCHANGED <<queue_functors_, restVars>> /\ Leaves

\* The calls of TcpConn's callbacks.
CallbackCallsConn(x, c, op) ==
  /\ Executing(x, "user", c)
  /\ op = "force_close" => Last(log[c]) \in ClosesIn
  /\ UserCalls(x, c, c, op) /\ Leaves

-----------------------------------------------------------------------------
(* The kernel: how a handshake ends, and the error of a peer that resets      *)
(* before handle_write.                                                      *)

HandshakeEnds(how) ==
  /\ Trying /\ SocketPeer = "trying"
  /\ socket' = [socket EXCEPT ![channel_.fd].peer = how]
  /\ UNCHANGED <<conn, connections_, kept, loopVars, log, aborted, queue_functors_, calls>>
  /\ Leaves

PeerResetsEarly ==
  /\ Trying /\ SocketPeer = "open"
  /\ socket' = [socket EXCEPT ![channel_.fd].peer = "reset_error"]
  /\ UNCHANGED <<conn, connections_, kept, loopVars, log, aborted, queue_functors_, calls>>
  /\ Leaves

\* What epoll reports for the Connector's channel, which waits for OUT.
ConnectorEvents ==
  IF ~Trying \/ SocketPeer = "trying" THEN {}
  ELSE IF SocketPeer \in {"refused", "reset_error"} THEN {"OUT", "ERR", "HUP"} ELSE {"OUT"}

PollClient(l) ==
  /\ Poll(l, {e \in {[c |-> Connector, events |-> ConnectorEvents],
                     [c |-> TimerFd, events |-> IF due > 0 THEN {"IN"} ELSE {}]} :
               e.events # {}})
  /\ Leaves

\* The Connector sets no close_callback_ and no read_callback_.
HandleConnector(l) ==
  /\ Handling(l) /\ NextActive(l).c = Connector
  /\ LET handlers == Dispatch(NextActive(l).events \cap {"ERR", "OUT"})
     IN Dispatches(l, [i \in 1..Len(handlers) |-> Call(handlers[i], Connector)])
  /\ Leaves

-----------------------------------------------------------------------------
ConnectorStep(x) ==
  \/ StartInLoop(x) \/ StopInLoop(x) \/ ResetChannel(x) \/ ConnectorWrite(x)
  \/ ConnectorError(x) \/ UseAfterFree(x)

ClientStep(x) ==
  \/ ClientConnect(x) \/ ClientStop(x) \/ ClientDisconnect(x) \/ DisconnectLocked(x)
  \/ Unlock(x) \/ DestroyClient(x) \/ ClientDestroyed(x) \/ IfUp(x)
  \/ \E c \in Conns : NewConnection(x, c) \/ RemoveConnection(x, c)

\* What a thread does when it goes on with the call under way.
Continue(x) == \/ ConnStep(x) /\ Leaves
               \/ ConnectorStep(x) \/ ClientStep(x)

Loop == \/ PollClient(Base) \/ HandleConnector(Base) \/ HandleTimers(Base)
        \/ LoopStep(Base) /\ Leaves

UserDoes ==
  \/ \E x \in Threads, c \in Conns :
       \/ \E op \in OwnOps : CallbackCallsConn(x, c, op)
       \/ \E op \in ClientOps : CallbackCallsClient(x, c, op)
  \/ \E op \in PostedOps : UserPosts(op)
  \/ \E u \in Users : \E op \in ForeignOps : ThreadCallsClient(u, op)

KernelDoes == \/ \E how \in {"open", "refused", "self"} : HandshakeEnds(how)
              \/ PeerResetsEarly
              \/ PeerStep /\ Leaves

Next == /\ aborted = "no"
        /\ \/ \E x \in Threads : Continue(x)
           \/ Loop \/ TimerExpires \/ UserDoes \/ KernelDoes

Spec == Init /\ [][Next]_vars

\* Threads go on with what they started, the loop keeps looping and timers expire.
FairSpec ==
  /\ Spec
  /\ \A x \in Threads : WF_vars(aborted = "no" /\ Continue(x))
  /\ WF_vars(aborted = "no" /\ Loop)
  /\ WF_vars(aborted = "no" /\ TimerExpires)

-----------------------------------------------------------------------------
(* Properties.                                                              *)

TypeOK ==
  /\ ConnTypeOK
  /\ state_ \in {"DISCONNECTED", "CONNECTING", "CONNECTED"}
  /\ {started_, connected_, wanted} \subseteq BOOLEAN
  /\ channel_ \in [fd : Conns, channel : Channels] \cup {None}
  /\ retries \in Nat /\ due \in Nat
  /\ mutex_ \in Threads \cup {None}
  /\ client \in {"up", "dying", "dead"}
  /\ Cardinality(connections_) <= 1

\* There is one chain of attempts: a retry timer, an attempt, and an open connection
\* exclude each other (Connector::retry, restart, new_connection), so that neither a
\* second connection nor the assertions of the Connector can come out of it.
OneAttempt ==
  LET starts == {i \in 1..Len(calls[Base]) : calls[Base][i].fn = "start_in_loop"}
      open   == {c \in Conns : conn[c].state = "CONNECTING" \/ Open(c)}
  IN retries + due + Cardinality(starts) + (IF Trying THEN 1 ELSE 0) + Cardinality(open)
       <= 1

\* With the types of the client's fields.
ClientInv == TypeOK /\ OneAttempt

\* A thread that is inside TcpConn::shutdown, called by disconnect, works on a
\* connection that the client still holds: the mutex keeps remove_connection out.
CallersHold ==
  \A u \in Users : \A i \in 1..Len(calls[u]) :
    calls[u][i].c \in Conns => calls[u][i].c \in connections_

\* While the user wants a connection and retries are enabled, the client again and
\* again is connected or makes an attempt.
KeepsTrying ==
  retry_ => []<>(\/ ~wanted \/ ~connected_ \/ client # "up"
                 \/ Trying \/ Executing(Base, "start_in_loop", Connector)
                 \/ \E c \in Conns : Open(c))

upConns == {c \in Conns : Created(c) /\ log[c] # <<>> /\ ~WasDown(c)}

connectorTries ==
  \/ Trying
  \/ \E i \in 1..Len(calls[Base]) :
       calls[Base][i].fn \in {"new_connection", "connect_established"}

R == INSTANCE Reconnector WITH trying <- connectorTries, up <- Cardinality(upConns)

\* The client implements Reconnector: one attempt or connection at a time, and none
\* after stop().
ImplementsReconnector == R!Spec
=============================================================================
