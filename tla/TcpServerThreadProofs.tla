---------------------- MODULE TcpServerThreadProofs ----------------------
(***************************************************************************)
(* Proofs about TcpServer, however it is used: its types, which thread runs  *)
(* what, and, while only its own thread closes a connection, that what is    *)
(* down stays down and that the map holds what is not.                       *)
(***************************************************************************)
EXTENDS TcpServer, SequenceTheorems, FiniteSetTheorems, TLAPS

-----------------------------------------------------------------------------
(* What a thread may have to do, and what a queue or a poll may hold.        *)

Known  == {c \in Conns : Created(c)}
Own(x) == {c \in Known : conn[c].loop = x}

\* The functions of a connection that only its own thread calls, and the functors
\* among them.
ConnFunctors == Raw \cup {"connect_established", "connect_destroyed"}
OwnCalls     == ConnFunctors \cup {"handle_read", "handle_error", "handle_write",
                  "handle_written", "queue_output_callback", "handle_close", "remove",
                  "user", "remove_connection"}

\* A call of the user is first op, and after the test what AfterTest says.
Later(ops) == ops \cup {AfterTest[op] : op \in ops \cap DOMAIN AfterTest}

\* What a thread may call on a connection of another loop.
CrossOps == ThreadOps \cup (IF Len(loops_) <= 1 THEN {} ELSE PeerOps)

BaseCalls == {"remove_connection_in_loop", "release"}

MayCall(x) ==
       [fn : OwnCalls \cup Later(Ops), c : Own(x)]
  \cup [fn : Later(CrossOps), c : Known]
  \cup (IF x = Base THEN [fn : BaseCalls, c : Known] ELSE {})
  \cup (IF x = Base THEN {Call("new_connection", Acceptor)} ELSE {})

MayQueue(l) ==
       [fn : ConnFunctors, c : Own(l)]
  \cup (IF l = Base THEN [fn : {"remove_connection_in_loop"}, c : Known] ELSE {})

Reports == SUBSET {"IN", "OUT", "ERR", "HUP"}

MayReport(l) ==
       [c : Own(l), events : Reports]
  \cup (IF l = Base THEN [c : {Acceptor}, events : Reports] ELSE {})

AnyCall   == [fn : OwnCalls \cup Later(Ops) \cup BaseCalls \cup {"new_connection"},
              c : Conns \cup {Acceptor}]
AnyReport == [c : Conns \cup {Acceptor}, events : Reports]

ConnsTyped ==
  /\ conn \in [Conns -> [state : States, loop : AllLoops, channel : Channels,
                         output : BOOLEAN]]
  /\ connections_ \subseteq Known /\ kept \subseteq Known
  /\ \A c \in Known : conn[c].loop = Base <=> loops_ = <<>>
  /\ \A c \in Conns : ~Created(c) => conn[c] = NewConn

CallsTyped ==
  /\ calls \in [Threads -> Seq(AnyCall)]
  /\ \A x \in Threads : calls[x] \in Seq(MayCall(x))
  /\ \A u \in Users : Len(calls[u]) <= 1

QueuesTyped ==
  /\ queue_functors_ \in [AllLoops -> Seq(AnyCall)]
  /\ \A l \in AllLoops : queue_functors_[l] \in Seq(MayQueue(l))

LoopsTyped ==
  /\ functors \in [AllLoops -> Seq(AnyCall)]
  /\ \A l \in AllLoops : functors[l] \in Seq(MayQueue(l))
  /\ phase \in [AllLoops -> {"poll", "events", "functors", "exited"}]
  /\ active_channels_ \in [AllLoops -> Seq(AnyReport)]
  /\ \A l \in AllLoops : active_channels_[l] \in Seq(MayReport(l))
  /\ current \in [AllLoops -> Nat] /\ running \in [AllLoops -> Nat]
  /\ \A l \in AllLoops : /\ current[l] <= Len(active_channels_[l])
                         /\ running[l] <= Len(functors[l])
                         /\ phase[l] # "events" =>
                              current[l] = 0 /\ active_channels_[l] = <<>>
                         /\ phase[l] # "functors" =>
                              running[l] = 0 /\ functors[l] = <<>>
  /\ quit_flag_ \in [AllLoops -> BOOLEAN]

RestTyped ==
  /\ socket \in [Conns -> [data : BOOLEAN, shut : BOOLEAN,
                           peer : {"open", "fin", "reset_error", "reset"}]]
  /\ next_ \in 1..Len(loops_) \cup {1}
  /\ server \in {"new", "up", "dying", "dead"}

ThreadsInv == ConnsTyped /\ CallsTyped /\ QueuesTyped /\ LoopsTyped /\ RestTyped

-----------------------------------------------------------------------------
(* Operators.                                                               *)

\* A channel stays a channel through every change of its interest (channel.cpp).
LEMMA ChannelOps ==
  ASSUME NEW ch \in Channels, NEW e \in Interest
  PROVE  /\ Enable(ch, e) \in Channels /\ Disable(ch, e) \in Channels
         /\ DisableAll(ch) \in Channels /\ Removed(ch) \in Channels
         /\ NewChannel \in Channels
  BY DEF Channels, Interest, Flags, Enable, Disable, DisableAll, Removed, UpdateChannel,
         NewChannel

\* handle_event_with_guard calls handlers and nothing else.
LEMMA DispatchHandlers ==
  ASSUME NEW active
  PROVE  Dispatch(active) \in Seq({"handle_close", "handle_error", "handle_read",
                                   "handle_write"})
<1> DEFINE H == {"handle_close", "handle_error", "handle_read", "handle_write"}
           close == IF "HUP" \in active /\ "IN" \notin active THEN <<"handle_close">>
                    ELSE <<>>
           error == IF "ERR" \in active THEN <<"handle_error">> ELSE <<>>
           read  == IF {"IN", "HUP"} \cap active # {} THEN <<"handle_read">> ELSE <<>>
           write == IF "OUT" \in active THEN <<"handle_write">> ELSE <<>>
<1>1. close \in Seq(H) /\ error \in Seq(H) /\ read \in Seq(H) /\ write \in Seq(H)
  <2>1. <<>> \in Seq(H)
    BY EmptySeq
  <2>2. \A h \in H : <<h>> \in Seq(H)
    OBVIOUS
  <2> QED
    BY <2>1, <2>2
<1> HIDE DEF H, close, error, read, write
<1>2. close \o error \o read \o write \in Seq(H)
  BY <1>1, ConcatProperties
<1> QED
  BY <1>2 DEF Dispatch, H, close, error, read, write

\* Members of a larger set make sequences over it.
LEMMA SeqGrows ==
  ASSUME NEW S, NEW T, S \subseteq T, NEW s \in Seq(S)
  PROVE  s \in Seq(T)
  BY SeqMonotonic

\* A call that returned is replaced by what it makes the thread call.
LEMMA Replaced ==
  ASSUME NEW S, NEW T, S \subseteq T, NEW s \in Seq(S), s # <<>>, NEW more \in Seq(T)
  PROVE  more \o Tail(s) \in Seq(T)
<1>1. Tail(s) \in Seq(S)
  BY HeadTailProperties
<1>2. Tail(s) \in Seq(T)
  BY <1>1, SeqGrows
<1> QED
  BY <1>2, ConcatProperties

\* After the only call comes nothing.
LEMMA Single ==
  ASSUME NEW S, NEW s \in Seq(S), s # <<>>, Len(s) <= 1
  PROVE  Len(s) = 1 /\ Len(Tail(s)) = 0
  BY EmptySeq, LenProperties, HeadTailProperties, SMTT(30)

\* A sequence of members of a larger set and one more.
LEMMA Appended ==
  ASSUME NEW S, NEW T, S \subseteq T, NEW s \in Seq(S), NEW e \in T
  PROVE  Append(s, e) \in Seq(T)
<1>1. s \in Seq(T)
  BY SeqGrows
<1> QED
  BY <1>1, AppendProperties

\* What a set of calls gives to whoever may make them: the loop of a connection does
\* not change once it was created, and more connections come to be known.
Growing ==
  \A c \in Conns : Created(c) => Created(c)' /\ conn'[c].loop = conn[c].loop

\* What a thread may do grows with the connections that exist.
LEMMA MayMore ==
  ASSUME Growing, NEW x
  PROVE  /\ Known \subseteq Known' /\ Own(x) \subseteq Own(x)'
         /\ MayCall(x) \subseteq MayCall(x)' /\ MayQueue(x) \subseteq MayQueue(x)'
         /\ MayReport(x) \subseteq MayReport(x)'
<1>1. Known \subseteq Known' /\ Own(x) \subseteq Own(x)'
  BY DEF Growing, Known, Own
<1> QED
  BY <1>1 DEF MayCall, MayQueue, MayReport

\* A functor of its queue is a call that a loop may make.
LEMMA QueuedCalls ==
  ASSUME NEW x
  PROVE  MayQueue(x) \subseteq MayCall(x)
  BY DEF MayQueue, MayCall, ConnFunctors, OwnCalls, BaseCalls

\* All that any thread may call, queue or be reported, now and after a step.
LEMMA MayAny ==
  ASSUME NEW x
  PROVE  /\ MayCall(x) \subseteq AnyCall /\ MayCall(x)' \subseteq AnyCall
         /\ MayQueue(x) \subseteq AnyCall /\ MayQueue(x)' \subseteq AnyCall
         /\ MayReport(x) \subseteq AnyReport /\ MayReport(x)' \subseteq AnyReport
<1>1. Known \subseteq Conns /\ Own(x) \subseteq Conns
  BY DEF Known, Own
<1>2. Known' \subseteq Conns /\ Own(x)' \subseteq Conns
  BY DEF Known, Own
<1>3. Later(CrossOps) \subseteq Later(Ops)
  BY ConfigAssumption DEF Later, CrossOps
<1>4. MayCall(x) \subseteq AnyCall /\ MayCall(x)' \subseteq AnyCall
  BY <1>1, <1>2, <1>3 DEF MayCall, AnyCall, Call
<1>5. MayQueue(x) \subseteq AnyCall /\ MayQueue(x)' \subseteq AnyCall
  BY <1>1, <1>2 DEF MayQueue, AnyCall, ConnFunctors, OwnCalls, BaseCalls
<1>6. MayReport(x) \subseteq AnyReport /\ MayReport(x)' \subseteq AnyReport
  BY <1>1, <1>2 DEF MayReport, AnyReport
<1> QED
  BY <1>4, <1>5, <1>6

\* What an innermost call says of its thread.
LEMMA CallUnderWay ==
  ASSUME CallsTyped, NEW x \in Threads, calls[x] # <<>>
  PROVE  /\ calls[x] \in Seq(MayCall(x))
         /\ Head(calls[x]) \in MayCall(x) /\ Tail(calls[x]) \in Seq(MayCall(x))
  BY HeadTailProperties DEF CallsTyped

\* The functions of a connection run on its thread.
LEMMA OnOwnThread ==
  ASSUME CallsTyped, NEW x \in Threads, NEW c \in Conns, NEW fn \in OwnCalls,
         Executing(x, fn, c)
  PROVE  c \in Own(x)
<1>1. Call(fn, c) \in MayCall(x)
  BY CallUnderWay DEF Executing
<1>2. fn \notin Later(CrossOps)
  BY ConfigAssumption DEF Later, CrossOps, Ops, AfterTest, OwnCalls, ConnFunctors, Raw
<1> QED
  BY <1>1, <1>2, AcceptorAssumption DEF MayCall, Call, OwnCalls, ConnFunctors, Raw, BaseCalls

-----------------------------------------------------------------------------
(* What the steps have in common.                                           *)

\* What nobody touched stays as it was typed.
LEMMA StillTyped ==
  ASSUME Growing
  PROVE  /\ CallsTyped /\ UNCHANGED calls => CallsTyped'
         /\ QueuesTyped /\ UNCHANGED queue_functors_ => QueuesTyped'
         /\ LoopsTyped /\ UNCHANGED loopVars => LoopsTyped'
<1>1. ASSUME CallsTyped, UNCHANGED calls PROVE CallsTyped'
  <2>1. \A x \in Threads : calls[x] \in Seq(MayCall(x)')
    BY <1>1, MayMore, SeqGrows DEF CallsTyped
  <2> QED
    BY <1>1, <2>1 DEF CallsTyped
<1>2. ASSUME QueuesTyped, UNCHANGED queue_functors_ PROVE QueuesTyped'
  <2>1. \A l \in AllLoops : queue_functors_[l] \in Seq(MayQueue(l)')
    BY <1>2, MayMore, SeqGrows DEF QueuesTyped
  <2> QED
    BY <1>2, <2>1 DEF QueuesTyped
<1>3. ASSUME LoopsTyped, UNCHANGED loopVars PROVE LoopsTyped'
  <2>1. \A l \in AllLoops : functors[l] \in Seq(MayQueue(l)')
    BY <1>3, MayMore, SeqGrows DEF LoopsTyped
  <2>2. \A l \in AllLoops : active_channels_[l] \in Seq(MayReport(l)')
    BY <1>3, MayMore, SeqGrows DEF LoopsTyped
  <2> QED
    BY <1>3, <2>1, <2>2 DEF LoopsTyped, loopVars
<1> QED
  BY <1>1, <1>2, <1>3

\* A thread that has other calls to make.
LEMMA NewCalls ==
  ASSUME CallsTyped, Growing, NEW x \in Threads, NEW s,
         s \in Seq(MayCall(x)'), x \in Users => Len(s) <= 1,
         calls' = [calls EXCEPT ![x] = s]
  PROVE  CallsTyped'
<1>1. s \in Seq(AnyCall)
  <2>1. MayCall(x)' \subseteq AnyCall
    BY MayAny
  <2> QED
    BY <2>1, SeqGrows
<1>2. calls' \in [Threads -> Seq(AnyCall)]
  BY <1>1 DEF CallsTyped
<1>3. \A y \in Threads : calls'[y] \in Seq(MayCall(y)')
  BY MayMore, SeqGrows DEF CallsTyped
<1>4. \A u \in Users : Len(calls'[u]) <= 1
  BY DEF CallsTyped, Threads
<1> QED
  BY <1>2, <1>3, <1>4 DEF CallsTyped

\* The innermost call returned and made the calls `more'.
LEMMA Returned ==
  ASSUME CallsTyped, Growing, NEW x \in Threads, calls[x] # <<>>, NEW more,
         more \in Seq(MayCall(x)'), Len(more) <= 1 \/ x \in AllLoops,
         calls' = [calls EXCEPT ![x] = more \o Tail(@)]
  PROVE  CallsTyped'
<1> DEFINE s == more \o Tail(calls[x])
<1>1. calls[x] \in Seq(MayCall(x)) /\ Tail(calls[x]) \in Seq(MayCall(x))
  BY CallUnderWay
<1>2. MayCall(x) \subseteq MayCall(x)'
  BY MayMore
<1>3. s \in Seq(MayCall(x)')
  BY <1>1, <1>2, Replaced, Zenon
<1>4. ASSUME x \in Users PROVE Len(s) <= 1
  <2>1. x \notin AllLoops
    BY <1>4, ConfigAssumption
  <2>2. Len(more) <= 1
    BY <2>1
  <2>3. Len(calls[x]) <= 1
    BY <1>4 DEF CallsTyped
  <2>4. Len(Tail(calls[x])) = 0
    BY <1>1, <2>3, Single
  <2> QED
    BY <1>1, <2>2, <2>4, ConcatProperties, LenProperties
<1>5. calls' = [calls EXCEPT ![x] = s]
  OBVIOUS
<1> HIDE DEF s
<1> QED
  BY <1>3, <1>4, <1>5, NewCalls

\* A functor was queued.
LEMMA Queued ==
  ASSUME QueuesTyped, Growing, NEW l \in AllLoops, NEW f, f \in MayQueue(l)',
         queue_functors_' = [queue_functors_ EXCEPT ![l] = Append(@, f)]
  PROVE  QueuesTyped'
<1>1. MayQueue(l)' \subseteq AnyCall /\ MayQueue(l) \subseteq MayQueue(l)'
  BY MayAny, MayMore
<1>2. Append(queue_functors_[l], f) \in Seq(MayQueue(l)')
  BY <1>1, Appended DEF QueuesTyped
<1>3. Append(queue_functors_[l], f) \in Seq(AnyCall)
  BY <1>1, <1>2, SeqGrows
<1>4. queue_functors_' \in [AllLoops -> Seq(AnyCall)]
  BY <1>3 DEF QueuesTyped
<1>5. \A m \in AllLoops : queue_functors_'[m] \in Seq(MayQueue(m)')
  BY <1>2, MayMore, SeqGrows DEF QueuesTyped
<1> QED
  BY <1>4, <1>5 DEF QueuesTyped

\* run_in_loop leaves a call to the thread itself or a functor to the loop.
LEMMA RanInLoop ==
  ASSUME CallsTyped, QueuesTyped, Growing, NEW x \in Threads, calls[x] # <<>>,
         NEW l \in AllLoops, NEW f, f \in MayQueue(l)', RunInLoop(x, l, f)
  PROVE  CallsTyped' /\ QueuesTyped'
<1>1. CASE x = l
  <2>1. <<f>> \in Seq(MayCall(x)') /\ Len(<<f>>) <= 1
    <3>1. f \in MayCall(x)'
      BY <1>1 DEF MayQueue, MayCall, ConnFunctors, OwnCalls, BaseCalls
    <3> QED
      BY <3>1
  <2>2. Return(x, <<f>>)
    BY <1>1 DEF RunInLoop
  <2> QED
    <3>1. calls' = [calls EXCEPT ![x] = <<f>> \o Tail(@)]
      BY <2>2 DEF Return
    <3>2. CallsTyped'
      BY <2>1, <3>1, Returned, Zenon
    <3>3. QueuesTyped'
      BY <2>2, StillTyped DEF Return
    <3> QED
      BY <3>2, <3>3
<1>2. CASE x # l
  <2>1. calls' = [calls EXCEPT ![x] = <<>> \o Tail(@)]
    <3>1. <<>> \o Tail(calls[x]) = Tail(calls[x])
      BY CallUnderWay, ConcatEmptySeq
    <3> QED
      BY <1>2, <3>1 DEF RunInLoop
  <2>2. <<>> \in Seq(MayCall(x)') /\ Len(<<>>) <= 1
    BY EmptySeq
  <2>3. CallsTyped'
    BY <2>1, <2>2, Returned, Zenon
  <2>4. QueuesTyped'
    BY <1>2, Queued DEF RunInLoop
  <2> QED
    BY <2>3, <2>4
<1> QED
  BY <1>1, <1>2

\* A step that changes the fields of a connection and not its loop.
LEMMA ConnChanged ==
  ASSUME ConnsTyped, NEW c \in Known, NEW r,
         r \in [state : States \ {"none"}, loop : {conn[c].loop}, channel : Channels,
                output : BOOLEAN],
         conn' = [conn EXCEPT ![c] = r], connections_' \subseteq Known, kept' \subseteq Known
  PROVE  Growing /\ ConnsTyped' /\ Known' = Known
<1>1. c \in Conns /\ conn[c].loop \in AllLoops
  BY DEF Known, ConnsTyped
<1>2. conn' \in [Conns -> [state : States, loop : AllLoops, channel : Channels,
                          output : BOOLEAN]]
  BY <1>1 DEF ConnsTyped
<1>3. \A d \in Conns : conn'[d].loop = conn[d].loop
  BY <1>1 DEF ConnsTyped
<1>4. \A d \in Conns : Created(d)' <=> Created(d)
  BY <1>1 DEF ConnsTyped, Created, Known
<1>5. Known' = Known
  BY <1>4 DEF Known
<1>6. \A d \in Conns : ~Created(d)' => conn'[d] = NewConn
  BY <1>1, <1>4 DEF ConnsTyped, Known
<1> QED
  BY <1>2, <1>3, <1>4, <1>5, <1>6 DEF Growing, ConnsTyped

\* A step that leaves the connections alone.
LEMMA ConnsLeft ==
  ASSUME ConnsTyped, UNCHANGED conn, connections_' \subseteq Known, kept' \subseteq Known
  PROVE  Growing /\ ConnsTyped' /\ Known' = Known
<1>1. Known' = Known
  BY DEF Known, Created
<1> QED
  BY <1>1 DEF Growing, ConnsTyped, Created

\* A callback of the user.
LEMMA CallbackCalls ==
  ASSUME NEW x, NEW c, c \in Own(x)'
  PROVE  UserCallback(c) \in Seq(MayCall(x)')
<1>1. Call("user", c) \in MayCall(x)'
  BY DEF MayCall, OwnCalls, Call
<1>2. MaxCallbackOps \in Nat
  BY ConfigAssumption
<1> QED
  BY <1>1, <1>2 DEF UserCallback

\* Calls of a connection's own thread.
LEMMA OwnCall ==
  ASSUME NEW x, NEW c, c \in Own(x)', NEW fn \in OwnCalls
  PROVE  /\ Call(fn, c) \in MayCall(x)' /\ <<Call(fn, c)>> \in Seq(MayCall(x)')
         /\ Append(UserCallback(c), Call(fn, c)) \in Seq(MayCall(x)')
<1>1. Call(fn, c) \in MayCall(x)'
  BY DEF MayCall, Call
<1>2. <<Call(fn, c)>> \in Seq(MayCall(x)')
  BY <1>1
<1>3. Append(UserCallback(c), Call(fn, c)) \in Seq(MayCall(x)')
  BY <1>1, CallbackCalls, AppendProperties
<1> QED
  BY <1>1, <1>2, <1>3

\* A step that changes no connection, only what a thread is doing.
LEMMA OnlyCalls ==
  ASSUME ThreadsInv, NEW x \in Threads, calls[x] # <<>>, NEW more,
         more \in Seq(MayCall(x)'), Len(more) <= 1 \/ x \in AllLoops, Return(x, more),
         Growing, ConnsTyped', UNCHANGED loopVars, RestTyped'
  PROVE  ThreadsInv'
<1>1. calls' = [calls EXCEPT ![x] = more \o Tail(@)] /\ UNCHANGED queue_functors_
  BY DEF Return
<1>2. CallsTyped'
  BY <1>1, Returned, Zenon DEF ThreadsInv
<1>3. QueuesTyped' /\ LoopsTyped'
  BY <1>1, StillTyped DEF ThreadsInv
<1> QED
  BY <1>2, <1>3 DEF ThreadsInv

\* An assertion fails: nothing else happens.
LEMMA AbortTyped ==
  ASSUME ThreadsInv, NEW where, Abort(where), UNCHANGED serverVars
  PROVE  ThreadsInv'
<1>1. Growing /\ ConnsTyped'
  BY ConnsLeft DEF Abort, ThreadsInv, ConnsTyped
<1>2. CallsTyped' /\ QueuesTyped' /\ LoopsTyped'
  BY <1>1, StillTyped DEF Abort, ThreadsInv
<1>3. RestTyped'
  BY DEF Abort, ThreadsInv, RestTyped, serverVars
<1> QED
  BY <1>1, <1>2, <1>3 DEF ThreadsInv

\* The thread of a connection is the thread of a loop.
LEMMA OwnerIsLoop ==
  ASSUME ConnsTyped, NEW x, NEW c \in Own(x)
  PROVE  x \in AllLoops /\ c \in Known /\ c \in Conns
  BY DEF ConnsTyped, Own, Known

\* A connection comes up, goes down and leaves the Poller on its own thread
\* (tcp_conn.cpp, connect_established, handle_close and connect_destroyed).
LEMMA EstablishedTyped ==
  ASSUME ThreadsInv, NEW x \in Threads, NEW c \in Conns, ConnectEstablished(x, c),
         UNCHANGED serverVars
  PROVE  ThreadsInv'
<1>1. calls[x] # <<>> /\ c \in Own(x)
  BY OnOwnThread DEF ConnectEstablished, Executing, ThreadsInv, OwnCalls, ConnFunctors
<1>2. CASE conn[c].state # "CONNECTING"
  BY <1>2, AbortTyped DEF ConnectEstablished
<1>3. CASE conn[c].state = "CONNECTING"
  <2> DEFINE r == [conn[c] EXCEPT !.state = "CONNECTED",
                                  !.channel = Enable(conn[c].channel, "read")]
  <2>1. /\ conn' = [conn EXCEPT ![c] = r]
        /\ r \in [state : States \ {"none"}, loop : {conn[c].loop}, channel : Channels,
                  output : BOOLEAN]
    <3>1. Enable(conn[c].channel, "read") \in Channels
      BY ChannelOps DEF ThreadsInv, ConnsTyped, Interest
    <3> QED
      BY <1>3, <3>1 DEF ConnectEstablished, ThreadsInv, ConnsTyped, States
  <2>2. connections_' \subseteq Known /\ kept' \subseteq Known
    BY <1>1, <1>3 DEF ConnectEstablished, ThreadsInv, ConnsTyped, Own
  <2> HIDE DEF r
  <2>3. Growing /\ ConnsTyped'
    BY <1>1, <2>1, <2>2, ConnChanged, OwnerIsLoop DEF ThreadsInv
  <2>4. c \in Own(x)' /\ x \in AllLoops
    BY <1>1, <2>3, MayMore, OwnerIsLoop DEF ThreadsInv
  <2>5. UserCallback(c) \in Seq(MayCall(x)')
    BY <2>4, CallbackCalls
  <2>6. Return(x, UserCallback(c)) /\ UNCHANGED loopVars /\ RestTyped'
    BY <1>3 DEF ConnectEstablished, ThreadsInv, RestTyped, serverVars
  <2> QED
    BY <1>1, <2>3, <2>4, <2>5, <2>6, OnlyCalls, Zenon
<1> QED
  BY <1>2, <1>3

\* TakeDown keeps the types.
LEMMA TakeDownTyped ==
  ASSUME ThreadsInv, NEW x, NEW c \in Own(x), TakeDown(c),
         UNCHANGED <<connections_, kept>>
  PROVE  Growing /\ ConnsTyped' /\ c \in Own(x)'
<1> DEFINE r == [conn[c] EXCEPT !.state = "DISCONNECTED",
                                !.channel = DisableAll(conn[c].channel)]
<1>1. c \in Known /\ c \in Conns
  BY OwnerIsLoop DEF ThreadsInv
<1>2. /\ conn' = [conn EXCEPT ![c] = r]
      /\ r \in [state : States \ {"none"}, loop : {conn[c].loop}, channel : Channels,
                output : BOOLEAN]
  <2>1. DisableAll(conn[c].channel) \in Channels
    BY <1>1, ChannelOps DEF ThreadsInv, ConnsTyped, Interest
  <2> QED
    BY <1>1, <2>1 DEF TakeDown, ThreadsInv, ConnsTyped, States
<1> HIDE DEF r
<1>3. Growing /\ ConnsTyped'
  BY <1>1, <1>2, ConnChanged DEF ThreadsInv, ConnsTyped
<1> QED
  BY <1>3, MayMore

\* The ends of a connection keep the threads to their own calls.
LEMMA CloseTyped ==
  ASSUME ThreadsInv, NEW x \in Threads, NEW c \in Conns,
         HandleClose(x, c) \/ ConnectDestroyed(x, c), UNCHANGED serverVars
  PROVE  ThreadsInv'
<1>1. calls[x] # <<>> /\ c \in Own(x) /\ x \in AllLoops
  BY OnOwnThread, OwnerIsLoop
     DEF HandleClose, ConnectDestroyed, Executing, ThreadsInv, OwnCalls, ConnFunctors
<1>2. CASE HandleClose(x, c) /\ ~Open(c)
  BY <1>2, AbortTyped DEF HandleClose
<1>3. ASSUME NEW fn \in {"remove_connection", "remove"}, TakeDown(c),
             Return(x, Append(UserCallback(c), Call(fn, c))),
             UNCHANGED <<socket, connections_, kept, loopVars>>
      PROVE  ThreadsInv'
  <2>1. Growing /\ ConnsTyped' /\ c \in Own(x)'
    BY <1>1, <1>3, TakeDownTyped
  <2>2. Append(UserCallback(c), Call(fn, c)) \in Seq(MayCall(x)')
    BY <2>1, OwnCall DEF OwnCalls
  <2>3. RestTyped'
    BY <1>3 DEF ThreadsInv, RestTyped, serverVars
  <2> QED
    BY <1>1, <1>3, <2>1, <2>2, <2>3, OnlyCalls
<1>4. CASE HandleClose(x, c) /\ Open(c)
  BY <1>3, <1>4 DEF HandleClose
<1>5. CASE ConnectDestroyed(x, c) /\ conn[c].state = "CONNECTED"
  BY <1>3, <1>5 DEF ConnectDestroyed
<1>6. CASE ConnectDestroyed(x, c) /\ conn[c].state # "CONNECTED"
  <2>1. Growing /\ ConnsTyped' /\ c \in Own(x)'
    BY <1>1, <1>6, ConnsLeft, MayMore DEF ConnectDestroyed, ThreadsInv, ConnsTyped
  <2>2. <<Call("remove", c)>> \in Seq(MayCall(x)')
    BY <2>1, OwnCall DEF OwnCalls
  <2>3. Return(x, <<Call("remove", c)>>) /\ UNCHANGED loopVars /\ RestTyped'
    BY <1>6 DEF ConnectDestroyed, ThreadsInv, RestTyped, serverVars
  <2> QED
    BY <1>1, <2>1, <2>2, <2>3, OnlyCalls, Zenon
<1> QED
  BY <1>2, <1>4, <1>5, <1>6

\* What a thread goes on with when the output is drained and the user is told.
Written(c) == Append(UserCallback(c), Call("handle_written", c))

\* A function of a connection that changes at most its channel and its output, and
\* calls at most one other.
LEMMA OwnReturn ==
  ASSUME ThreadsInv, NEW x \in Threads, NEW c \in Own(x), calls[x] # <<>>,
         \/ UNCHANGED conn
         \/ \E ch \in Channels, out \in BOOLEAN :
              conn' = [conn EXCEPT ![c] = [@ EXCEPT !.channel = ch, !.output = out]],
         \/ Return(x, <<>>)
         \/ Return(x, UserCallback(c))
         \/ Return(x, Written(c))
         \/ \E fn \in OwnCalls : Return(x, <<Call(fn, c)>>),
         UNCHANGED <<connections_, kept, loopVars, serverVars>>,
         socket' \in [Conns -> [data : BOOLEAN, shut : BOOLEAN,
                               peer : {"open", "fin", "reset_error", "reset"}]]
  PROVE  ThreadsInv'
<1>1. c \in Known /\ c \in Conns /\ x \in AllLoops
  BY OwnerIsLoop DEF ThreadsInv
<1>2. Growing /\ ConnsTyped'
  <2>1. CASE UNCHANGED conn
    BY <2>1, ConnsLeft DEF ThreadsInv, ConnsTyped
  <2>2. ASSUME NEW ch \in Channels, NEW out \in BOOLEAN,
               conn' = [conn EXCEPT ![c] = [@ EXCEPT !.channel = ch, !.output = out]]
        PROVE  Growing /\ ConnsTyped'
    <3> DEFINE r == [conn[c] EXCEPT !.channel = ch, !.output = out]
    <3>1. conn' = [conn EXCEPT ![c] = r]
      BY <2>2
    <3>2. conn[c] \in [state : States \ {"none"}, loop : {conn[c].loop},
                       channel : Channels, output : BOOLEAN]
      BY <1>1 DEF ThreadsInv, ConnsTyped, Known, Created
    <3>3. r \in [state : States \ {"none"}, loop : {conn[c].loop}, channel : Channels,
                 output : BOOLEAN]
      BY <2>2, <3>2
    <3> HIDE DEF r
    <3> QED
      BY <1>1, <3>1, <3>3, ConnChanged DEF ThreadsInv, ConnsTyped
  <2> QED
    BY <2>1, <2>2
<1>3. c \in Own(x)'
  BY <1>2, MayMore
<1>4. RestTyped'
  BY DEF ThreadsInv, RestTyped, serverVars
<1>5. CASE Return(x, <<>>)
  <2>1. <<>> \in Seq(MayCall(x)')
    BY EmptySeq
  <2> QED
    BY <1>1, <1>2, <1>4, <1>5, <2>1, OnlyCalls, Zenon
<1>6. ASSUME NEW fn \in OwnCalls, Return(x, <<Call(fn, c)>>) PROVE ThreadsInv'
  <2>1. <<Call(fn, c)>> \in Seq(MayCall(x)')
    BY <1>3, OwnCall
  <2> QED
    BY <1>1, <1>2, <1>4, <1>6, <2>1, OnlyCalls, Zenon
<1>7. CASE Return(x, Written(c))
  <2>1. Written(c) \in Seq(MayCall(x)')
    BY <1>3, OwnCall DEF OwnCalls, Written
  <2> QED
    BY <1>1, <1>2, <1>4, <1>7, <2>1, OnlyCalls, Zenon
<1>8. CASE Return(x, UserCallback(c))
  <2>1. UserCallback(c) \in Seq(MayCall(x)')
    BY <1>3, CallbackCalls
  <2> QED
    BY <1>1, <1>2, <1>4, <1>8, <2>1, OnlyCalls, Zenon
<1> QED
  BY <1>5, <1>6, <1>7, <1>8

\* Calls that read, write, shut down and pause keep the types.
LEMMA IoTyped ==
  ASSUME ThreadsInv, NEW x \in Threads, NEW c \in Conns,
         \/ HandleError(x, c) \/ HandleWrite(x, c) \/ SendInLoop(x, c)
         \/ ShutdownInLoop(x, c) \/ ForceCloseInLoop(x, c) \/ StartReadInLoop(x, c)
         \/ StopReadInLoop(x, c) \/ UserReturns(x, c) \/ HandleWritten(x, c)
         \/ OutputCallback(x, c),
         UNCHANGED serverVars
  PROVE  ThreadsInv'
<1>1. calls[x] # <<>> /\ c \in Own(x)
  BY OnOwnThread DEF HandleError, HandleWrite, SendInLoop, ShutdownInLoop, ForceCloseInLoop,
     StartReadInLoop, StopReadInLoop, UserReturns, HandleWritten, OutputCallback,
     Executing, ThreadsInv, OwnCalls,
     ConnFunctors, Raw
<1>2. /\ conn[c].channel \in Channels /\ conn[c].output \in BOOLEAN
      /\ conn[c].channel = conn[c]["channel"] /\ c \in Conns
      /\ conn \in [Conns -> [state : States, loop : AllLoops, channel : Channels,
                             output : BOOLEAN]]
  BY DEF ThreadsInv, ConnsTyped
<1>3. \A e \in Interest : /\ Enable(conn[c].channel, e) \in Channels
                          /\ Disable(conn[c].channel, e) \in Channels
  BY <1>2, ChannelOps
<1> DEFINE S == [Conns -> [data : BOOLEAN, shut : BOOLEAN,
                          peer : {"open", "fin", "reset_error", "reset"}]]
           Changed == \/ UNCHANGED conn
                      \/ \E ch \in Channels, out \in BOOLEAN :
                           conn' = [conn EXCEPT ![c] = [@ EXCEPT !.channel = ch,
                                                                 !.output = out]]
           Calls == \/ Return(x, <<>>)
                    \/ Return(x, UserCallback(c))
                    \/ Return(x, Written(c))
                    \/ \E fn \in OwnCalls : Return(x, <<Call(fn, c)>>)
           Rest  == UNCHANGED <<connections_, kept, loopVars, serverVars>>
<1>4. socket \in S /\ ErrorTaken(c) \in S
  BY DEF ErrorTaken, ThreadsInv, RestTyped
<1>5. ASSUME Changed, Calls, Rest, socket' \in S PROVE ThreadsInv'
  BY <1>1, <1>5, OwnReturn, Zenon
<1>6. CASE HandleError(x, c)
  <2>1. Changed /\ Calls /\ Rest /\ socket' \in S
    BY <1>4, <1>6 DEF HandleError
  <2> QED
    BY <1>5, <2>1
<1>7. CASE HandleWrite(x, c)
  <2>1. Changed
    <3>1. CASE UNCHANGED conn
      BY <3>1
    <3>2. CASE conn' = [conn EXCEPT ![c].output = FALSE,
                                    ![c].channel = Disable(@, "write")]
      <4>1. conn' = [conn EXCEPT ![c] = [@ EXCEPT !.output = FALSE,
                       !.channel = Disable(conn[c].channel, "write")]]
        BY <1>2, <3>2
      <4> QED
        BY <1>2, <1>3, <4>1 DEF Interest
    <3> QED
      BY <1>7, <3>1, <3>2 DEF HandleWrite
  <2>2. Calls
    <3>1. \/ Return(x, <<>>)
          \/ Return(x, Written(c))
          \/ Return(x, Append(<<>>, Call("handle_written", c)))
      BY <1>7 DEF HandleWrite, Written
    <3>2. Append(<<>>, Call("handle_written", c)) = <<Call("handle_written", c)>>
      OBVIOUS
    <3> QED
      BY <3>1, <3>2 DEF OwnCalls
  <2>3. Rest /\ socket' \in S
    BY <1>4, <1>7 DEF HandleWrite
  <2> QED
    BY <1>5, <2>1, <2>2, <2>3
<1>8. CASE SendInLoop(x, c)
  <2>1. Changed
    <3>1. CASE UNCHANGED conn
      BY <3>1
    <3>2. CASE conn' = [conn EXCEPT ![c].output = TRUE,
                          ![c].channel = IF IsWriting(@) THEN @ ELSE Enable(@, "write")]
      <4> DEFINE ch == IF IsWriting(conn[c].channel) THEN conn[c].channel
                       ELSE Enable(conn[c].channel, "write")
      <4>1. conn' = [conn EXCEPT ![c] = [@ EXCEPT !.output = TRUE, !.channel = ch]]
        BY <1>2, <3>2
      <4>2. ch \in Channels
        BY <1>2, <1>3 DEF Interest
      <4> QED
        BY <1>2, <4>1, <4>2
    <3> QED
      BY <1>8, <3>1, <3>2 DEF SendInLoop
  <2>2. Calls
    <3>1. Return(x, <<>>) \/ Return(x, <<Call("queue_output_callback", c)>>)
      BY <1>8 DEF SendInLoop, TellOutput
    <3> QED
      BY <3>1 DEF OwnCalls
  <2>3. Rest /\ socket' \in S
    BY <1>4, <1>8 DEF SendInLoop
  <2> QED
    BY <1>5, <2>1, <2>2, <2>3
<1>9. CASE ShutdownInLoop(x, c)
  <2>1. socket' \in S
    <3>1. (socket[c].shut \/ ~IsWriting(conn[c].channel)) \in BOOLEAN
      BY <1>4, Zenon
    <3> QED
      BY <1>4, <1>9, <3>1 DEF ShutdownInLoop
  <2>2. Changed /\ Calls /\ Rest
    BY <1>9 DEF ShutdownInLoop
  <2> QED
    BY <1>5, <2>1, <2>2
<1>10. CASE ForceCloseInLoop(x, c)
  <2>1. Changed /\ Calls /\ Rest /\ socket' \in S
    BY <1>4, <1>10 DEF ForceCloseInLoop, OwnCalls
  <2> QED
    BY <1>5, <2>1
<1>11. CASE StartReadInLoop(x, c)
  <2>1. Changed
    <3>1. CASE UNCHANGED conn
      BY <3>1
    <3>2. CASE conn' = [conn EXCEPT ![c].channel = Enable(@, "read")]
      <4>1. conn' = [conn EXCEPT ![c] = [@ EXCEPT !.output = conn[c].output,
                       !.channel = Enable(conn[c].channel, "read")]]
        BY <1>2, <3>2
      <4> QED
        BY <1>2, <1>3, <4>1 DEF Interest
    <3> QED
      BY <1>11, <3>1, <3>2 DEF StartReadInLoop
  <2>2. Calls /\ Rest /\ socket' \in S
    BY <1>4, <1>11 DEF StartReadInLoop
  <2> QED
    BY <1>5, <2>1, <2>2
<1>12. CASE StopReadInLoop(x, c)
  <2>1. Changed
    <3>1. CASE UNCHANGED conn
      BY <3>1
    <3>2. CASE conn' = [conn EXCEPT ![c].channel = Disable(@, "read")]
      <4>1. conn' = [conn EXCEPT ![c] = [@ EXCEPT !.output = conn[c].output,
                       !.channel = Disable(conn[c].channel, "read")]]
        BY <1>2, <3>2
      <4> QED
        BY <1>2, <1>3, <4>1 DEF Interest
    <3> QED
      BY <1>12, <3>1, <3>2 DEF StopReadInLoop
  <2>2. Calls /\ Rest /\ socket' \in S
    BY <1>4, <1>12 DEF StopReadInLoop
  <2> QED
    BY <1>5, <2>1, <2>2
<1>13. CASE UserReturns(x, c)
  <2>1. Changed /\ Calls /\ Rest /\ socket' \in S
    BY <1>4, <1>13 DEF UserReturns
  <2> QED
    BY <1>5, <2>1
<1>14. CASE HandleWritten(x, c)
  <2>1. Changed /\ Calls /\ Rest /\ socket' \in S
    BY <1>4, <1>14 DEF HandleWritten, OwnCalls, ConnFunctors, Raw
  <2> QED
    BY <1>5, <2>1
<1>15. CASE OutputCallback(x, c)
  <2>1. Changed /\ Calls /\ Rest /\ socket' \in S
    BY <1>4, <1>15 DEF OutputCallback
  <2> QED
    BY <1>5, <2>1
<1> QED
  BY <1>6, <1>7, <1>8, <1>9, <1>10, <1>11, <1>12, <1>13, <1>14, <1>15

\* The callback of the output is queued on the thread's own loop (tcp_conn.cpp,
\* send_in_loop).
LEMMA NoticeTyped ==
  ASSUME ThreadsInv, NEW x \in Threads, NEW c \in Conns, QueueOutputCallback(x, c),
         UNCHANGED serverVars
  PROVE  ThreadsInv'
<1> DEFINE f == Call("output_callback", c)
<1>1. calls[x] # <<>> /\ c \in Own(x) /\ x \in AllLoops
  BY OnOwnThread, OwnerIsLoop
     DEF QueueOutputCallback, Executing, ThreadsInv, OwnCalls
<1>2. /\ calls' = [calls EXCEPT ![x] = <<>> \o Tail(@)]
      /\ queue_functors_' = [queue_functors_ EXCEPT ![x] = Append(@, f)]
      /\ UNCHANGED <<conn, connections_, kept, loopVars>>
  BY DEF QueueOutputCallback, ReturnQueueing
<1>3. Growing /\ ConnsTyped'
  BY <1>2, ConnsLeft DEF ThreadsInv, ConnsTyped
<1>4. f \in MayQueue(x)'
  <2>1. c \in Own(x)'
    BY <1>1, <1>3, MayMore
  <2> QED
    BY <2>1 DEF MayQueue, ConnFunctors, Raw, Call
<1> HIDE DEF f
<1>5. <<>> \in Seq(MayCall(x)') /\ Len(<<>>) <= 1
  BY EmptySeq
<1>6. CallsTyped'
  BY <1>1, <1>2, <1>3, <1>5, Returned, Zenon DEF ThreadsInv
<1>7. QueuesTyped'
  BY <1>1, <1>2, <1>3, <1>4, Queued DEF ThreadsInv
<1>8. LoopsTyped' /\ RestTyped'
  BY <1>2, <1>3, StillTyped DEF ThreadsInv, RestTyped, QueueOutputCallback, serverVars
<1> QED
  BY <1>3, <1>6, <1>7, <1>8 DEF ThreadsInv

\* handle_read gives a message to the user, finds nothing, or finds the end.
LEMMA ReadTyped ==
  ASSUME ThreadsInv, NEW x \in Threads, NEW c \in Conns, HandleRead(x, c),
         UNCHANGED serverVars
  PROVE  ThreadsInv'
<1>1. calls[x] # <<>> /\ c \in Own(x)
  BY OnOwnThread DEF HandleRead, Executing, ThreadsInv, OwnCalls, ConnFunctors
<1>2. UNCHANGED <<conn, connections_, kept, loopVars, serverVars>>
  BY DEF HandleRead
<1> DEFINE S == [Conns -> [data : BOOLEAN, shut : BOOLEAN,
                          peer : {"open", "fin", "reset_error", "reset"}]]
<1>3. socket' \in S
  BY ZenonT(60) DEF HandleRead, ErrorTaken, ThreadsInv, RestTyped
<1>4. CASE Return(x, UserCallback(c))
  <2>1. Growing /\ ConnsTyped' /\ x \in AllLoops
    BY <1>1, <1>2, ConnsLeft, OwnerIsLoop DEF ThreadsInv, ConnsTyped
  <2>2. UserCallback(c) \in Seq(MayCall(x)')
    BY <1>1, <2>1, MayMore, CallbackCalls
  <2>3. RestTyped' /\ UNCHANGED loopVars
    BY <1>2, <1>3 DEF ThreadsInv, RestTyped, serverVars
  <2> QED
    BY <1>1, <1>4, <2>1, <2>2, <2>3, OnlyCalls, Zenon
<1>5. CASE \/ Return(x, <<>>)
           \/ \E fn \in OwnCalls : Return(x, <<Call(fn, c)>>)
  BY <1>1, <1>2, <1>3, <1>5, OwnReturn, Zenon
<1>6. \/ Return(x, UserCallback(c)) \/ Return(x, <<>>)
      \/ Return(x, <<Call("handle_close", c)>>)
  BY DEF HandleRead
<1> QED
  BY <1>4, <1>5, <1>6 DEF OwnCalls

\* Channel::remove.
LEMMA RemoveTyped ==
  ASSUME ThreadsInv, NEW x \in Threads, NEW c \in Conns, RemoveChannel(x, c),
         UNCHANGED serverVars
  PROVE  ThreadsInv'
<1>1. calls[x] # <<>> /\ c \in Own(x)
  BY OnOwnThread DEF RemoveChannel, Executing, ThreadsInv, OwnCalls
<1>2. CASE Abort("remove") \/ Abort("remove_channel")
  BY <1>2, AbortTyped
<1>3. CASE /\ conn' = [conn EXCEPT ![c].channel = Removed(@)]
           /\ Return(x, <<>>)
           /\ UNCHANGED <<socket, connections_, kept, loopVars, log, aborted>>
  <2>1. /\ conn \in [Conns -> [state : States, loop : AllLoops, channel : Channels,
                              output : BOOLEAN]]
        /\ Removed(conn[c].channel) \in Channels /\ conn[c].output \in BOOLEAN
    BY ChannelOps DEF ThreadsInv, ConnsTyped, Interest
  <2>2. conn' = [conn EXCEPT ![c] = [@ EXCEPT !.channel = Removed(conn[c].channel),
                                              !.output = conn[c].output]]
    BY <1>3, <2>1
  <2>3. socket' \in [Conns -> [data : BOOLEAN, shut : BOOLEAN,
                              peer : {"open", "fin", "reset_error", "reset"}]]
    BY <1>3 DEF ThreadsInv, RestTyped
  <2>4. \E ch \in Channels, out \in BOOLEAN :
          conn' = [conn EXCEPT ![c] = [@ EXCEPT !.channel = ch, !.output = out]]
    BY <2>1, <2>2
  <2> QED
    BY <1>1, <1>3, <2>3, <2>4, OwnReturn, Zenon
<1> QED
  BY <1>2, <1>3 DEF RemoveChannel

\* What may be called of op, after its test.
LEMMA TestedCall ==
  ASSUME ThreadsInv, NEW x \in Threads, NEW c \in Conns, NEW op \in DOMAIN AfterTest,
         Executing(x, op, c)
  PROVE  c \in Known /\ Call(AfterTest[op], c) \in MayCall(x)
<1>1. Call(op, c) \in MayCall(x)
  BY CallUnderWay DEF Executing, ThreadsInv
<1>2. op \in Ops /\ op \notin OwnCalls /\ op \notin BaseCalls
      /\ op # "new_connection"
  BY DEF AfterTest, Ops, OwnCalls, ConnFunctors, Raw, BaseCalls
<1>3. \A ops \in SUBSET Ops : op \in Later(ops) => AfterTest[op] \in Later(ops)
  BY DEF Later, AfterTest, Ops
<1>4. CrossOps \subseteq Ops
  BY ConfigAssumption DEF CrossOps
<1>5. \/ c \in Own(x) /\ op \in Later(Ops)
      \/ c \in Known /\ op \in Later(CrossOps)
  BY <1>1, <1>2 DEF MayCall, Call
<1> QED
  BY <1>3, <1>4, <1>5 DEF MayCall, Call, Own

\* So do the tests of send(), shutdown() and force_close().
LEMMA TestTyped ==
  ASSUME ThreadsInv, NEW x \in Threads, NEW c \in Conns, TestState(x, c),
         UNCHANGED serverVars
  PROVE  ThreadsInv'
<1>1. PICK op \in DOMAIN AfterTest :
        /\ Executing(x, op, c)
        /\ Return(x, IF Passes(op, c) THEN <<Call(AfterTest[op], c)>> ELSE <<>>)
        /\ UNCHANGED <<conn, socket, connections_, kept, loopVars, log, aborted>>
  BY DEF TestState
<1>2. Growing /\ ConnsTyped'
  BY <1>1, ConnsLeft DEF ThreadsInv, ConnsTyped
<1>3. Call(AfterTest[op], c) \in MayCall(x)'
  BY <1>1, <1>2, TestedCall, MayMore
<1>4. RestTyped' /\ UNCHANGED loopVars /\ calls[x] # <<>>
  BY <1>1 DEF ThreadsInv, RestTyped, serverVars, Executing
<1>5. CASE Passes(op, c)
  <2>1. Return(x, <<Call(AfterTest[op], c)>>)
    BY <1>1, <1>5
  <2>2. /\ <<Call(AfterTest[op], c)>> \in Seq(MayCall(x)')
        /\ Len(<<Call(AfterTest[op], c)>>) <= 1
    BY <1>3
  <2> QED
    BY <1>2, <1>4, <2>1, <2>2, OnlyCalls, Zenon
<1>6. CASE ~Passes(op, c)
  <2>1. Return(x, <<>>)
    BY <1>1, <1>6
  <2>2. <<>> \in Seq(MayCall(x)') /\ Len(<<>>) <= 1
    BY EmptySeq
  <2> QED
    BY <1>2, <1>4, <2>1, <2>2, OnlyCalls, Zenon
<1> QED
  BY <1>5, <1>6

\* The second half of the user's calls hands a functor to the connection's loop.
LEMMA PostTyped ==
  ASSUME ThreadsInv, NEW x \in Threads, NEW c \in Conns, Post(x, c), UNCHANGED serverVars
  PROVE  ThreadsInv'
<1>1. PICK p \in DOMAIN PostedBy :
        /\ Executing(x, p, c)
        /\ conn' = IF p \in {"post_shutdown", "post_force_close"}
                   THEN [conn EXCEPT ![c].state = "DISCONNECTING"] ELSE conn
        /\ RunInLoop(x, conn[c].loop, Call(PostedBy[p], c))
        /\ UNCHANGED <<socket, connections_, kept, loopVars, log, aborted>>
  BY DEF Post
<1>2. c \in Known /\ conn[c].loop \in AllLoops
  <2>1. Call(p, c) \in MayCall(x)
    BY <1>1, CallUnderWay DEF Executing, ThreadsInv
  <2>2. c \in Known
    BY <2>1, AcceptorAssumption DEF MayCall, Call, Own
  <2> QED
    BY <2>2 DEF Known, ThreadsInv, ConnsTyped
<1>3. Growing /\ ConnsTyped'
  <2>1. CASE UNCHANGED conn
    BY <1>1, <2>1, ConnsLeft DEF ThreadsInv, ConnsTyped
  <2>2. CASE conn' = [conn EXCEPT ![c].state = "DISCONNECTING"]
    <3> DEFINE r == [conn[c] EXCEPT !.state = "DISCONNECTING"]
    <3>1. /\ conn' = [conn EXCEPT ![c] = r]
          /\ r \in [state : States \ {"none"}, loop : {conn[c].loop}, channel : Channels,
                    output : BOOLEAN]
      BY <2>2 DEF ThreadsInv, ConnsTyped, States
    <3> HIDE DEF r
    <3> QED
      BY <1>1, <1>2, <3>1, ConnChanged DEF ThreadsInv, ConnsTyped
  <2> QED
    BY <1>1, <2>1, <2>2
<1>4. PICK l \in AllLoops : l = conn[c].loop
  BY <1>2
<1>5. c \in Own(l)'
  BY <1>2, <1>3, <1>4, MayMore DEF Own
<1>6. Call(PostedBy[p], c) \in MayQueue(l)'
  BY <1>5 DEF MayQueue, Call, ConnFunctors, Raw, PostedBy
<1>7. CallsTyped' /\ QueuesTyped'
  BY <1>1, <1>3, <1>4, <1>6, RanInLoop DEF ThreadsInv, Executing
<1>8. LoopsTyped'
  BY <1>1, <1>3, StillTyped DEF ThreadsInv
<1>9. RestTyped'
  BY <1>1 DEF ThreadsInv, RestTyped, serverVars
<1> QED
  BY <1>3, <1>7, <1>8, <1>9 DEF ThreadsInv

-----------------------------------------------------------------------------
(* The user, the peers and the loops.                                        *)

\* A callback calls op on its connection or on another one that the user keeps: on the
\* same loop, if all connections have the same one.
LEMMA UserCallsTyped ==
  ASSUME ThreadsInv, NEW x \in Threads, NEW c \in Conns, NEW d \in Conns, NEW op \in Ops,
         UserCalls(x, c, d, op), UNCHANGED serverVars
  PROVE  ThreadsInv'
<1>1. calls[x] # <<>> /\ c \in Own(x)
  BY OnOwnThread DEF UserCalls, Executing, ThreadsInv, OwnCalls
<1>2. Growing /\ ConnsTyped'
  BY ConnsLeft DEF UserCalls, ThreadsInv, ConnsTyped
<1>3. d \in Known
  BY <1>1 DEF UserCalls, ThreadsInv, ConnsTyped, Own
<1>4. Call(op, d) \in MayCall(x)
  <2>1. CASE d \in Own(x)
    BY <2>1 DEF MayCall, Call, Later
  <2>2. CASE d \notin Own(x)
    <3>1. op \in PeerOps /\ d # c
      BY <1>1, <2>2 DEF UserCalls
    <3>2. conn[c].loop \in AllLoops /\ conn[d].loop \in AllLoops
          /\ conn[c].loop # conn[d].loop /\ c \in Known
      BY <1>1, <1>3, <2>2 DEF ThreadsInv, ConnsTyped, Own, Known
    <3>3. ~(Len(loops_) <= 1)
      <4>1. (conn[c].loop = Base <=> loops_ = <<>>)
            /\ (conn[d].loop = Base <=> loops_ = <<>>)
        BY <1>3, <3>2 DEF ThreadsInv, ConnsTyped
      <4>2. loops_ # <<>> /\ conn[c].loop \in IoLoops /\ conn[d].loop \in IoLoops
        BY <3>2, <4>1 DEF AllLoops
      <4>3. PICK i \in 1..Len(loops_), j \in 1..Len(loops_) :
              conn[c].loop = loops_[i] /\ conn[d].loop = loops_[j]
        BY <4>2 DEF IoLoops
      <4>4. Len(loops_) \in Nat
        BY ConfigAssumption, LenProperties
      <4> QED
        BY <3>2, <4>3, <4>4
    <3> QED
      BY <1>3, <3>1, <3>3 DEF MayCall, Call, Later, CrossOps
  <2> QED
    BY <2>1, <2>2
<1>5. Call(op, d) \in MayCall(x)'
  BY <1>2, <1>4, MayMore
<1>6. <<Call(op, d)>> \in Seq(MayCall(x)') /\ Len(<<Call(op, d)>>) <= 1
  BY <1>5
<1>7. Return(x, <<Call(op, d)>>) /\ UNCHANGED loopVars /\ RestTyped'
  BY DEF UserCalls, ThreadsInv, RestTyped, serverVars
<1> QED
  BY <1>1, <1>2, <1>6, <1>7, OnlyCalls, Zenon

\* A thread without a loop calls op on a connection that the user keeps.
LEMMA ThreadCallsTyped ==
  ASSUME ThreadsInv, NEW u \in Users, NEW c \in Conns, NEW op \in Ops,
         ThreadCalls(u, c, op), UNCHANGED serverVars
  PROVE  ThreadsInv'
<1>1. Growing /\ ConnsTyped'
  BY ConnsLeft DEF ThreadCalls, ThreadsInv, ConnsTyped
<1>2. Call(op, c) \in MayCall(u)
  BY DEF ThreadCalls, ThreadsInv, ConnsTyped, MayCall, Call, Later, CrossOps
<1>3. Call(op, c) \in MayCall(u)'
  BY <1>1, <1>2, MayMore
<1>4. <<Call(op, c)>> \in Seq(MayCall(u)') /\ Len(<<Call(op, c)>>) <= 1
  BY <1>3
<1>5. calls' = [calls EXCEPT ![u] = <<Call(op, c)>>] /\ u \in Threads
  BY DEF ThreadCalls, Threads
<1>6. CallsTyped'
  BY <1>1, <1>4, <1>5, NewCalls, Zenon DEF ThreadsInv
<1>7. QueuesTyped' /\ LoopsTyped' /\ RestTyped'
  BY <1>1, StillTyped DEF ThreadCalls, ThreadsInv, RestTyped, serverVars
<1> QED
  BY <1>1, <1>6, <1>7 DEF ThreadsInv

\* The user drops a connection, and the peers act.
LEMMA OutsideTyped ==
  ASSUME ThreadsInv, NEW c \in Conns,
         UserDrops(c) \/ PeerSends(c) \/ PeerFinishes(c) \/ PeerResets(c),
         UNCHANGED serverVars
  PROVE  ThreadsInv'
<1>1. Growing /\ ConnsTyped'
  BY ConnsLeft DEF UserDrops, PeerSends, PeerFinishes, PeerResets, PeerActs, ThreadsInv,
     ConnsTyped
<1>2. CallsTyped' /\ QueuesTyped' /\ LoopsTyped'
  BY <1>1, StillTyped DEF UserDrops, PeerSends, PeerFinishes, PeerResets, PeerActs,
     ThreadsInv
<1>3. RestTyped'
  BY ZenonT(60) DEF UserDrops, PeerSends, PeerFinishes, PeerResets, PeerActs, ThreadsInv, RestTyped,
     serverVars
<1> QED
  BY <1>1, <1>2, <1>3 DEF ThreadsInv

\* A list of the members of a finite set, in some order.
LEMMA Listing ==
  ASSUME NEW S, IsFiniteSet(S), NEW list \in SetToSeqs(S)
  PROVE  /\ list \in Seq(S) /\ Len(list) = Cardinality(S)
         /\ \A i, j \in 1..Len(list) : i # j => list[i] # list[j]
<1>1. Cardinality(S) \in Nat
  BY FS_CardinalityType
<1>2. list \in [1..Cardinality(S) -> S]
      /\ \A i, j \in 1..Cardinality(S) : i # j => list[i] # list[j]
  BY DEF SetToSeqs
<1>3. list \in Seq(S) /\ Len(list) = Cardinality(S)
  BY <1>1, <1>2
<1> QED
  BY <1>2, <1>3

\* What a poll of loop l finds: connections of its own with something to report, and on
\* the server's loop the Acceptor.  There are no more of them than channels.
Found(l, accepting, writable) ==
  {[c |-> a, events |-> {"IN"}] : a \in accepting} \cup
  {e \in {[c |-> c, events |-> Reported(c, c \in writable)] : c \in Watched(l)} :
     e.events # {}}

\* A poll reports each channel of its own loop once.
LEMMA FoundReports ==
  ASSUME ThreadsInv, NEW l \in AllLoops, NEW accepting \in SUBSET {Acceptor},
         accepting # {} => l = Base, NEW writable
  PROVE  /\ Found(l, accepting, writable) \subseteq MayReport(l)
         /\ \A e, f \in Found(l, accepting, writable) : e.c = f.c => e = f
         /\ IsFiniteSet(Found(l, accepting, writable))
         /\ Cardinality(Found(l, accepting, writable)) <= Cardinality(Conns) + 1
<1> DEFINE ready == Found(l, accepting, writable)
<1>1. ASSUME NEW e \in ready
      PROVE  \/ e = [c |-> Acceptor, events |-> {"IN"}] /\ l = Base
             \/ \E c \in Watched(l) :
                  e = [c |-> c, events |-> Reported(c, c \in writable)]
  BY <1>1 DEF Found
<1>2. \A c \in Watched(l) : c \in Own(l) /\ c \in Conns /\ c # Acceptor
  BY AcceptorAssumption
     DEF Watched, Own, Known, ThreadsInv, ConnsTyped, NewConn, NewChannel
<1>3. ready \subseteq MayReport(l)
  <2>1. \A c : Reported(c, c \in writable) \in Reports
    BY DEF Reported, Reports
  <2>2. \A e \in ready : e \in MayReport(l)
    BY <1>1, <1>2, <2>1 DEF MayReport, Reports
  <2> QED
    BY <2>2
<1>4. \A e, f \in ready : e.c = f.c => e = f
  BY <1>1, <1>2
<1>5. \A e \in ready : e.c \in Conns \cup {Acceptor}
  BY <1>1, <1>2
<1> HIDE DEF ready
<1> DEFINE T == Conns \cup {Acceptor}
           name == [e \in ready |-> e.c]
<1>6. name \in Injection(ready, T)
  BY <1>4, <1>5 DEF Injection, IsInjective
<1>7. IsFiniteSet(T) /\ Cardinality(T) = Cardinality(Conns) + 1
  BY ConfigAssumption, AcceptorAssumption, FS_AddElement
<1> HIDE DEF T, name
<1>8. IsFiniteSet(ready) /\ Cardinality(ready) <= Cardinality(T)
  BY <1>6, <1>7, FS_Injection
<1> QED
  BY <1>3, <1>4, <1>7, <1>8 DEF ready

\* What a poll leaves when it returns with a list.
LEMMA PollTyped ==
  ASSUME ThreadsInv, NEW l \in AllLoops, PollAccepting(l), UNCHANGED serverVars
  PROVE  ThreadsInv'
<1>1. PICK accepting \in SUBSET {Acceptor} :
        /\ accepting # {} => l = Base
        /\ Poll(l, {[c |-> a, events |-> {"IN"}] : a \in accepting})
  BY DEF PollAccepting
<1>2. PICK writable \in SUBSET Watched(l) :
        LET ready == Found(l, accepting, writable)
        IN  IF Cardinality(ready) >= EventListSize
            THEN Abort("fill_active_channels")
            ELSE /\ \E list \in SetToSeqs(ready) :
                       active_channels_' = [active_channels_ EXCEPT ![l] = list]
                 /\ phase' = [phase EXCEPT ![l] = "events"]
                 /\ current' = [current EXCEPT ![l] = 0]
                 /\ UNCHANGED <<conn, socket, connections_, kept, queue_functors_,
                                functors, running, quit_flag_, calls, log, aborted>>
  BY <1>1 DEF Poll, Found
<1> DEFINE ready == Found(l, accepting, writable)
<1>3. CASE Cardinality(ready) >= EventListSize
  BY <1>2, <1>3, AbortTyped
<1>4. CASE ~(Cardinality(ready) >= EventListSize)
  <2>1. PICK list \in SetToSeqs(ready) :
          active_channels_' = [active_channels_ EXCEPT ![l] = list]
    BY <1>2, <1>4
  <2>2. /\ phase' = [phase EXCEPT ![l] = "events"]
        /\ current' = [current EXCEPT ![l] = 0]
        /\ UNCHANGED <<conn, socket, connections_, kept, queue_functors_,
                       functors, running, quit_flag_, calls, log, aborted>>
    BY <1>2, <1>4
  <2>3. ready \subseteq MayReport(l) /\ IsFiniteSet(ready)
    BY <1>1, FoundReports
  <2> HIDE DEF ready
  <2>4. list \in Seq(ready)
    BY <2>1, <2>3, Listing
  <2>5. list \in Seq(MayReport(l)) /\ list \in Seq(AnyReport)
    BY <2>3, <2>4, MayAny, SeqMonotonic
  <2>6. Growing /\ ConnsTyped'
    BY <2>2, ConnsLeft DEF ThreadsInv, ConnsTyped
  <2>7. CallsTyped' /\ QueuesTyped' /\ RestTyped'
    BY <2>2, <2>6, StillTyped DEF ThreadsInv, RestTyped, serverVars
  <2>8. \A m \in AllLoops : /\ MayReport(m) \subseteq MayReport(m)'
                            /\ MayQueue(m) \subseteq MayQueue(m)'
    BY <2>6, MayMore
  <2>9. \A m \in AllLoops : /\ active_channels_'[m] \in Seq(MayReport(m)')
                            /\ functors'[m] \in Seq(MayQueue(m)')
    BY <2>1, <2>2, <2>5, <2>8, SeqGrows DEF ThreadsInv, LoopsTyped
  <2>10. active_channels_' \in [AllLoops -> Seq(AnyReport)]
    BY <2>1, <2>5 DEF ThreadsInv, LoopsTyped
  <2>11. Len(list) >= 0
    BY <2>4, LenProperties
  <2>12. \A m \in AllLoops : /\ current'[m] <= Len(active_channels_'[m])
                             /\ running'[m] <= Len(functors'[m])
                             /\ phase'[m] # "events" =>
                                  current'[m] = 0 /\ active_channels_'[m] = <<>>
                             /\ phase'[m] # "functors" =>
                                  running'[m] = 0 /\ functors'[m] = <<>>
    BY <1>1, <2>1, <2>2, <2>11 DEF Poll, ThreadsInv, LoopsTyped
  <2>13. LoopsTyped'
    BY <2>2, <2>9, <2>10, <2>12 DEF ThreadsInv, LoopsTyped
  <2> QED
    BY <2>6, <2>7, <2>13 DEF ThreadsInv
<1> QED
  BY <1>3, <1>4

\* The loop calls handlers of a channel of its own, or of the Acceptor.
LEMMA DispatchTyped ==
  ASSUME ThreadsInv, NEW l \in AllLoops, Handling(l), NEW s, s \in Seq(MayCall(l)'),
         Dispatches(l, s), UNCHANGED serverVars
  PROVE  ThreadsInv'
<1>1. Growing /\ ConnsTyped'
  BY ConnsLeft DEF Dispatches, ThreadsInv, ConnsTyped
<1>2. l \in Threads /\ l \notin Users
  BY ConfigAssumption DEF Threads
<1>3. calls' = [calls EXCEPT ![l] = s]
  BY DEF Dispatches
<1>4. CallsTyped'
  BY <1>1, <1>2, <1>3, NewCalls DEF ThreadsInv
<1>5. QueuesTyped' /\ RestTyped'
  BY <1>1, StillTyped DEF Dispatches, ThreadsInv, RestTyped, serverVars
<1>6. \A m \in AllLoops : /\ active_channels_'[m] \in Seq(MayReport(m)')
                          /\ functors'[m] \in Seq(MayQueue(m)')
  BY <1>1, MayMore, SeqGrows DEF Dispatches, ThreadsInv, LoopsTyped
<1>7. current[l] + 1 <= Len(active_channels_[l]) /\ current[l] + 1 \in Nat
  <2>1. Len(active_channels_[l]) \in Nat /\ current[l] \in Nat
    BY LenProperties DEF ThreadsInv, LoopsTyped
  <2> QED
    BY <2>1 DEF Handling
<1>8. LoopsTyped'
  BY <1>6, <1>7 DEF Dispatches, Handling, ThreadsInv, LoopsTyped
<1> QED
  BY <1>1, <1>4, <1>5, <1>8 DEF ThreadsInv

\* What a loop does with a reported channel is its own.
LEMMA HandleTyped ==
  ASSUME ThreadsInv, NEW l \in AllLoops, HandleAccept(l) \/ HandleEvent(l),
         UNCHANGED serverVars
  PROVE  ThreadsInv'
<1>1. NextActive(l) \in MayReport(l)
  <2>1. Len(active_channels_[l]) \in Nat /\ current[l] \in Nat
    BY LenProperties DEF ThreadsInv, LoopsTyped
  <2>2. current[l] + 1 \in 1..Len(active_channels_[l])
    BY <2>1 DEF HandleAccept, HandleEvent, Handling
  <2>3. active_channels_[l] \in Seq(MayReport(l))
    BY DEF ThreadsInv, LoopsTyped
  <2> QED
    BY <2>2, <2>3, ElementOfSeq DEF NextActive
<1>2. CASE HandleAccept(l)
  <2>1. l = Base
    <3>1. \A c \in Own(l) : c \in Conns
      BY DEF Own, Known
    <3> QED
      BY <1>1, <1>2, <3>1, AcceptorAssumption DEF HandleAccept, MayReport
  <2>2. Call("new_connection", Acceptor) \in MayCall(l)'
    BY <2>1 DEF MayCall
  <2>3. <<Call("new_connection", Acceptor)>> \in Seq(MayCall(l)')
    BY <2>2
  <2> QED
    BY <1>2, <2>3, DispatchTyped DEF HandleAccept
<1>3. CASE HandleEvent(l) /\ ~Alive(NextActive(l).c)
  BY <1>3, AbortTyped DEF HandleEvent
<1>4. CASE HandleEvent(l) /\ Alive(NextActive(l).c)
  <2>1. PICK c \in Conns : c = NextActive(l).c
    BY <1>4 DEF HandleEvent
  <2>2. c \in Own(l)
    BY <1>1, <2>1, AcceptorAssumption DEF MayReport
  <2>3. c \in Own(l)'
    BY <1>4, <2>2 DEF HandleEvent, Dispatches, Own, Known, Created
  <2> DEFINE handlers == Dispatch(NextActive(l).events)
             H == {"handle_close", "handle_error", "handle_read", "handle_write"}
             s == [i \in 1..Len(handlers) |-> Call(handlers[i], c)]
  <2>4. handlers \in Seq(H)
    BY DispatchHandlers
  <2>5. Handling(l) /\ Dispatches(l, s)
    BY <1>4, <2>1 DEF HandleEvent
  <2> HIDE DEF handlers
  <2>6. \A i \in 1..Len(handlers) : Call(handlers[i], c) \in MayCall(l)'
    <3>1. \A i \in 1..Len(handlers) : handlers[i] \in H
      BY <2>4, ElementOfSeq
    <3>2. \A h \in H : h \in OwnCalls
      BY DEF OwnCalls
    <3> QED
      BY <2>3, <3>1, <3>2 DEF MayCall, Call
  <2>7. Len(handlers) \in Nat
    BY <2>4, LenProperties
  <2>8. s \in Seq(MayCall(l)')
    BY <2>6, <2>7
  <2> QED
    BY <2>5, <2>8, DispatchTyped
<1> QED
  BY <1>2, <1>3, <1>4

\* do_queued_functors takes the queue, runs it and destroys it.
LEMMA FunctorsTyped ==
  ASSUME ThreadsInv, NEW l \in AllLoops,
         SwapQueue(l) \/ RunFunctor(l) \/ FunctorsDone(l), UNCHANGED serverVars
  PROVE  ThreadsInv'
<1>1. UNCHANGED <<conn, socket, connections_, kept>>
  BY DEF SwapQueue, RunFunctor, FunctorsDone, Abort
<1>2. Growing /\ ConnsTyped' /\ RestTyped'
  BY <1>1, ConnsLeft DEF ThreadsInv, ConnsTyped, RestTyped, serverVars
<1>3. \A m \in AllLoops : /\ MayReport(m) \subseteq MayReport(m)'
                          /\ MayQueue(m) \subseteq MayQueue(m)'
  BY <1>2, MayMore
<1>4. \A S : <<>> \in Seq(S) /\ Len(<<>>) = 0
  BY EmptySeq
<1>5. /\ \A m \in AllLoops : queue_functors_[m] \in Seq(MayQueue(m)')
      /\ \A m \in AllLoops : functors[m] \in Seq(MayQueue(m)')
      /\ \A m \in AllLoops : active_channels_[m] \in Seq(MayReport(m)')
  BY <1>3, SeqGrows DEF ThreadsInv, QueuesTyped, LoopsTyped
<1>6. \A m \in AllLoops : Len(queue_functors_[m]) \in Nat /\ Len(functors[m]) \in Nat
  BY LenProperties DEF ThreadsInv, QueuesTyped, LoopsTyped
<1>7. CASE SwapQueue(l)
  <2>1. CallsTyped'
    BY <1>2, <1>7, StillTyped DEF SwapQueue, ThreadsInv
  <2>2. QueuesTyped'
    BY <1>4, <1>5, <1>7 DEF SwapQueue, ThreadsInv, QueuesTyped
  <2>3. /\ functors' \in [AllLoops -> Seq(AnyCall)]
        /\ active_channels_' \in [AllLoops -> Seq(AnyReport)]
    BY <1>4, <1>7 DEF SwapQueue, ThreadsInv, QueuesTyped, LoopsTyped
  <2>4. LoopsTyped'
    BY <1>4, <1>5, <1>6, <1>7, <2>3 DEF SwapQueue, ThreadsInv, QueuesTyped, LoopsTyped
  <2> QED
    BY <1>2, <2>1, <2>2, <2>4 DEF ThreadsInv
<1>8. CASE RunFunctor(l)
  <2> DEFINE f == functors[l][running[l] + 1]
  <2>1. CASE Abort("use_after_free")
    BY <2>1, AbortTyped
  <2>2. CASE /\ running' = [running EXCEPT ![l] = @ + 1]
             /\ calls' = [calls EXCEPT ![l] = <<f>>]
             /\ UNCHANGED <<conn, socket, connections_, kept, phase, active_channels_,
                            current, queue_functors_, functors, quit_flag_, log, aborted>>
    <3>1. running[l] + 1 \in 1..Len(functors[l])
      BY <1>6, <1>8 DEF RunFunctor, ThreadsInv, LoopsTyped
    <3>2. f \in MayCall(l)'
      <4>1. f \in MayQueue(l)
        BY <3>1, ElementOfSeq DEF ThreadsInv, LoopsTyped
      <4> QED
        BY <1>2, <4>1, QueuedCalls, MayMore
    <3>3. <<f>> \in Seq(MayCall(l)') /\ Len(<<f>>) <= 1
      BY <3>2
    <3>4. l \in Threads
      BY DEF Threads
    <3> HIDE DEF f
    <3>5. CallsTyped'
      BY <1>2, <2>2, <3>3, <3>4, NewCalls, Zenon DEF ThreadsInv
    <3>6. QueuesTyped'
      BY <1>2, <2>2, StillTyped DEF ThreadsInv
    <3>7. LoopsTyped'
      BY <1>5, <1>8, <2>2, <3>1 DEF RunFunctor, ThreadsInv, LoopsTyped
    <3> QED
      BY <1>2, <3>5, <3>6, <3>7 DEF ThreadsInv
  <2> QED
    BY <1>8, <2>1, <2>2 DEF RunFunctor
<1>9. CASE FunctorsDone(l)
  <2>1. CallsTyped'
    BY <1>2, <1>9, StillTyped DEF FunctorsDone, ThreadsInv
  <2>2. QueuesTyped'
    <3>1. \/ UNCHANGED queue_functors_
          \/ queue_functors_' = [queue_functors_ EXCEPT ![l] = <<>>]
      BY <1>9 DEF FunctorsDone
    <3> QED
      BY <1>4, <1>5, <3>1 DEF ThreadsInv, QueuesTyped
  <2>3. LoopsTyped'
    <3>1. /\ functors' = [functors EXCEPT ![l] = <<>>]
          /\ running' = [running EXCEPT ![l] = 0]
          /\ UNCHANGED <<active_channels_, current, quit_flag_>>
          /\ phase[l] = "functors"
      BY <1>9 DEF FunctorsDone
    <3>2. \E p \in {"exited", "poll"} : phase' = [phase EXCEPT ![l] = p]
      BY <1>9 DEF FunctorsDone
    <3> QED
      BY <1>4, <1>5, <3>1, <3>2 DEF ThreadsInv, LoopsTyped
  <2> QED
    BY <1>2, <2>1, <2>2, <2>3 DEF ThreadsInv
<1> QED
  BY <1>7, <1>8, <1>9

-----------------------------------------------------------------------------
(* The server.                                                              *)

\* Its own functions run on its loop.
LEMMA OnServerThread ==
  ASSUME ThreadsInv, NEW x \in Threads, NEW fn \in BaseCalls \cup {"new_connection"}, NEW c,
         Executing(x, fn, c)
  PROVE  /\ x = Base /\ x \in AllLoops /\ calls[x] # <<>>
         /\ fn \in BaseCalls => c \in Known
<1>1. Call(fn, c) \in MayCall(x) /\ calls[x] # <<>>
  BY CallUnderWay DEF Executing, ThreadsInv
<1>2. fn \notin OwnCalls /\ fn \notin Later(Ops) /\ fn \notin Later(CrossOps)
  BY ConfigAssumption DEF OwnCalls, ConnFunctors, Raw, Later, Ops, AfterTest, CrossOps,
     BaseCalls
<1>3. "new_connection" \notin BaseCalls
  BY DEF BaseCalls
<1> QED
  BY <1>1, <1>2, <1>3 DEF MayCall, Call, AllLoops

\* get_next_loop gives a loop of the pool, or the server's own when there is none.
LEMMA NextLoopIsLoop ==
  ASSUME RestTyped
  PROVE  NextLoop \in AllLoops /\ (NextLoop = Base <=> loops_ = <<>>)
<1>1. CASE loops_ = <<>>
  BY <1>1 DEF NextLoop, AllLoops
<1>2. CASE loops_ # <<>>
  <2>1. Len(loops_) \in Nat /\ Len(loops_) # 0
    BY <1>2, ConfigAssumption, LenProperties, EmptySeq
  <2>2. next_ \in 1..Len(loops_)
    BY <2>1 DEF RestTyped
  <2>3. loops_[next_] \in IoLoops
    BY <2>2 DEF IoLoops
  <2> QED
    BY <1>2, <2>3, ConfigAssumption DEF NextLoop, AllLoops
<1> QED
  BY <1>1, <1>2

\* A new connection is given to its loop, which alone calls its functions.
LEMMA NewConnectionTyped ==
  ASSUME ThreadsInv, NEW x \in Threads, NewConnection(x)
  PROVE  ThreadsInv'
<1>1. PICK c \in Fresh :
        /\ conn' = [conn EXCEPT ![c].state = "CONNECTING", ![c].loop = NextLoop]
        /\ connections_' = connections_ \cup {c}
        /\ RunInLoop(x, NextLoop, Call("connect_established", c))
  BY DEF NewConnection
<1>2. PICK l \in AllLoops : l = NextLoop /\ (l = Base <=> loops_ = <<>>)
  BY NextLoopIsLoop DEF ThreadsInv
<1>3. x \in AllLoops /\ calls[x] # <<>>
  BY OnServerThread DEF NewConnection
<1> DEFINE r == [NewConn EXCEPT !.state = "CONNECTING", !.loop = l]
<1>4. c \in Conns /\ conn[c] = NewConn /\ ~Created(c)
  BY DEF Fresh, ThreadsInv, ConnsTyped
<1>5. conn' = [conn EXCEPT ![c] = r]
  BY <1>1, <1>2, <1>4 DEF ThreadsInv, ConnsTyped
<1>6. r \in [state : States, loop : AllLoops, channel : Channels, output : BOOLEAN]
      /\ r.state # "none" /\ r.loop = l
  BY DEF NewConn, NewChannel, States, Channels, Flags, Interest, AllLoops
<1> HIDE DEF r
<1>7. /\ Known' = Known \cup {c} /\ Growing /\ c \in Own(l)'
      /\ \A d \in Conns : ~Created(d)' => conn'[d] = NewConn
  BY <1>4, <1>5, <1>6 DEF Known, Own, Created, Growing, ThreadsInv, ConnsTyped
<1>8. ConnsTyped'
  <2>1. conn' \in [Conns -> [state : States, loop : AllLoops, channel : Channels,
                            output : BOOLEAN]]
    BY <1>4, <1>5, <1>6 DEF ThreadsInv, ConnsTyped
  <2>2. connections_' \subseteq Known' /\ kept' \subseteq Known'
    BY <1>1, <1>7 DEF NewConnection, ThreadsInv, ConnsTyped
  <2>3. \A d \in Known' : conn'[d].loop = Base <=> loops_ = <<>>
    BY <1>2, <1>4, <1>5, <1>6, <1>7 DEF ThreadsInv, ConnsTyped
  <2> QED
    BY <1>7, <2>1, <2>2, <2>3 DEF ConnsTyped
<1>9. Call("connect_established", c) \in MayQueue(l)'
  BY <1>7 DEF MayQueue, Call, ConnFunctors
<1>10. CallsTyped' /\ QueuesTyped'
  BY <1>1, <1>2, <1>3, <1>7, <1>9, RanInLoop DEF ThreadsInv
<1>11. LoopsTyped'
  BY <1>7, StillTyped DEF NewConnection, ThreadsInv
<1>12. RestTyped'
  <2>1. Len(loops_) \in Nat
    BY ConfigAssumption, LenProperties
  <2>2. next_' \in 1..Len(loops_) \cup {1}
    BY <2>1 DEF NewConnection, ThreadsInv, RestTyped
  <2> QED
    BY <2>2 DEF NewConnection, ThreadsInv, RestTyped
<1> QED
  BY <1>8, <1>10, <1>11, <1>12 DEF ThreadsInv

\* Removal goes from the connection's thread to the server's and back.
LEMMA RemovalTyped ==
  ASSUME ThreadsInv, NEW x \in Threads, NEW c \in Conns,
         RemoveConnection(x, c) \/ RemoveConnectionInLoop(x, c) \/ Release(x, c)
  PROVE  ThreadsInv'
<1>1. CASE RemoveConnection(x, c)
  <2>1. c \in Own(x) /\ c \in Known /\ calls[x] # <<>>
    BY <1>1, OnOwnThread, OwnerIsLoop DEF RemoveConnection, Executing, ThreadsInv, OwnCalls
  <2>2. Growing /\ ConnsTyped' /\ RestTyped'
    BY <1>1, ConnsLeft DEF RemoveConnection, ThreadsInv, ConnsTyped, RestTyped, serverVars
  <2>3. Call("remove_connection_in_loop", c) \in MayQueue(Base)'
    BY <2>1, <2>2, MayMore DEF MayQueue, Call
  <2>4. CallsTyped' /\ QueuesTyped'
    BY <1>1, <2>1, <2>2, <2>3, RanInLoop DEF RemoveConnection, ThreadsInv, AllLoops
  <2>5. LoopsTyped'
    BY <1>1, <2>2, StillTyped DEF RemoveConnection, ThreadsInv
  <2> QED
    BY <2>2, <2>4, <2>5 DEF ThreadsInv
<1>2. CASE Abort("remove_connection_in_loop") /\ UNCHANGED serverVars
  BY <1>2, AbortTyped
<1>3. ASSUME NEW fn \in BaseCalls, Executing(x, fn, c), connections_' = connections_ \ {c},
             RunInLoop(x, conn[c].loop, Call("connect_destroyed", c)),
             UNCHANGED <<conn, socket, kept, loopVars, serverVars>>
      PROVE  ThreadsInv'
  <2>1. c \in Known /\ calls[x] # <<>>
    BY <1>3, OnServerThread
  <2>2. PICK l \in AllLoops : l = conn[c].loop
    BY <2>1 DEF ThreadsInv, ConnsTyped, Known
  <2>3. Growing /\ ConnsTyped' /\ RestTyped'
    BY <1>3, ConnsLeft DEF ThreadsInv, ConnsTyped, RestTyped, serverVars
  <2>4. c \in Own(l)'
    BY <2>1, <2>2, <2>3, MayMore DEF Own
  <2>5. Call("connect_destroyed", c) \in MayQueue(l)'
    BY <2>4 DEF MayQueue, Call, ConnFunctors
  <2>6. CallsTyped' /\ QueuesTyped'
    BY <1>3, <2>1, <2>2, <2>3, <2>5, RanInLoop DEF ThreadsInv
  <2>7. LoopsTyped'
    BY <1>3, <2>3, StillTyped DEF ThreadsInv
  <2> QED
    BY <2>3, <2>6, <2>7 DEF ThreadsInv
<1> QED
  BY <1>1, <1>2, <1>3 DEF RemoveConnectionInLoop, Release, BaseCalls, serverVars

\* The end of the server.
LEMMA ServerStepTyped ==
  ASSUME ThreadsInv, ServerStep
  PROVE  ThreadsInv'
<1>1. UNCHANGED <<conn, socket, connections_, kept, next_, queue_functors_>>
  BY DEF ServerStep, Start, QuitBase, DestroyServer, StopPool, connVars, serverVars
<1>2. Growing /\ ConnsTyped' /\ QueuesTyped'
  BY <1>1, ConnsLeft, StillTyped DEF ThreadsInv, ConnsTyped
<1>3. RestTyped'
  BY <1>1 DEF ThreadsInv, RestTyped, ServerStep, Start, QuitBase, DestroyServer, StopPool,
     serverVars
<1>4. LoopsTyped'
  <2>1. \A m \in AllLoops : /\ functors[m] \in Seq(MayQueue(m)')
                            /\ active_channels_[m] \in Seq(MayReport(m)')
    BY <1>2, MayMore, SeqGrows DEF ThreadsInv, LoopsTyped
  <2>2. UNCHANGED <<phase, active_channels_, current, functors, running>>
    BY DEF ServerStep, Start, QuitBase, DestroyServer, StopPool, loopVars, connVars
  <2>3. quit_flag_' \in [AllLoops -> BOOLEAN]
    <3>1. CASE UNCHANGED quit_flag_
      BY <3>1 DEF ThreadsInv, LoopsTyped
    <3>2. CASE QuitBase
      BY <3>2 DEF QuitBase, ThreadsInv, LoopsTyped
    <3>3. CASE StopPool
      <4> DEFINE q(l) == \/ quit_flag_[l]
                         \/ \E i \in 1..Len(loops_) :
                              l = loops_[i] /\ \A j \in 1..(i-1) : Exited(j)
      <4>1. quit_flag_' = [l \in AllLoops |-> q(l)]
        BY <3>3, Zenon DEF StopPool
      <4>2. \A l \in AllLoops : q(l) \in BOOLEAN
        BY Zenon
      <4> HIDE DEF q
      <4> QED
        BY <4>1, <4>2, Zenon
    <3> QED
      BY <3>1, <3>2, <3>3 DEF ServerStep, Start, DestroyServer, loopVars, connVars
  <2> QED
    BY <2>1, <2>2, <2>3 DEF ThreadsInv, LoopsTyped
<1>5. CallsTyped'
  <2>1. CASE UNCHANGED calls
    BY <1>2, <2>1, StillTyped DEF ThreadsInv
  <2>2. CASE DestroyServer
    <3>1. PICK list \in SetToSeqs(connections_) :
            calls' = [calls EXCEPT ![Base] =
                        [i \in 1..Len(list) |-> Call("release", list[i])]]
      BY <2>2 DEF DestroyServer
    <3>2. connections_ \subseteq Known /\ IsFiniteSet(connections_)
      BY ConfigAssumption, FS_Subset DEF ThreadsInv, ConnsTyped, Known
    <3>3. list \in Seq(connections_)
      BY <3>1, <3>2, Listing
    <3> DEFINE s == [i \in 1..Len(list) |-> Call("release", list[i])]
    <3>4. \A i \in 1..Len(list) : Call("release", list[i]) \in MayCall(Base)'
      <4>1. \A i \in 1..Len(list) : list[i] \in Known'
        BY <1>2, <3>2, <3>3, ElementOfSeq, MayMore
      <4> QED
        BY <4>1 DEF MayCall, Call, BaseCalls
    <3>5. s \in Seq(MayCall(Base)')
      BY <3>3, <3>4, LenProperties
    <3>6. Base \in Threads /\ Base \notin Users
      BY ConfigAssumption DEF Threads, AllLoops
    <3> HIDE DEF s
    <3>7. calls' = [calls EXCEPT ![Base] = s]
      BY <3>1 DEF s
    <3> QED
      BY <1>2, <3>5, <3>6, <3>7, NewCalls DEF ThreadsInv
  <2> QED
    BY <2>1, <2>2 DEF ServerStep, Start, QuitBase, StopPool, connVars
<1> QED
  BY <1>2, <1>3, <1>4, <1>5 DEF ThreadsInv

-----------------------------------------------------------------------------
(* The invariant.                                                           *)

\* At first no thread has anything to do.
LEMMA InitThreads == Init => ThreadsInv
<1> SUFFICES ASSUME Init PROVE ThreadsInv
  OBVIOUS
<1>1. \A S : <<>> \in Seq(S) /\ Len(<<>>) = 0
  BY EmptySeq
<1>2. ConnsTyped
  <2>1. NewConn \in [state : States, loop : AllLoops, channel : Channels,
                     output : BOOLEAN] /\ NewConn.state = "none"
    BY DEF NewConn, NewChannel, States, Channels, Flags, Interest, AllLoops
  <2> QED
    BY <2>1 DEF Init, ConnInit, ConnsTyped, Known, Created
<1>3. CallsTyped
  BY <1>1 DEF Init, CallsTyped, Threads
<1>4. QueuesTyped /\ LoopsTyped
  BY <1>1 DEF Init, ConnInit, QueuesTyped, LoopsTyped
<1>5. RestTyped
  BY DEF Init, ConnInit, RestTyped, NewSocket
<1> QED
  BY <1>2, <1>3, <1>4, <1>5 DEF ThreadsInv

\* A thread that goes on stays within what it may do.
LEMMA ContinueTyped ==
  ASSUME ThreadsInv, NEW x \in Threads, Continue(x)
  PROVE  ThreadsInv'
<1>1. CASE ConnStep(x) /\ UNCHANGED serverVars
  <2>1. PICK c \in Conns :
          \/ ConnectEstablished(x, c) \/ HandleRead(x, c) \/ HandleError(x, c)
          \/ HandleWrite(x, c) \/ HandleClose(x, c) \/ ConnectDestroyed(x, c)
          \/ RemoveChannel(x, c) \/ SendInLoop(x, c) \/ ShutdownInLoop(x, c)
          \/ ForceCloseInLoop(x, c) \/ StartReadInLoop(x, c) \/ StopReadInLoop(x, c)
          \/ TestState(x, c) \/ Post(x, c) \/ UserReturns(x, c) \/ HandleWritten(x, c)
          \/ QueueOutputCallback(x, c) \/ OutputCallback(x, c)
    BY <1>1 DEF ConnStep
  <2> QED
    BY <1>1, <2>1, EstablishedTyped, ReadTyped, IoTyped, CloseTyped, RemoveTyped, TestTyped,
       PostTyped, NoticeTyped
<1> QED
  BY <1>1, NewConnectionTyped, RemovalTyped DEF Continue

\* Every step keeps the threads to their own calls.
LEMMA NextThreads == ThreadsInv /\ [Next]_vars => ThreadsInv'
<1> SUFFICES ASSUME ThreadsInv, [Next]_vars PROVE ThreadsInv'
  OBVIOUS
<1>1. CASE UNCHANGED vars
  <2>1. Growing /\ ConnsTyped'
    BY <1>1, ConnsLeft DEF vars, connVars, ThreadsInv, ConnsTyped
  <2> QED
    BY <1>1, <2>1, StillTyped DEF vars, connVars, ThreadsInv, RestTyped, serverVars
<1>2. ASSUME NEW x \in Threads, Continue(x) PROVE ThreadsInv'
  BY <1>2, ContinueTyped
<1>3. ASSUME NEW l \in AllLoops, Loop(l) PROVE ThreadsInv'
  BY <1>3, PollTyped, HandleTyped, FunctorsTyped DEF Loop, LoopStep
<1>4. CASE (UserStep \/ PeerStep) /\ UNCHANGED serverVars
  BY <1>4, UserCallsTyped, ThreadCallsTyped, OutsideTyped DEF UserStep, PeerStep
<1>5. CASE ServerStep
  BY <1>5, ServerStepTyped
<1> QED
  BY <1>1, <1>2, <1>3, <1>4, <1>5 DEF Next

\* So they always do.
LEMMA ThreadsInvariant == Spec => []ThreadsInv
  BY InitThreads, NextThreads, PTL DEF Spec

\* The connections, the loops and the server always have the values of their types
\* (tcp_conn.hpp, tcp_server.cpp, eventloop.cpp).
THEOREM TypeCorrect == Spec => []TypeOK
<1>1. ThreadsInv => TypeOK
  <2> SUFFICES ASSUME ThreadsInv PROVE TypeOK
    OBVIOUS
  <2>1. ConnTypeOK
    <3>1. \A l \in AllLoops : /\ current[l] \in 0..Len(active_channels_[l])
                             /\ running[l] \in 0..Len(functors[l])
      BY LenProperties DEF ThreadsInv, LoopsTyped
    <3> QED
      BY <3>1 DEF ConnTypeOK, ThreadsInv, ConnsTyped, LoopsTyped, Known
  <2>2. ASSUME NEW l \in AllLoops, NEW i \in 1..Len(queue_functors_[l])
        PROVE  queue_functors_[l][i].fn \in Owning \cup Raw
    <3>1. queue_functors_[l][i] \in MayQueue(l)
      BY ElementOfSeq DEF ThreadsInv, QueuesTyped
    <3> QED
      BY <3>1 DEF MayQueue, ConnFunctors, Owning
  <2> QED
    BY <2>1, <2>2 DEF TypeOK, ThreadsInv, RestTyped, CallsTyped
<1> QED
  BY <1>1, ThreadsInvariant, PTL

\* Whatever the user calls on whatever thread, and however many loops there are, every
\* function of a connection that touches its channel or its buffers runs on the loop it
\* was given to, and the server's own functions run on the server's loop: what
\* assert_in_loop_thread says all over tcp_conn.cpp and tcp_server.cpp.
THEOREM RunsInLoopThread == Spec => []InLoopThread
<1>1. ThreadsInv => InLoopThread
  <2> SUFFICES ASSUME ThreadsInv, NEW x \in Threads, NEW i \in 1..Len(calls[x])
               PROVE  /\ calls[x][i].fn \in {"connect_established", "handle_read",
                           "handle_error", "handle_write", "handle_written",
                           "handle_close", "connect_destroyed", "remove"} \cup Raw
                           => x = conn[calls[x][i].c].loop
                      /\ calls[x][i].fn \in {"new_connection",
                           "remove_connection_in_loop", "release"} => x = Base
    BY DEF InLoopThread, ConnInLoopThread
  <2>1. calls[x][i] \in MayCall(x)
    BY ElementOfSeq DEF ThreadsInv, CallsTyped
  <2>2. /\ {"connect_established", "handle_read", "handle_error", "handle_write",
            "handle_written", "handle_close", "connect_destroyed", "remove"} \cup Raw \subseteq OwnCalls
        /\ OwnCalls \cap Later(CrossOps) = {} /\ OwnCalls \cap BaseCalls = {}
        /\ "new_connection" \notin OwnCalls
    BY ConfigAssumption
       DEF OwnCalls, ConnFunctors, Raw, Later, CrossOps, Ops, AfterTest, BaseCalls
  <2>3. Later(CrossOps) \subseteq Later(Ops)
    <3>1. CrossOps \subseteq Ops
      BY ConfigAssumption DEF CrossOps
    <3> QED
      BY <3>1 DEF Later
  <2>4. "new_connection" \notin Later(Ops) /\ BaseCalls \cap Later(Ops) = {}
    BY DEF Later, Ops, AfterTest, BaseCalls
  <2> QED
    BY <2>1, <2>2, <2>3, <2>4 DEF MayCall, Own, Call, BaseCalls
<1> QED
  BY <1>1, ThreadsInvariant, PTL

-----------------------------------------------------------------------------
(* Where closes come from the connection's own thread only: the second step   *)
(* of shutdown() and force_close() still finds the connection open, a         *)
(* connection is removed because it is down, and one that is down stays down. *)

\* No other thread calls shutdown() or force_close() on a connection.
ClosesOnOwnThread == {"shutdown", "force_close"} \cap CrossOps = {}

Posting  == {"post_shutdown", "post_force_close"}
Removing == {"remove_connection", "remove_connection_in_loop"}
Ending   == server \in {"dying", "dead"}
Down(c)  == conn[c].state = "DISCONNECTED"

\* The calls that wait on a stack or in a queue.
Settled == {k \in AnyCall : /\ k.fn \notin Posting
                            /\ k.fn \in Removing => k.c \in Conns /\ Down(k.c)
                            /\ k.fn = "release" => Ending}

\* The innermost call of a stack may also be between the test and the act of a close.
Inner == Settled \cup {k \in AnyCall : k.fn \in Posting /\ Open(k.c)}

StacksSettled == \A x \in Threads :
  calls[x] # <<>> => Head(calls[x]) \in Inner /\ Tail(calls[x]) \in Seq(Settled)
QueuesSettled == \A l \in AllLoops :
  queue_functors_[l] \in Seq(Settled) /\ functors[l] \in Seq(Settled)
MapHeld == ~Ending => \A c \in Conns :
  conn[c].state \in {"CONNECTING", "CONNECTED", "DISCONNECTING"} => c \in connections_

SettledInv == StacksSettled /\ QueuesSettled /\ MapHeld

\* Of a step: what is down and what is ending stays so, and no connection of another
\* thread than x changes.
Staying  == (\A c \in Conns : Down(c) => Down(c)') /\ (Ending => Ending')
Only(x)  == \A d \in Conns : d \notin Own(x) => conn'[d] = conn[d]
Local(x) == \A d \in Known : d \notin Own(x) => conn'[d] = conn[d]

\* A close is under way only on the connection's own thread.
LEMMA OwnPosting ==
  ASSUME ClosesOnOwnThread, NEW x, NEW k \in MayCall(x), k.fn \in Posting
  PROVE  k.c \in Own(x)
<1>1. Later(CrossOps) \cap Posting = {}
  <2>1. CrossOps \subseteq Ops
    BY ConfigAssumption DEF CrossOps
  <2> QED
    BY <2>1 DEF ClosesOnOwnThread, Later, Posting, AfterTest, Ops
<1>2. Posting \cap BaseCalls = {} /\ "new_connection" \notin Posting
  BY DEF Posting, BaseCalls
<1> QED
  BY <1>1, <1>2 DEF MayCall, Call

\* Only a connection's own thread changes it.
LEMMA ConnLocal ==
  ASSUME ClosesOnOwnThread, ThreadsInv, NEW x \in Threads, ConnStep(x)
  PROVE  Only(x)
<1>1. CASE UNCHANGED conn
  BY <1>1 DEF Only
<1>2. ASSUME NEW c \in Own(x), NEW r, conn' = [conn EXCEPT ![c] = r] PROVE Only(x)
  BY <1>2 DEF Only, ThreadsInv, ConnsTyped
<1>3. ASSUME NEW c \in Conns, ConnectEstablished(x, c) PROVE Only(x)
  <2>1. c \in Own(x)
    BY <1>3, OnOwnThread DEF ConnectEstablished, ThreadsInv, OwnCalls, ConnFunctors
  <2> QED
    BY <1>1, <1>2, <1>3, <2>1 DEF ConnectEstablished, Abort
<1>4. ASSUME NEW c \in Conns, HandleClose(x, c) \/ ConnectDestroyed(x, c) PROVE Only(x)
  <2>1. c \in Own(x)
    BY <1>4, OnOwnThread
       DEF HandleClose, ConnectDestroyed, ThreadsInv, OwnCalls, ConnFunctors
  <2> QED
    BY <1>1, <1>2, <1>4, <2>1 DEF HandleClose, ConnectDestroyed, TakeDown, Abort
<1>5. ASSUME NEW c \in Conns,
             \/ HandleWrite(x, c) \/ SendInLoop(x, c) \/ StartReadInLoop(x, c)
             \/ StopReadInLoop(x, c) \/ RemoveChannel(x, c)
      PROVE  Only(x)
  <2>1. c \in Own(x)
    BY <1>5, OnOwnThread DEF HandleWrite, SendInLoop, StartReadInLoop, StopReadInLoop,
       RemoveChannel, ThreadsInv, OwnCalls, ConnFunctors, Raw
  <2>2. UNCHANGED conn \/ \E r : conn' = [conn EXCEPT ![c] = r]
    BY <1>5 DEF HandleWrite, SendInLoop, StartReadInLoop, StopReadInLoop, RemoveChannel,
       Abort
  <2> QED
    BY <1>1, <1>2, <2>1, <2>2
<1>6. ASSUME NEW c \in Conns, Post(x, c) PROVE Only(x)
  <2>1. PICK p \in DOMAIN PostedBy :
          /\ Executing(x, p, c)
          /\ conn' = IF p \in Posting
                     THEN [conn EXCEPT ![c].state = "DISCONNECTING"] ELSE conn
    BY <1>6 DEF Post, Posting
  <2>2. CASE p \in Posting
    <3>1. Call(p, c) \in MayCall(x)
      BY <2>1, CallUnderWay DEF Executing, ThreadsInv
    <3>2. c \in Own(x)
      BY <2>2, <3>1, OwnPosting DEF Call
    <3> QED
      BY <1>2, <2>1, <2>2, <3>2
  <2> QED
    BY <1>1, <2>1, <2>2
<1>7. CASE \E c \in Conns : \/ HandleRead(x, c) \/ HandleError(x, c)
                            \/ ShutdownInLoop(x, c) \/ ForceCloseInLoop(x, c)
                            \/ TestState(x, c) \/ UserReturns(x, c)
                            \/ HandleWritten(x, c) \/ QueueOutputCallback(x, c)
                            \/ OutputCallback(x, c)
  BY <1>1, <1>7 DEF HandleRead, HandleError, ShutdownInLoop, ForceCloseInLoop, TestState,
     UserReturns, HandleWritten, QueueOutputCallback, OutputCallback
<1> QED
  BY <1>3, <1>4, <1>5, <1>6, <1>7 DEF ConnStep

\* So do the steps of the server.
LEMMA LocalStep ==
  ASSUME ClosesOnOwnThread, ThreadsInv, NEW x \in Threads, Continue(x)
  PROVE  Local(x)
<1>1. CASE Only(x)
  BY <1>1 DEF Only, Local, Known
<1>2. CASE NewConnection(x)
  <2>1. PICK c \in Fresh :
          conn' = [conn EXCEPT ![c].state = "CONNECTING", ![c].loop = NextLoop]
    BY <1>2 DEF NewConnection
  <2>2. c \notin Known
    BY DEF Fresh, Known
  <2> QED
    BY <2>1, <2>2 DEF Local, ThreadsInv, ConnsTyped, Known
<1>3. CASE \E c \in Conns : \/ RemoveConnection(x, c) \/ RemoveConnectionInLoop(x, c)
                            \/ Release(x, c)
  BY <1>1, <1>3 DEF RemoveConnection, RemoveConnectionInLoop, Release, Abort, Only
<1> QED
  BY <1>1, <1>2, <1>3, ConnLocal DEF Continue

\* What is down stays down.
LEMMA StayingStep ==
  ASSUME ThreadsInv, StacksSettled, NEW x \in Threads, Continue(x)
  PROVE  Staying
<1>1. UNCHANGED server
  BY DEF Continue, ConnStep, NewConnection, RemoveConnection, RemoveConnectionInLoop, Release,
     serverVars, Abort
<1>2. CASE UNCHANGED conn
  BY <1>1, <1>2 DEF Staying, Down, Ending
<1>3. ASSUME NEW c \in Conns, NEW r, conn' = [conn EXCEPT ![c] = r],
             Down(c) => r.state = "DISCONNECTED"
      PROVE  Staying
  BY <1>1, <1>3 DEF Staying, Down, Ending, ThreadsInv, ConnsTyped
<1>4. ASSUME NEW c \in Conns, ConnectEstablished(x, c) PROVE Staying
  BY <1>2, <1>3, <1>4 DEF ConnectEstablished, Abort, Down
<1>5. ASSUME NEW c \in Conns, HandleClose(x, c) \/ ConnectDestroyed(x, c) PROVE Staying
  <2>1. CASE UNCHANGED conn
    BY <1>2, <2>1
  <2>2. CASE TakeDown(c)
    <3> DEFINE r == [conn[c] EXCEPT !.state = "DISCONNECTED",
                                    !.channel = DisableAll(conn[c].channel)]
    <3>1. conn' = [conn EXCEPT ![c] = r] /\ r.state = "DISCONNECTED"
      BY <2>2 DEF TakeDown, ThreadsInv, ConnsTyped
    <3> HIDE DEF r
    <3> QED
      BY <1>3, <3>1
  <2> QED
    BY <1>5, <2>1, <2>2 DEF HandleClose, ConnectDestroyed, Abort
<1>6. ASSUME NEW c \in Conns,
             \/ HandleWrite(x, c) \/ SendInLoop(x, c) \/ StartReadInLoop(x, c)
             \/ StopReadInLoop(x, c) \/ RemoveChannel(x, c)
      PROVE  Staying
  <2>1. \A d \in Conns : conn'[d].state = conn[d].state
    BY <1>6 DEF HandleWrite, SendInLoop, StartReadInLoop, StopReadInLoop, RemoveChannel,
       Abort, ThreadsInv, ConnsTyped
  <2> QED
    BY <1>1, <2>1 DEF Staying, Down, Ending
<1>7. ASSUME NEW c \in Conns, Post(x, c) PROVE Staying
  <2>1. PICK p \in DOMAIN PostedBy :
          /\ Executing(x, p, c)
          /\ conn' = IF p \in Posting
                     THEN [conn EXCEPT ![c].state = "DISCONNECTING"] ELSE conn
    BY <1>7 DEF Post, Posting
  <2>2. CASE p \in Posting
    <3>1. Call(p, c) \in Inner
      BY <2>1 DEF Executing, StacksSettled
    <3>2. Open(c)
      BY <2>2, <3>1 DEF Inner, Settled, Call
    <3> QED
      BY <1>3, <2>1, <2>2, <3>2 DEF Open, Down
  <2> QED
    BY <1>2, <2>1, <2>2
<1>8. CASE NewConnection(x)
  <2>1. PICK c \in Fresh :
          conn' = [conn EXCEPT ![c].state = "CONNECTING", ![c].loop = NextLoop]
    BY <1>8 DEF NewConnection
  <2>2. ~Down(c) /\ c \in Conns
    BY DEF Fresh, Created, Down
  <2> QED
    BY <1>1, <2>1, <2>2 DEF Staying, Down, Ending, ThreadsInv, ConnsTyped
<1>9. CASE \/ \E c \in Conns : \/ HandleRead(x, c) \/ HandleError(x, c)
                               \/ ShutdownInLoop(x, c) \/ ForceCloseInLoop(x, c)
                               \/ TestState(x, c) \/ UserReturns(x, c)
                               \/ HandleWritten(x, c) \/ QueueOutputCallback(x, c)
                               \/ OutputCallback(x, c)
           \/ \E c \in Conns : \/ RemoveConnection(x, c) \/ RemoveConnectionInLoop(x, c)
                               \/ Release(x, c)
  BY <1>2, <1>9 DEF HandleRead, HandleError, ShutdownInLoop, ForceCloseInLoop, TestState,
     UserReturns, HandleWritten, QueueOutputCallback, OutputCallback, RemoveConnection, RemoveConnectionInLoop, Release, Abort
<1> QED
  BY <1>4, <1>5, <1>6, <1>7, <1>8, <1>9 DEF Continue, ConnStep

\* What settled stays settled.
LEMMA SettledMore ==
  ASSUME Staying
  PROVE  Settled \subseteq Settled' /\ Settled \subseteq Inner /\ Settled' \subseteq Inner'
  BY DEF Staying, Settled, Inner

\* Calls that nothing is asked of.
LEMMA PlainCalls ==
  ASSUME NEW fn \in OwnCalls \cup Ops \cup {"post_send", "new_connection"},
         fn \notin Removing, NEW c \in Conns \cup {Acceptor}
  PROVE  Call(fn, c) \in Settled /\ Call(fn, c) \in Settled'
<1>1. Call(fn, c) \in AnyCall
  BY DEF AnyCall, Call, Later, Ops, AfterTest
<1>2. fn \notin Posting /\ fn # "release"
  BY DEF OwnCalls, ConnFunctors, Raw, Ops, Posting
<1> QED
  BY <1>1, <1>2 DEF Settled, Call

\* The user's callback asks nothing, followed by a call that is settled.
LEMMA SettledCallback ==
  ASSUME NEW c \in Conns
  PROVE  /\ UserCallback(c) \in Seq(Settled')
         /\ \A k \in Settled' : Append(UserCallback(c), k) \in Seq(Settled')
<1>1. Call("user", c) \in Settled'
  BY PlainCalls DEF OwnCalls, Removing
<1>2. MaxCallbackOps \in Nat
  BY ConfigAssumption
<1>3. UserCallback(c) \in Seq(Settled')
  BY <1>1, <1>2 DEF UserCallback
<1> QED
  BY <1>3, AppendProperties

\* A sequence of settled calls is a stack.
LEMMA SettledStack ==
  ASSUME Staying, NEW s, s \in Seq(Settled')
  PROVE  s # <<>> => Head(s) \in Inner' /\ Tail(s) \in Seq(Settled')
<1>1. Settled' \subseteq Inner'
  BY SettledMore
<1> QED
  BY <1>1, HeadTailProperties

\* The stack of x is replaced, and x changed only connections of its own.
LEMMA StackReplaced ==
  ASSUME ClosesOnOwnThread, ThreadsInv, StacksSettled, NEW x \in Threads, Staying, Local(x),
         NEW s, s # <<>> => Head(s) \in Inner' /\ Tail(s) \in Seq(Settled'),
         calls' = [calls EXCEPT ![x] = s]
  PROVE  StacksSettled'
<1> SUFFICES ASSUME NEW y \in Threads, calls'[y] # <<>>
             PROVE  Head(calls'[y]) \in Inner' /\ Tail(calls'[y]) \in Seq(Settled')
  BY DEF StacksSettled
<1>1. CASE y = x
  <2>1. calls'[y] = s
    BY <1>1 DEF ThreadsInv, CallsTyped
  <2> QED
    BY <2>1
<1>2. CASE y # x
  <2>1. calls'[y] = calls[y]
    BY <1>2 DEF ThreadsInv, CallsTyped
  <2>2. Head(calls[y]) \in Inner /\ Tail(calls[y]) \in Seq(Settled)
    BY <2>1 DEF StacksSettled
  <2>3. Settled \subseteq Settled' /\ Settled' \subseteq Inner'
    BY SettledMore
  <2>4. Tail(calls[y]) \in Seq(Settled')
    BY <2>2, <2>3, SeqGrows
  <2>5. Head(calls[y]) \in MayCall(y)
    BY <2>1, CallUnderWay DEF ThreadsInv
  <2>6. CASE Head(calls[y]) \in Settled
    BY <2>1, <2>3, <2>4, <2>6
  <2>7. CASE Head(calls[y]) \notin Settled
    <3>1. PICK k \in AnyCall : k = Head(calls[y]) /\ k.fn \in Posting /\ Open(k.c)
      BY <2>2, <2>7 DEF Inner
    <3>2. k.c \in Own(y)
      BY <2>5, <3>1, OwnPosting
    <3>3. conn'[k.c] = conn[k.c]
      BY <1>2, <3>2 DEF Local, Own
    <3>4. k \in Inner'
      BY <3>1, <3>3 DEF Inner, Open
    <3> QED
      BY <2>1, <2>4, <3>1, <3>4
  <2> QED
    BY <2>6, <2>7
<1> QED
  BY <1>1, <1>2

\* Queues that are left alone, and one more functor.
LEMMA QueuesLeft ==
  ASSUME Staying, QueuesSettled, UNCHANGED functors,
         \/ UNCHANGED queue_functors_
         \/ \E l \in AllLoops, f \in Settled' :
              queue_functors_' = [queue_functors_ EXCEPT ![l] = Append(@, f)],
         ThreadsInv
  PROVE  QueuesSettled'
<1>1. Settled \subseteq Settled'
  BY SettledMore
<1>2. \A l \in AllLoops : functors'[l] \in Seq(Settled')
  BY <1>1, SeqGrows DEF QueuesSettled
<1>3. CASE UNCHANGED queue_functors_
  BY <1>1, <1>2, <1>3, SeqGrows DEF QueuesSettled
<1>4. ASSUME NEW l \in AllLoops, NEW f \in Settled',
             queue_functors_' = [queue_functors_ EXCEPT ![l] = Append(@, f)]
      PROVE  QueuesSettled'
  <2>1. Append(queue_functors_[l], f) \in Seq(Settled')
    BY <1>1, Appended DEF QueuesSettled
  <2>2. \A m \in AllLoops : queue_functors_'[m] \in Seq(Settled')
    BY <1>1, <1>4, <2>1, SeqGrows DEF QueuesSettled, ThreadsInv, QueuesTyped
  <2> QED
    BY <1>2, <2>2 DEF QueuesSettled
<1> QED
  BY <1>3, <1>4

\* A call that returns.
LEMMA SettledReturn ==
  ASSUME ClosesOnOwnThread, ThreadsInv, StacksSettled, QueuesSettled, NEW x \in Threads,
         calls[x] # <<>>, Staying, Local(x), UNCHANGED functors,
         NEW more, more \in Seq(Settled') \/ \E k \in Inner' : more = <<k>>,
         Return(x, more)
  PROVE  StacksSettled' /\ QueuesSettled'
<1> DEFINE s == more \o Tail(calls[x])
<1>1. Tail(calls[x]) \in Seq(Settled')
  BY SettledMore, SeqGrows DEF StacksSettled
<1>2. s # <<>> => Head(s) \in Inner' /\ Tail(s) \in Seq(Settled')
  <2>1. CASE more \in Seq(Settled')
    <3>1. s \in Seq(Settled')
      BY <1>1, <2>1, ConcatProperties
    <3> QED
      BY <3>1, SettledStack
  <2>2. ASSUME NEW k \in Inner', more = <<k>>
        PROVE  Head(s) \in Inner' /\ Tail(s) \in Seq(Settled')
    <3>1. Head(s) = k /\ Tail(s) = Tail(calls[x])
      BY <1>1, <2>2
    <3> QED
      BY <1>1, <3>1
  <2> QED
    BY <2>1, <2>2
<1>3. calls' = [calls EXCEPT ![x] = s] /\ UNCHANGED queue_functors_
  BY DEF Return
<1> HIDE DEF s
<1>4. StacksSettled'
  BY <1>2, <1>3, StackReplaced
<1> QED
  BY <1>3, <1>4, QueuesLeft

\* run_in_loop of a functor that is settled.
LEMMA SettledRun ==
  ASSUME ClosesOnOwnThread, ThreadsInv, StacksSettled, QueuesSettled, NEW x \in Threads,
         calls[x] # <<>>, Staying, Local(x), UNCHANGED functors,
         NEW l \in AllLoops, NEW f \in Settled', RunInLoop(x, l, f)
  PROVE  StacksSettled' /\ QueuesSettled'
<1>1. CASE x = l
  <2>1. <<f>> \in Seq(Settled') /\ Return(x, <<f>>)
    BY <1>1 DEF RunInLoop
  <2> QED
    BY <2>1, SettledReturn
<1>2. CASE x # l
  <2>1. Tail(calls[x]) \in Seq(Settled')
    BY SettledMore, SeqGrows DEF StacksSettled
  <2>2. calls' = [calls EXCEPT ![x] = Tail(calls[x])]
    BY <1>2 DEF RunInLoop
  <2>3. StacksSettled'
    BY <2>1, <2>2, SettledStack, StackReplaced
  <2> QED
    BY <1>2, <2>3, QueuesLeft DEF RunInLoop
<1> QED
  BY <1>1, <1>2

\* An assertion fails.
LEMMA SettledAbort ==
  ASSUME ThreadsInv, StacksSettled, QueuesSettled, UNCHANGED <<conn, server, calls>>,
         UNCHANGED <<queue_functors_, functors>>
  PROVE  Staying /\ StacksSettled' /\ QueuesSettled'
<1>1. Staying
  BY DEF Staying, Down, Ending
<1>2. Settled' = Settled /\ Inner' = Inner
  BY DEF Settled, Inner, Down, Ending, Open
<1> QED
  BY <1>1, <1>2 DEF StacksSettled, QueuesSettled

\* The functions of a connection.
LEMMA SettledConnStep ==
  ASSUME ClosesOnOwnThread, ThreadsInv, StacksSettled, QueuesSettled, NEW x \in Threads,
         ConnStep(x), UNCHANGED serverVars
  PROVE  StacksSettled' /\ QueuesSettled'
<1>1. Continue(x)
  BY DEF Continue
<1>2. Staying /\ Local(x)
  BY <1>1, StayingStep, LocalStep
<1>3. ASSUME NEW where, Abort(where) PROVE StacksSettled' /\ QueuesSettled'
  BY <1>3, SettledAbort DEF Abort, serverVars, loopVars
<1>4. ASSUME calls[x] # <<>>, NEW more, Return(x, more), UNCHANGED loopVars,
             more \in Seq(Settled') \/ \E k \in Inner' : more = <<k>>
      PROVE  StacksSettled' /\ QueuesSettled'
  <2>1. UNCHANGED functors
    BY <1>4 DEF loopVars
  <2> QED
    BY <1>2, <1>4, <2>1, SettledReturn
<1>5. <<>> \in Seq(Settled')
  BY EmptySeq
<1>6. PICK c \in Conns :
          \/ ConnectEstablished(x, c) \/ HandleRead(x, c) \/ HandleError(x, c)
          \/ HandleWrite(x, c) \/ HandleClose(x, c) \/ ConnectDestroyed(x, c)
          \/ RemoveChannel(x, c) \/ SendInLoop(x, c) \/ ShutdownInLoop(x, c)
          \/ ForceCloseInLoop(x, c) \/ StartReadInLoop(x, c) \/ StopReadInLoop(x, c)
          \/ TestState(x, c) \/ Post(x, c) \/ UserReturns(x, c) \/ HandleWritten(x, c)
          \/ QueueOutputCallback(x, c) \/ OutputCallback(x, c)
  BY DEF ConnStep
<1>7. /\ UserCallback(c) \in Seq(Settled')
      /\ \A k \in Settled' : Append(UserCallback(c), k) \in Seq(Settled')
  BY SettledCallback
<1>8. \A fn \in {"handle_close", "remove", "shutdown_in_loop", "handle_written",
                "queue_output_callback", "output_callback"} :
        Call(fn, c) \in Settled' /\ <<Call(fn, c)>> \in Seq(Settled')
  BY PlainCalls DEF OwnCalls, ConnFunctors, Raw, Removing
<1>9. CASE ConnectEstablished(x, c)
  BY <1>3, <1>4, <1>7, <1>9 DEF ConnectEstablished, Executing
<1>10. CASE HandleRead(x, c)
  BY <1>4, <1>5, <1>7, <1>8, <1>10 DEF HandleRead, Executing
<1>11. CASE \/ HandleError(x, c) \/ ShutdownInLoop(x, c)
            \/ StartReadInLoop(x, c) \/ StopReadInLoop(x, c) \/ UserReturns(x, c)
  <2>1. calls[x] # <<>> /\ Return(x, <<>>) /\ UNCHANGED loopVars
    BY <1>11 DEF HandleError, ShutdownInLoop, StartReadInLoop, StopReadInLoop,
       UserReturns, Executing
  <2> QED
    BY <1>4, <1>5, <2>1
<1>12. CASE SendInLoop(x, c) \/ HandleWritten(x, c) \/ ForceCloseInLoop(x, c)
  <2>1. /\ calls[x] # <<>> /\ UNCHANGED loopVars
        /\ \/ Return(x, <<>>) \/ Return(x, <<Call("shutdown_in_loop", c)>>)
           \/ Return(x, <<Call("handle_close", c)>>)
           \/ Return(x, <<Call("queue_output_callback", c)>>)
    BY <1>12 DEF SendInLoop, TellOutput, HandleWritten, ForceCloseInLoop, Executing
  <2> QED
    BY <1>4, <1>5, <1>8, <2>1
<1>18. CASE HandleWrite(x, c) \/ OutputCallback(x, c)
  <2>1. /\ calls[x] # <<>> /\ UNCHANGED loopVars
        /\ \/ Return(x, <<>>) \/ Return(x, UserCallback(c))
           \/ Return(x, Append(UserCallback(c), Call("handle_written", c)))
           \/ Return(x, Append(<<>>, Call("handle_written", c)))
    BY <1>18 DEF HandleWrite, OutputCallback, Executing
  <2>2. Append(<<>>, Call("handle_written", c)) = <<Call("handle_written", c)>>
    OBVIOUS
  <2> QED
    BY <1>4, <1>5, <1>7, <1>8, <2>1, <2>2
<1>19. CASE QueueOutputCallback(x, c)
  <2> DEFINE f == Call("output_callback", c)
             s == <<>> \o Tail(calls[x])
  <2>1. /\ calls[x] # <<>> /\ calls' = [calls EXCEPT ![x] = s]
        /\ queue_functors_' = [queue_functors_ EXCEPT ![x] = Append(@, f)]
        /\ UNCHANGED functors
    BY <1>19 DEF QueueOutputCallback, ReturnQueueing, Executing, loopVars
  <2>2. f \in Settled' /\ x \in AllLoops
    BY <1>8, <1>19, OnOwnThread, OwnerIsLoop
       DEF QueueOutputCallback, ThreadsInv, OwnCalls
  <2>3. Tail(calls[x]) \in Seq(Settled')
    BY <1>2, <2>1, SettledMore, SeqGrows DEF StacksSettled
  <2>4. s \in Seq(Settled')
    BY <1>5, <2>3, ConcatProperties
  <2> HIDE DEF f, s
  <2>5. StacksSettled'
    BY <1>2, <2>1, <2>4, SettledStack, StackReplaced
  <2> QED
    BY <1>2, <2>1, <2>2, <2>5, QueuesLeft
<1>13. CASE HandleClose(x, c)
  <2>1. CASE Open(c)
    <3>1. Call("remove_connection", c) \in Settled'
      <4>1. Down(c)'
        BY <1>13, <2>1 DEF HandleClose, TakeDown, Down, ThreadsInv, ConnsTyped
      <4> QED
        BY <4>1 DEF Settled, AnyCall, Call, OwnCalls, Posting, Removing
    <3> QED
      BY <1>4, <1>7, <1>13, <2>1, <3>1 DEF HandleClose, Executing
  <2> QED
    BY <1>3, <1>13, <2>1 DEF HandleClose
<1>14. CASE ConnectDestroyed(x, c)
  BY <1>4, <1>7, <1>8, <1>14 DEF ConnectDestroyed, Executing
<1>15. CASE RemoveChannel(x, c)
  BY <1>3, <1>4, <1>5, <1>15 DEF RemoveChannel, Executing
<1>16. CASE TestState(x, c)
  <2>1. PICK op \in DOMAIN AfterTest :
          /\ Executing(x, op, c)
          /\ Return(x, IF Passes(op, c) THEN <<Call(AfterTest[op], c)>> ELSE <<>>)
          /\ UNCHANGED <<conn, loopVars>>
    BY <1>16 DEF TestState
  <2>2. CASE ~Passes(op, c)
    BY <1>4, <1>5, <2>1, <2>2 DEF Executing
  <2>3. CASE Passes(op, c)
    <3>1. Call(AfterTest[op], c) \in Inner'
      <4>1. CASE op = "send"
        <5>1. Call("post_send", c) \in Settled'
          BY PlainCalls DEF Removing
        <5> QED
          BY <4>1, <5>1 DEF AfterTest, Inner
      <4>2. CASE op \in {"shutdown", "force_close"}
        <5>1. Open(c)'
          BY <2>1, <2>3, <4>2 DEF Passes, IsConnected, Open
        <5>2. AfterTest[op] \in Posting
          BY <4>2 DEF AfterTest, Posting
        <5>3. Call(AfterTest[op], c) \in AnyCall
          BY DEF AnyCall, Call, Later, Ops, AfterTest
        <5> QED
          BY <5>1, <5>2, <5>3 DEF Inner, Call
      <4> QED
        BY <4>1, <4>2 DEF AfterTest
    <3>2. Return(x, <<Call(AfterTest[op], c)>>) /\ calls[x] # <<>>
      BY <2>1, <2>3 DEF Executing
    <3> QED
      BY <1>4, <2>1, <3>1, <3>2
  <2> QED
    BY <2>2, <2>3
<1>17. CASE Post(x, c)
  <2>1. PICK p \in DOMAIN PostedBy :
          /\ Executing(x, p, c)
          /\ RunInLoop(x, conn[c].loop, Call(PostedBy[p], c))
          /\ UNCHANGED loopVars
    BY <1>17 DEF Post
  <2>2. Call(PostedBy[p], c) \in Settled'
    <3>1. PostedBy[p] \in OwnCalls /\ PostedBy[p] \notin Removing
      BY DEF PostedBy, OwnCalls, ConnFunctors, Raw, Removing
    <3> QED
      BY <3>1, PlainCalls
  <2>3. PICK l \in AllLoops : l = conn[c].loop
    BY DEF ThreadsInv, ConnsTyped
  <2> QED
    BY <1>2, <2>1, <2>2, <2>3, SettledRun DEF Executing, loopVars
<1> QED
  BY <1>6, <1>9, <1>10, <1>11, <1>12, <1>13, <1>14, <1>15, <1>16, <1>17,
     <1>18, <1>19

\* The server's own functions.
LEMMA SettledServer ==
  ASSUME ClosesOnOwnThread, ThreadsInv, StacksSettled, QueuesSettled, NEW x \in Threads,
         \/ NewConnection(x)
         \/ \E c \in Conns : \/ RemoveConnection(x, c) \/ RemoveConnectionInLoop(x, c)
                             \/ Release(x, c)
  PROVE  StacksSettled' /\ QueuesSettled'
<1>1. Continue(x)
  BY DEF Continue
<1>2. Staying /\ Local(x)
  BY <1>1, StayingStep, LocalStep
<1>3. ASSUME calls[x] # <<>>, UNCHANGED loopVars,
             NEW l \in AllLoops, NEW f \in Settled', RunInLoop(x, l, f)
      PROVE  StacksSettled' /\ QueuesSettled'
  BY <1>2, <1>3, SettledRun DEF loopVars
<1>4. CASE NewConnection(x)
  <2>1. PICK c \in Fresh : RunInLoop(x, NextLoop, Call("connect_established", c))
    BY <1>4 DEF NewConnection
  <2>2. Call("connect_established", c) \in Settled'
    BY PlainCalls DEF Fresh, OwnCalls, ConnFunctors, Removing
  <2>3. PICK l \in AllLoops : l = NextLoop
    BY NextLoopIsLoop DEF ThreadsInv
  <2> QED
    BY <1>3, <1>4, <2>1, <2>2, <2>3 DEF NewConnection, Executing
<1>5. ASSUME NEW c \in Conns, RemoveConnection(x, c) PROVE StacksSettled' /\ QueuesSettled'
  <2>1. Call("remove_connection", c) \in Inner /\ calls[x] # <<>>
    BY <1>5 DEF RemoveConnection, Executing, StacksSettled
  <2>2. Down(c)
    BY <2>1 DEF Inner, Settled, Call, Posting, Removing
  <2>3. Call("remove_connection_in_loop", c) \in Settled'
    BY <1>2, <2>2
       DEF Staying, Settled, AnyCall, Call, BaseCalls, Posting, Removing
  <2> QED
    BY <1>3, <1>5, <2>1, <2>3 DEF RemoveConnection, AllLoops
<1>6. ASSUME NEW c \in Conns, RemoveConnectionInLoop(x, c) \/ Release(x, c)
      PROVE  StacksSettled' /\ QueuesSettled'
  <2>1. CASE Abort("remove_connection_in_loop") /\ UNCHANGED serverVars
    BY <2>1, SettledAbort DEF Abort, serverVars, loopVars
  <2>2. CASE RunInLoop(x, conn[c].loop, Call("connect_destroyed", c))
    <3>1. Call("connect_destroyed", c) \in Settled'
      BY PlainCalls DEF OwnCalls, ConnFunctors, Removing
    <3>2. PICK l \in AllLoops : l = conn[c].loop
      BY DEF ThreadsInv, ConnsTyped
    <3>3. UNCHANGED loopVars /\ calls[x] # <<>>
      BY <1>6, <2>2 DEF RemoveConnectionInLoop, Release, Abort, Executing
    <3> QED
      BY <1>3, <2>2, <3>1, <3>2, <3>3
  <2> QED
    BY <1>6, <2>1, <2>2 DEF RemoveConnectionInLoop, Release
<1> QED
  BY <1>4, <1>5, <1>6

\* The steps that change no connection and put settled calls on a stack.
LEMMA SettledQuiet ==
  ASSUME ClosesOnOwnThread, ThreadsInv, StacksSettled, NEW x \in Threads,
         UNCHANGED conn, Ending => Ending',
         \/ UNCHANGED calls
         \/ \E s \in Seq(Settled') : calls' = [calls EXCEPT ![x] = s]
         \/ \E more \in Seq(Settled') : calls[x] # <<>> /\ Return(x, more)
  PROVE  Staying /\ StacksSettled'
<1>1. Staying /\ Local(x)
  BY DEF Staying, Down, Local
<1>2. Settled \subseteq Settled' /\ Inner \subseteq Inner'
  BY <1>1, SettledMore DEF Inner, Open
<1>3. CASE UNCHANGED calls
  <2>1. \A y \in Threads : Tail(calls[y]) \in Seq(Settled) => Tail(calls[y]) \in Seq(Settled')
    BY <1>2, SeqGrows
  <2>2. \A y \in Threads : calls'[y] = calls[y]
    BY <1>3
  <2>3. \A y \in Threads : calls[y] # <<>> =>
          Head(calls[y]) \in Inner' /\ Tail(calls[y]) \in Seq(Settled')
    BY <1>2, <2>1 DEF StacksSettled
  <2> QED
    BY <1>1, <2>2, <2>3 DEF StacksSettled
<1>4. ASSUME NEW s \in Seq(Settled'), calls' = [calls EXCEPT ![x] = s]
      PROVE  StacksSettled'
  BY <1>1, <1>4, SettledStack, StackReplaced
<1>5. ASSUME NEW more \in Seq(Settled'), calls[x] # <<>>, Return(x, more)
      PROVE  StacksSettled'
  <2>1. Tail(calls[x]) \in Seq(Settled')
    BY <1>2, <1>5, SeqGrows DEF StacksSettled
  <2>2. more \o Tail(calls[x]) \in Seq(Settled')
    BY <2>1, ConcatProperties
  <2>3. calls' = [calls EXCEPT ![x] = more \o Tail(calls[x])]
    BY <1>5 DEF Return
  <2> QED
    BY <1>4, <2>2, <2>3
<1> QED
  BY <1>1, <1>3, <1>4, <1>5

\* The rounds of a loop.
LEMMA SettledLoop ==
  ASSUME ClosesOnOwnThread, ThreadsInv, StacksSettled, QueuesSettled, NEW l \in AllLoops,
         Loop(l)
  PROVE  Staying /\ StacksSettled' /\ QueuesSettled'
<1>1. UNCHANGED <<conn, server>> /\ l \in Threads
  BY DEF Loop, PollAccepting, HandleAccept, LoopStep, Poll, HandleEvent, SwapQueue,
     RunFunctor, FunctorsDone, Dispatches, Abort, serverVars, Threads
<1>2. Staying
  BY <1>1 DEF Staying, Down, Ending
<1>3. Settled \subseteq Settled' /\ (Ending => Ending')
  BY <1>2, SettledMore DEF Staying
<1>4. QueuesSettled'
  <2>1. /\ \A m \in AllLoops : queue_functors_'[m] \in {queue_functors_[m], <<>>}
        /\ \A m \in AllLoops : functors'[m] \in {functors[m], queue_functors_[m], <<>>}
    <3>1. CASE UNCHANGED <<queue_functors_, functors>>
      BY <3>1
    <3>2. CASE SwapQueue(l) \/ FunctorsDone(l)
      BY <3>2 DEF SwapQueue, FunctorsDone, ThreadsInv, QueuesTyped, LoopsTyped
    <3>3. ASSUME Poll(l, {[c |-> a, events |-> {"IN"}] : a \in {}})
                 \/ Poll(l, {[c |-> a, events |-> {"IN"}] : a \in {Acceptor}})
          PROVE  UNCHANGED <<queue_functors_, functors>>
      BY <3>3 DEF Poll, Abort, loopVars
    <3>4. CASE PollAccepting(l) \/ HandleAccept(l) \/ HandleEvent(l) \/ RunFunctor(l)
      BY <3>1, <3>3, <3>4 DEF PollAccepting, HandleAccept, HandleEvent, RunFunctor, Dispatches,
         Abort, loopVars
    <3> QED
      BY <3>2, <3>4 DEF Loop, LoopStep
  <2>2. \A m \in AllLoops : /\ queue_functors_[m] \in Seq(Settled')
                            /\ functors[m] \in Seq(Settled')
    BY <1>3, SeqGrows DEF QueuesSettled
  <2>3. <<>> \in Seq(Settled')
    BY EmptySeq
  <2> QED
    BY <2>1, <2>2, <2>3 DEF QueuesSettled
<1>5. CASE UNCHANGED calls
  BY <1>1, <1>2, <1>3, <1>4, <1>5, SettledQuiet
<1>6. CASE HandleAccept(l)
  <2>1. Call("new_connection", Acceptor) \in Settled'
    BY PlainCalls DEF Removing
  <2>2. <<Call("new_connection", Acceptor)>> \in Seq(Settled')
    BY <2>1
  <2>3. calls' = [calls EXCEPT ![l] = <<Call("new_connection", Acceptor)>>]
    BY <1>6 DEF HandleAccept, Dispatches
  <2> QED
    BY <1>1, <1>3, <1>4, <2>2, <2>3, SettledQuiet
<1>7. CASE HandleEvent(l) /\ Alive(NextActive(l).c)
  <2>1. PICK c \in Conns : c = NextActive(l).c
    BY <1>7 DEF HandleEvent
  <2> DEFINE handlers == Dispatch(NextActive(l).events)
             H == {"handle_close", "handle_error", "handle_read", "handle_write"}
             s == [i \in 1..Len(handlers) |-> Call(handlers[i], c)]
  <2>2. handlers \in Seq(H)
    BY DispatchHandlers
  <2>3. calls' = [calls EXCEPT ![l] = s]
    BY <1>7, <2>1 DEF HandleEvent, Dispatches
  <2> HIDE DEF handlers
  <2>4. \A i \in 1..Len(handlers) : handlers[i] \in H
    BY <2>2, ElementOfSeq
  <2>5. \A h \in H : Call(h, c) \in Settled'
    BY PlainCalls DEF OwnCalls, Removing
  <2>6. s \in Seq(Settled')
    BY <2>2, <2>4, <2>5, LenProperties
  <2> HIDE DEF s
  <2> QED
    BY <1>1, <1>3, <1>4, <2>3, <2>6, SettledQuiet
<1>8. CASE RunFunctor(l) /\ ~UNCHANGED calls
  <2> DEFINE f == functors[l][running[l] + 1]
  <2>1. calls' = [calls EXCEPT ![l] = <<f>>]
    BY <1>8 DEF RunFunctor, Abort
  <2>2. running[l] + 1 \in 1..Len(functors[l])
    BY <1>8, LenProperties DEF RunFunctor, ThreadsInv, LoopsTyped
  <2>3. f \in Settled'
    BY <1>3, <2>2, ElementOfSeq DEF QueuesSettled
  <2>4. <<f>> \in Seq(Settled')
    BY <2>3
  <2> HIDE DEF f
  <2> QED
    BY <1>1, <1>3, <1>4, <2>1, <2>4, SettledQuiet
<1>9. CASE PollAccepting(l)
  BY <1>5, <1>9 DEF PollAccepting, Poll, Abort
<1>10. CASE HandleEvent(l)
  BY <1>5, <1>7, <1>10 DEF HandleEvent, Abort
<1>11. CASE SwapQueue(l) \/ FunctorsDone(l)
  BY <1>5, <1>11 DEF SwapQueue, FunctorsDone
<1> QED
  BY <1>5, <1>6, <1>8, <1>9, <1>10, <1>11 DEF Loop, LoopStep

\* The user and the peers.
LEMMA SettledUser ==
  ASSUME ClosesOnOwnThread, ThreadsInv, StacksSettled, QueuesSettled,
         UserStep \/ PeerStep, UNCHANGED serverVars
  PROVE  Staying /\ StacksSettled' /\ QueuesSettled'
<1>1. UNCHANGED <<conn, server, functors, queue_functors_>>
  BY ZenonT(60) DEF UserStep, PeerStep, UserDrops, UserCalls, ThreadCalls, PeerSends, PeerFinishes,
     PeerResets, PeerActs, Return, loopVars, serverVars
<1>2. Staying
  BY <1>1 DEF Staying, Down, Ending
<1>3. QueuesSettled'
  BY <1>1, <1>2, QueuesLeft
<1>4. \A op \in Ops : \A d \in Conns : <<Call(op, d)>> \in Seq(Settled')
  <2>1. \A op \in Ops : op \notin Removing
    BY DEF Ops, Removing
  <2> QED
    BY <2>1, PlainCalls
<1>5. CASE UNCHANGED calls
  BY <1>1, <1>2, <1>3, <1>5, SettledQuiet DEF Staying, Threads, AllLoops
<1>6. ASSUME NEW c \in Conns, NEW d \in Conns, NEW op \in Ops, NEW x \in Threads,
             UserCalls(x, c, d, op)
      PROVE  StacksSettled'
  <2>1. calls[x] # <<>> /\ Return(x, <<Call(op, d)>>)
    BY <1>6 DEF UserCalls, Executing
  <2> QED
    BY <1>1, <1>2, <1>4, <2>1, SettledQuiet DEF Staying
<1>7. ASSUME NEW c \in Conns, NEW op \in Ops, NEW u \in Users, ThreadCalls(u, c, op)
      PROVE  StacksSettled'
  <2>1. calls' = [calls EXCEPT ![u] = <<Call(op, c)>>] /\ u \in Threads
    BY <1>7 DEF ThreadCalls, Threads
  <2> QED
    BY <1>1, <1>2, <1>4, <2>1, SettledQuiet DEF Staying
<1> QED
  BY <1>2, <1>3, <1>5, <1>6, <1>7
     DEF UserStep, PeerStep, UserDrops, PeerSends, PeerFinishes, PeerResets, PeerActs

\* The end of the server.
LEMMA SettledEnding ==
  ASSUME ClosesOnOwnThread, ThreadsInv, StacksSettled, QueuesSettled, ServerStep
  PROVE  Staying /\ StacksSettled' /\ QueuesSettled'
<1>1. UNCHANGED <<conn, functors, queue_functors_, connections_>>
  BY DEF ServerStep, Start, QuitBase, DestroyServer, StopPool, connVars, loopVars
<1>2. Ending => Ending'
  BY DEF Ending, ServerStep, Start, QuitBase, DestroyServer, StopPool, serverVars
<1>3. Staying
  BY <1>1, <1>2 DEF Staying, Down
<1>4. QueuesSettled'
  BY <1>1, <1>3, QueuesLeft
<1>5. Base \in Threads
  BY DEF Threads, AllLoops
<1>6. CASE UNCHANGED calls
  BY <1>1, <1>2, <1>3, <1>4, <1>5, <1>6, SettledQuiet
<1>7. CASE DestroyServer
  <2>1. PICK list \in SetToSeqs(connections_) :
          calls' = [calls EXCEPT ![Base] =
                      [i \in 1..Len(list) |-> Call("release", list[i])]]
    BY <1>7 DEF DestroyServer
  <2>2. connections_ \subseteq Conns /\ IsFiniteSet(connections_)
    BY ConfigAssumption, FS_Subset DEF ThreadsInv, ConnsTyped, Known
  <2>3. list \in Seq(connections_)
    BY <2>1, <2>2, Listing
  <2> DEFINE s == [i \in 1..Len(list) |-> Call("release", list[i])]
  <2>4. \A c \in Conns : Call("release", c) \in Settled'
    BY <1>7 DEF DestroyServer, Ending, Settled, AnyCall, Call, BaseCalls, Posting, Removing
  <2>5. \A i \in 1..Len(list) : Call("release", list[i]) \in Settled'
    BY <2>2, <2>3, <2>4, ElementOfSeq
  <2>6. s \in Seq(Settled')
    BY <2>3, <2>5, LenProperties
  <2>7. calls' = [calls EXCEPT ![Base] = s]
    BY <2>1
  <2> HIDE DEF s
  <2> QED
    BY <1>1, <1>2, <1>4, <1>5, <2>6, <2>7, SettledQuiet
<1> QED
  BY <1>6, <1>7 DEF ServerStep, Start, QuitBase, StopPool, connVars

\* The map holds the connections that are not down, while the server stands.
LEMMA MapStep ==
  ASSUME ClosesOnOwnThread, ThreadsInv, SettledInv, [Next]_vars, Staying
  PROVE  MapHeld'
<1> DEFINE live == {"CONNECTING", "CONNECTED", "DISCONNECTING"}
<1> SUFFICES ASSUME ~Ending', NEW c \in Conns, conn'[c].state \in live
             PROVE  c \in connections_'
  BY DEF MapHeld
<1>1. ~Ending /\ ~Down(c)
  BY DEF Staying, Down
<1>2. CASE UNCHANGED <<conn, connections_>>
  BY <1>1, <1>2 DEF SettledInv, MapHeld
<1>3. ASSUME NEW x \in Threads, NEW d \in Conns, RemoveConnectionInLoop(x, d)
      PROVE  c \in connections_'
  <2>1. CASE c = d
    <3>1. Call("remove_connection_in_loop", d) \in Inner
      BY <1>3 DEF RemoveConnectionInLoop, Executing, SettledInv, StacksSettled
    <3>2. Down(d)
      BY <3>1 DEF Inner, Settled, Call, Posting, Removing
    <3> QED
      BY <1>1, <2>1, <3>2
  <2>2. CASE c # d
    BY <1>1, <1>2, <1>3, <2>2 DEF RemoveConnectionInLoop, Abort, SettledInv, MapHeld
  <2> QED
    BY <2>1, <2>2
<1>4. ASSUME NEW x \in Threads, NEW d \in Conns, Release(x, d) PROVE FALSE
  <2>1. Call("release", d) \in Inner
    BY <1>4 DEF Release, Executing, SettledInv, StacksSettled
  <2> QED
    BY <1>1, <2>1 DEF Inner, Settled, Call, Posting
<1>5. ASSUME NEW x \in Threads, NewConnection(x) PROVE c \in connections_'
  <2>1. PICK d \in Fresh :
          /\ conn' = [conn EXCEPT ![d].state = "CONNECTING", ![d].loop = NextLoop]
          /\ connections_' = connections_ \cup {d}
    BY <1>5 DEF NewConnection
  <2> QED
    BY <1>1, <2>1 DEF SettledInv, MapHeld, ThreadsInv, ConnsTyped
<1>6. ASSUME NEW x \in Threads, ConnStep(x) \/ \E d \in Conns : RemoveConnection(x, d)
      PROVE  c \in connections_'
  <2>1. UNCHANGED connections_
    BY <1>6 DEF ConnStep, ConnectEstablished, HandleRead, HandleError, HandleWrite,
       HandleClose, ConnectDestroyed, RemoveChannel, SendInLoop, ShutdownInLoop,
       ForceCloseInLoop, StartReadInLoop, StopReadInLoop, TestState, Post, UserReturns,
       HandleWritten, QueueOutputCallback, OutputCallback,
       RemoveConnection, Abort
  <2>2. CASE c \in Known
    <3>1. conn[c].state \in live
      BY <1>1, <2>2 DEF Known, Created, Down, States, ThreadsInv, ConnsTyped
    <3> QED
      BY <1>1, <2>1, <3>1 DEF SettledInv, MapHeld
  <2>3. CASE c \notin Known
    <3>1. c \notin Own(x)
      BY <2>3 DEF Own
    <3>2. conn'[c] = conn[c]
      BY <1>6, <3>1, ConnLocal DEF RemoveConnection, Only
    <3> QED
      BY <1>2, <1>1, <2>1, <3>2 DEF SettledInv, MapHeld
  <2> QED
    BY <2>2, <2>3
<1>7. ASSUME NEW l \in AllLoops, Loop(l) PROVE c \in connections_'
  <2>1. UNCHANGED <<conn, connections_>>
    BY <1>7 DEF Loop, PollAccepting, HandleAccept, LoopStep, Poll, HandleEvent, SwapQueue,
       RunFunctor, FunctorsDone, Dispatches, Abort
  <2> QED
    BY <1>2, <2>1
<1>8. CASE UserStep \/ PeerStep \/ ServerStep \/ UNCHANGED vars
  <2>1. UNCHANGED <<conn, connections_>>
    BY <1>8 DEF UserStep, PeerStep, UserDrops, UserCalls, ThreadCalls, PeerSends,
       PeerFinishes, PeerResets, PeerActs, ServerStep, Start, QuitBase, DestroyServer,
       StopPool, connVars, vars
  <2> QED
    BY <1>2, <2>1
<1> QED
  BY <1>3, <1>4, <1>5, <1>6, <1>7, <1>8 DEF Next, Continue

-----------------------------------------------------------------------------
\* At the start nothing is called, queued or open.
LEMMA InitSettled == Init => SettledInv
<1> SUFFICES ASSUME Init PROVE SettledInv
  OBVIOUS
<1>1. \A S : <<>> \in Seq(S)
  BY EmptySeq
<1>2. StacksSettled
  BY DEF Init, StacksSettled
<1>3. QueuesSettled
  BY <1>1 DEF Init, ConnInit, QueuesSettled
<1>4. MapHeld
  BY DEF Init, ConnInit, NewConn, MapHeld
<1> QED
  BY <1>2, <1>3, <1>4 DEF SettledInv

\* Every step keeps it.
LEMMA NextSettled ==
  ASSUME ClosesOnOwnThread, ThreadsInv, SettledInv, [Next]_vars
  PROVE  SettledInv' /\ Staying
<1>1. ASSUME NEW x \in Threads, Continue(x)
      PROVE  Staying /\ StacksSettled' /\ QueuesSettled'
  BY <1>1, StayingStep, SettledConnStep, SettledServer DEF SettledInv, Continue
<1>2. ASSUME NEW l \in AllLoops, Loop(l)
      PROVE  Staying /\ StacksSettled' /\ QueuesSettled'
  BY <1>2, SettledLoop DEF SettledInv
<1>3. ASSUME (UserStep \/ PeerStep) /\ UNCHANGED serverVars
      PROVE  Staying /\ StacksSettled' /\ QueuesSettled'
  BY <1>3, SettledUser DEF SettledInv
<1>4. ASSUME ServerStep PROVE Staying /\ StacksSettled' /\ QueuesSettled'
  BY <1>4, SettledEnding DEF SettledInv
<1>5. ASSUME UNCHANGED vars PROVE Staying /\ StacksSettled' /\ QueuesSettled'
  BY <1>5, SettledAbort DEF SettledInv, vars, connVars, loopVars, serverVars
<1>6. Staying /\ StacksSettled' /\ QueuesSettled'
  BY <1>1, <1>2, <1>3, <1>4, <1>5 DEF Next, SettledInv
<1> QED
  BY <1>6, MapStep DEF SettledInv

\* So it always holds.
LEMMA SettledInvariant == ClosesOnOwnThread => (Spec => []SettledInv)
<1> SUFFICES ASSUME ClosesOnOwnThread PROVE Spec => []SettledInv
  OBVIOUS
<1>1. ThreadsInv /\ SettledInv /\ [Next]_vars => SettledInv'
  BY NextSettled
<1> QED
  BY <1>1, InitSettled, ThreadsInvariant, PTL DEF Spec

\* Where closes come from the connection's own thread, a connection that is down stays
\* down: no shutdown() or force_close() that tested state_ before brings it back to
\* DISCONNECTING (tcp_conn.cpp, set_state), whatever the other threads call meanwhile.
THEOREM StaysDisconnected == ClosesOnOwnThread => (Spec => DisconnectedIsFinal)
<1> SUFFICES ASSUME ClosesOnOwnThread PROVE Spec => DisconnectedIsFinal
  OBVIOUS
<1>1. ThreadsInv /\ SettledInv /\ [Next]_vars =>
        [\A c \in Conns : conn[c].state = "DISCONNECTED" =>
                         conn'[c].state = "DISCONNECTED"]_vars
  BY NextSettled DEF Staying, Down
<1> QED
  BY <1>1, SettledInvariant, ThreadsInvariant, PTL DEF Spec, DisconnectedIsFinal

\* Then the server's map holds every connection that is not down (tcp_server.cpp,
\* new_connection and remove_connection_in_loop), and the fields have their types.
THEOREM MapIsSound == ClosesOnOwnThread => (Spec => []ServerInv)
<1> SUFFICES ASSUME ClosesOnOwnThread PROVE Spec => []ServerInv
  OBVIOUS
<1>1. SettledInv /\ TypeOK => ServerInv
  BY DEF SettledInv, MapHeld, Ending, ServerInv, MapHoldsOpen
<1> QED
  BY <1>1, SettledInvariant, TypeCorrect, PTL

=============================================================================
