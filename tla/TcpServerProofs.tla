-------------------------- MODULE TcpServerProofs --------------------------
(***************************************************************************)
(* Proofs about TcpServer when it is used well: that no assertion fails, and *)
(* that it then implements ConnLifecycle. They rest on the theorems of       *)
(* TcpServerThreadProofs.                                                    *)
(***************************************************************************)
EXTENDS TcpServerThreadProofs

-----------------------------------------------------------------------------
(* The uses of the server in which no assertion fails: what they call, and   *)
(* the invariant that they keep.                                             *)

UserOps == OwnOps \cup PeerOps \cup ThreadOps
Closing == {"shutdown", "force_close"}

\* Other threads and callbacks of other connections only send, or stop the reading;
\* a program that stops it neither sends nor forces a close, and starts it again on a
\* connection that is_connected(); a server that is destroyed has callbacks that close
\* nothing; what is called from elsewhere is called on a connection that stays kept;
\* with callbacks for the output, every connection stays kept, or the server lives on
\* and serves on the loops of a pool; and the poll's list of events never fills.
WellUsed ==
  /\ PeerOps \subseteq {"send"} /\ ThreadOps \subseteq {"send", "stop_read"}
  /\ "stop_read" \in UserOps => {"send", "force_close"} \cap UserOps = {}
  /\ "start_read" \in OwnOps => ChecksConnected
  /\ ServerDies => Closing \cap OwnOps = {}
  /\ CrossOps # {} => ~DropsRefs
  /\ TellsOutput => (KeepsRefs /\ ~DropsRefs) \/ (loops_ # <<>> /\ ~ServerDies)
  /\ EventListSize > Cardinality(Conns) + 1

\* Of a sequence of calls: one of T is among them, only one is, and those of A come
\* before those of B.
Has(s, T)        == \E i \in 1..Len(s) : s[i] \in T
Once(s, T)       == \A i, j \in 1..Len(s) : s[i] \in T /\ s[j] \in T => i = j
Ordered(s, A, B) == \A i, j \in 1..Len(s) : s[i] \in A /\ s[j] \in B => i < j

\* What is ahead of a loop: the calls under way, the rest of the batch, the queue.
Batch(l)  == SubSeq(functors[l], running[l] + 1, Len(functors[l]))
Rest(l)   == Batch(l) \o queue_functors_[l]
Agenda(l) == calls[l] \o Rest(l)

\* The calls that make the life of a connection.
Establish(c) == {Call("connect_established", c)}
Unregister(c)    == {Call("remove", c)}
Destroy(c)   == {Call("connect_destroyed", c)} \cup Unregister(c)
Report(c)    == {Call("remove_connection", c)}
Erase(c)     == {Call("remove_connection_in_loop", c)}
Drop(c)      == {Call("release", c)}
Tokens(c)    == Establish(c) \cup Destroy(c) \cup Report(c) \cup Erase(c) \cup Drop(c)

\* The thread of the loop has returned, and its functors are gone.
Gone(l) == l # Base /\ phase[l] = "exited"

\* The user was told that c is up.
Past(c) == conn[c].state \notin {"none", "CONNECTING"}

SendCalls  == {"send", "post_send", "send_in_loop", "queue_output_callback"}
StopCalls  == {"stop_read", "stop_read_in_loop"}
StartCalls == {"start_read", "start_read_in_loop"}
ForceCalls == {"force_close", "post_force_close", "force_close_in_loop"}
ShutCalls  == {"shutdown", "post_shutdown"}

\* The user's program makes such a call.
Used(fn) ==
  /\ fn \in {"queue_output_callback", "output_callback"} => TellsOutput
  /\ fn \in SendCalls => "send" \in UserOps
  /\ fn \in StopCalls => "stop_read" \in UserOps
  /\ fn \in StartCalls => "start_read" \in OwnOps
  /\ fn \in ForceCalls => "force_close" \in UserOps
  /\ fn \in ShutCalls => "shutdown" \in UserOps

\* Calls on what is not up yet, and the calls of the end of the server.
EarlyCalls == {"connect_established", "connect_destroyed", "release", "new_connection"}
EndCalls   == {"release", "connect_destroyed", "remove", "user"}
                \cup SendCalls \cup StopCalls \cup StartCalls

\* The channel of c is in the Poller and c is open.
Listening(c) == Open(c) /\ conn[c].channel.flag = "ADDED"

\* Calls on what is open and in the Poller.
OpenCalls  == {"handle_read", "handle_close", "queue_output_callback"}

\* A call that thread x may be about to make.
Sound(x) == {k \in AnyCall :
  /\ Used(k.fn)
  /\ k.fn \notin EarlyCalls => Past(k.c)
  /\ k.fn \notin SendCalls /\ x \in AllLoops => MayRemove(x, k.c)
  /\ k.fn \in OpenCalls => Listening(k.c)
  /\ k.fn \in StartCalls => IsConnected(k.c)
  /\ k.fn \in Later(Ops) /\ k.c \notin Own(x) => k.c \in kept
  /\ x = Base /\ Ending => k.fn \in EndCalls}

\* A call that waits below another one.
WaitCalls  == {"user", "handle_write", "handle_written", "remove_connection", "remove",
               "release"}
Resting(x) == {k \in Sound(x) : k.fn \in WaitCalls}

\* Only handle_error has a handle_read waiting below it.
SoundStack(x) ==
  LET s == calls[x]
  IN  s # <<>> =>
        /\ Head(s) \in Sound(x)
        /\ \/ Tail(s) \in Seq(Resting(x))
           \/ /\ Head(s).fn = "handle_error" /\ Tail(s) # <<>>
              /\ Head(Tail(s)) \in Sound(x) /\ Head(Tail(s)).fn = "handle_read"
              /\ Tail(Tail(s)) \in Seq(Resting(x))

\* A functor that another thread may have queued, or the loop itself.
SoundQueued(l) == {k \in AnyCall :
  /\ k.fn \in Raw => Used(k.fn)
  /\ k.fn = "output_callback" => k.c \in Conns /\ Past(k.c)
  /\ k.fn \in Raw \ {"output_callback"} =>
       CrossOps # {} /\ k.c \in kept /\ k.fn \in {"send_in_loop", "stop_read_in_loop"}
  /\ k.fn \in {"connect_established", "connect_destroyed"} => l # Base}

\* The channels that a poll reported: each once, none hung up only, and those still to
\* be handled are in the Poller.
SoundList(l) == \A i \in 1..Len(active_channels_[l]) :
  LET e == active_channels_[l][i]
  IN  /\ \A j \in 1..Len(active_channels_[l]) : active_channels_[l][j].c = e.c => i = j
      /\ e.c \in Conns => /\ "HUP" \in e.events => "IN" \in e.events
                          /\ i > current[l] => Listening(e.c)

\* The channel of a connection.
SoundChannel(c) ==
  LET ch == conn[c].channel
  IN  /\ ~Past(c) => ch = NewChannel
      /\ Open(c) =>
           \/ /\ ch.flag = "ADDED" /\ IsReading(ch)
              /\ "stop_read" \in UserOps => ~IsWriting(ch)
           \/ ch.flag = "DELETED" /\ ch.events = {} /\ "stop_read" \in UserOps
      /\ Down(c) => ch.events = {}
      /\ conn[c].state = "DISCONNECTING" => Closing \cap OwnOps # {}

\* Its life: what is ahead of it on its loop l, by its state and the server's map.
SoundLife(c, l) ==
  LET a == Agenda(l)
      b == Agenda(Base)
      out == Down(c) /\ conn[c].channel.flag = "UNADD"
  IN  /\ Once(a, Establish(c))
      /\ Has(a, Establish(c)) => conn[c].state = "CONNECTING"
      /\ conn[c].state = "CONNECTING" /\ ~Gone(l) => Has(a, Establish(c))
      /\ Once(a, Report(c)) /\ Once(b, Erase(c))
      /\ ~(Has(a, Report(c)) /\ Has(b, Erase(c)))
      /\ Has(a, Report(c)) \/ Has(b, Erase(c)) => Down(c) /\ (Ending \/ c \in connections_)
      /\ Once(a, Destroy(c)) /\ Ordered(a, Establish(c), Destroy(c))
      /\ Has(a, Destroy(c)) => c \notin connections_ /\ conn[c].state # "DISCONNECTING"
      /\ Has(a, Unregister(c)) => Down(c)
      /\ Down(c) /\ conn[c].channel.flag = "ADDED" => Has(a, Unregister(c))
      /\ out => c \notin connections_ /\ ~Has(a, Destroy(c))
      /\ Gone(l) \/ c \in connections_ \/ Has(a, Destroy(c)) \/ out
      /\ Once(b, Drop(c))
      /\ Has(b, Drop(c)) => c \in connections_

\* The end of the server.
SoundEnd ==
  /\ quit_flag_[Base] => ServerDies
  /\ phase[Base] = "exited" => quit_flag_[Base]
  /\ Ending => phase[Base] = "exited"
  /\ \A l \in AllLoops : phase[l] = "exited" => calls[l] = <<>> \/ (l = Base /\ Ending)

SoundCalls == \A x \in Threads : SoundStack(x)
SoundQueues == \A l \in AllLoops :
  queue_functors_[l] \in Seq(SoundQueued(l)) /\ functors[l] \in Seq(SoundQueued(l))
SoundConns == /\ \A c \in Conns : SoundChannel(c)
              /\ \A l \in AllLoops : \A c \in Own(l) : SoundLife(c, l)
              /\ \A c \in kept : Past(c)

SoundLists == \A l \in AllLoops : SoundList(l)

SoundWork == SoundCalls /\ SoundQueues /\ SoundLists /\ SoundEnd
SoundInv  == SoundWork /\ SoundConns

\* An output callback of c that waits, and the end of c.
Notice(c)  == {Call("output_callback", c)}
Leaving(c) == {Call("connect_destroyed", c)}

\* What holds a connection until the output callbacks that captured 'this' have run: it
\* is kept; or it is in the server's map, or its end waits behind them.
KeptInv == KeepsRefs /\ ~DropsRefs => \A c \in Conns : Past(c) => c \in kept

Noticed(s, c) == Has(s, Notice(c)) =>
  \/ c \in connections_
  \/ Has(s, Leaving(c)) /\ Ordered(s, Notice(c), Leaving(c))

NoticesInv == loops_ # <<>> /\ ~ServerDies =>
  \A l \in AllLoops : \A c \in Conns : Noticed(Rest(l), c)

NoticeInv == KeptInv /\ NoticesInv

-----------------------------------------------------------------------------
(* Sequences of calls, and what is ahead of a loop.                          *)

\* What is among the elements of two sequences in a row.
LEMMA Joined ==
  ASSUME NEW S, NEW s \in Seq(S), NEW t \in Seq(S)
  PROVE  /\ \A T : Has(s \o t, T) <=> Has(s, T) \/ Has(t, T)
         /\ \A T : Once(s \o t, T) <=>
                     Once(s, T) /\ Once(t, T) /\ ~(Has(s, T) /\ Has(t, T))
         /\ \A A, B : Ordered(s \o t, A, B) <=>
                        /\ Ordered(s, A, B) /\ Ordered(t, A, B)
                        /\ ~(Has(s, B) /\ Has(t, A))
<1> DEFINE st == s \o t
           n == Len(s)
           m == Len(t)
<1>1. n \in Nat /\ m \in Nat /\ Len(st) = n + m
  BY ConcatProperties, LenProperties
<1>2. /\ \A i \in 1..n : i \in 1..(n + m) /\ st[i] = s[i]
      /\ \A i \in 1..m : i + n \in 1..(n + m) /\ st[i + n] = t[i]
  BY <1>1, ConcatProperties
<1>3. \A i \in 1..(n + m) : i \notin 1..n => i - n \in 1..m /\ st[i] = t[i - n]
  BY <1>1, <1>2
<1>4. Len(s) = n /\ Len(t) = m
  OBVIOUS
<1> HIDE DEF st, n, m
<1>5. ASSUME NEW T PROVE Has(st, T) <=> Has(s, T) \/ Has(t, T)
  <2>1. Has(st, T) => Has(s, T) \/ Has(t, T)
    BY <1>1, <1>2, <1>3, <1>4 DEF Has
  <2>2. Has(s, T) \/ Has(t, T) => Has(st, T)
    BY <1>1, <1>2, <1>4 DEF Has
  <2> QED
    BY <2>1, <2>2
<1>6. ASSUME NEW T
      PROVE  Once(st, T) <=> Once(s, T) /\ Once(t, T) /\ ~(Has(s, T) /\ Has(t, T))
  <2>1. ASSUME Once(st, T) PROVE Once(s, T) /\ Once(t, T) /\ ~(Has(s, T) /\ Has(t, T))
    <3>1. Once(s, T)
      BY <1>1, <1>2, <1>4, <2>1 DEF Once
    <3>2. ASSUME NEW i \in 1..m, NEW j \in 1..m, t[i] \in T, t[j] \in T PROVE i = j
      <4>1. i + n = j + n
        BY <1>1, <1>2, <2>1, <3>2 DEF Once
      <4> QED
        BY <1>1, <4>1
    <3>3. ASSUME NEW i \in 1..n, NEW j \in 1..m, s[i] \in T, t[j] \in T PROVE FALSE
      <4>1. i = j + n
        BY <1>1, <1>2, <2>1, <3>3 DEF Once
      <4> QED
        BY <1>1, <4>1
    <3> QED
      BY <1>4, <3>1, <3>2, <3>3 DEF Once, Has
  <2>2. ASSUME Once(s, T), Once(t, T), ~(Has(s, T) /\ Has(t, T)),
               NEW i \in 1..(n + m), NEW j \in 1..(n + m), st[i] \in T, st[j] \in T
        PROVE  i = j
    <3>1. CASE i \in 1..n /\ j \in 1..n
      BY <1>2, <1>4, <2>2, <3>1 DEF Once
    <3>2. CASE i \notin 1..n /\ j \notin 1..n
      <4>1. i - n = j - n
        BY <1>3, <1>4, <2>2, <3>2 DEF Once
      <4> QED
        BY <1>1, <4>1
    <3>3. CASE (i \in 1..n /\ j \notin 1..n) \/ (i \notin 1..n /\ j \in 1..n)
      BY <1>2, <1>3, <1>4, <2>2, <3>3 DEF Has
    <3> QED
      BY <3>1, <3>2, <3>3
  <2> QED
    BY <1>1, <2>1, <2>2 DEF Once
<1>7. ASSUME NEW A, NEW B
      PROVE  Ordered(st, A, B) <=> /\ Ordered(s, A, B) /\ Ordered(t, A, B)
                                   /\ ~(Has(s, B) /\ Has(t, A))
  <2>1. ASSUME Ordered(st, A, B)
        PROVE  Ordered(s, A, B) /\ Ordered(t, A, B) /\ ~(Has(s, B) /\ Has(t, A))
    <3>1. Ordered(s, A, B)
      BY <1>1, <1>2, <1>4, <2>1 DEF Ordered
    <3>2. ASSUME NEW i \in 1..m, NEW j \in 1..m, t[i] \in A, t[j] \in B PROVE i < j
      <4>1. i + n < j + n
        BY <1>1, <1>2, <2>1, <3>2 DEF Ordered
      <4> QED
        BY <1>1, <4>1
    <3>3. ASSUME NEW i \in 1..n, NEW j \in 1..m, s[i] \in B, t[j] \in A PROVE FALSE
      <4>1. j + n < i
        BY <1>1, <1>2, <2>1, <3>3 DEF Ordered
      <4> QED
        BY <1>1, <4>1
    <3> QED
      BY <1>4, <3>1, <3>2, <3>3 DEF Ordered, Has
  <2>2. ASSUME Ordered(s, A, B), Ordered(t, A, B), ~(Has(s, B) /\ Has(t, A)),
               NEW i \in 1..(n + m), NEW j \in 1..(n + m), st[i] \in A, st[j] \in B
        PROVE  i < j
    <3>1. CASE i \in 1..n /\ j \in 1..n
      BY <1>2, <1>4, <2>2, <3>1 DEF Ordered
    <3>2. CASE i \notin 1..n /\ j \notin 1..n
      <4>1. i - n < j - n
        BY <1>3, <1>4, <2>2, <3>2 DEF Ordered
      <4> QED
        BY <1>1, <4>1
    <3>3. CASE i \in 1..n /\ j \notin 1..n
      BY <1>1, <3>3
    <3>4. CASE i \notin 1..n /\ j \in 1..n
      BY <1>2, <1>3, <1>4, <2>2, <3>4 DEF Has
    <3> QED
      BY <3>1, <3>2, <3>3, <3>4
  <2> QED
    BY <1>1, <2>1, <2>2 DEF Ordered
<1> QED
  BY <1>5, <1>6, <1>7 DEF st

\* What is in no call, and in one.
LEMMA Alone ==
  ASSUME NEW k
  PROVE  /\ \A T : ~Has(<<>>, T) /\ Once(<<>>, T)
         /\ \A A, B : Ordered(<<>>, A, B)
         /\ \A T : (Has(<<k>>, T) <=> k \in T) /\ Once(<<k>>, T)
         /\ \A A, B : Ordered(<<k>>, A, B) <=> ~(k \in A /\ k \in B)
  BY DEF Has, Once, Ordered

\* What is not there is there at most once, and in order.
LEMMA Absent ==
  ASSUME NEW s
  PROVE  /\ \A T : ~Has(s, T) => Once(s, T)
         /\ \A A, B : ~Has(s, A) \/ ~Has(s, B) => Ordered(s, A, B)
  BY DEF Has, Once, Ordered

\* What is ahead of a loop is a sequence of calls.
LEMMA AgendaTyped ==
  ASSUME ThreadsInv, NEW l \in AllLoops
  PROVE  /\ Batch(l) \in Seq(AnyCall) /\ Batch(l) \in Seq(MayQueue(l))
         /\ Rest(l) \in Seq(AnyCall) /\ Rest(l) \in Seq(MayQueue(l))
         /\ Agenda(l) \in Seq(AnyCall) /\ Agenda(l) \in Seq(MayCall(l))
<1>1. l \in Threads
  BY DEF Threads
<1>2. \A i \in (running[l] + 1)..Len(functors[l]) : i \in 1..Len(functors[l])
  BY LenProperties DEF ThreadsInv, LoopsTyped
<1>3. \A i \in (running[l] + 1)..Len(functors[l]) :
        functors[l][i] \in AnyCall /\ functors[l][i] \in MayQueue(l)
  BY <1>2, ElementOfSeq DEF ThreadsInv, LoopsTyped
<1>4. running[l] + 1 \in Int /\ Len(functors[l]) \in Int
  BY LenProperties DEF ThreadsInv, LoopsTyped
<1>5. Batch(l) \in Seq(AnyCall) /\ Batch(l) \in Seq(MayQueue(l))
  BY <1>3, <1>4, SubSeqProperties DEF Batch
<1>6. Rest(l) \in Seq(AnyCall) /\ Rest(l) \in Seq(MayQueue(l))
  BY <1>5, ConcatProperties DEF Rest, ThreadsInv, QueuesTyped
<1>7. Rest(l) \in Seq(MayCall(l))
  BY <1>6, QueuedCalls, SeqGrows
<1> QED
  BY <1>1, <1>5, <1>6, <1>7, ConcatProperties DEF Agenda, ThreadsInv, CallsTyped

\* A call under way, and what comes after it.
Behind(x) == Tail(calls[x]) \o Rest(x)

\* What is ahead of a loop when its innermost call returns after others.
LEMMA AgendaReturned ==
  ASSUME ThreadsInv, NEW x \in AllLoops, calls[x] # <<>>, UNCHANGED loopVars,
         NEW more \in Seq(AnyCall), calls' = [calls EXCEPT ![x] = more \o Tail(@)],
         queue_functors_'[x] = queue_functors_[x]
  PROVE  /\ Behind(x) \in Seq(AnyCall)
         /\ <<Head(calls[x])>> \in Seq(AnyCall)
         /\ Agenda(x) = <<Head(calls[x])>> \o Behind(x)
         /\ Agenda(x)' = more \o Behind(x)
<1>1. x \in Threads
  BY DEF Threads
<1>2. calls[x] \in Seq(AnyCall) /\ Head(calls[x]) \in AnyCall
      /\ Tail(calls[x]) \in Seq(AnyCall)
  BY <1>1, HeadTailProperties DEF ThreadsInv, CallsTyped
<1>3. calls[x] = <<Head(calls[x])>> \o Tail(calls[x])
  BY <1>2
<1>4. Rest(x) \in Seq(AnyCall)
  BY AgendaTyped
<1>5. <<Head(calls[x])>> \in Seq(AnyCall)
  BY <1>2
<1>6. Agenda(x) = <<Head(calls[x])>> \o Behind(x)
  <2> DEFINE h == <<Head(calls[x])>>
             t == Tail(calls[x])
             r == Rest(x)
  <2>1. h \in Seq(AnyCall) /\ t \in Seq(AnyCall) /\ r \in Seq(AnyCall) /\ calls[x] = h \o t
    BY <1>2, <1>3, <1>4, <1>5
  <2> HIDE DEF h, t, r
  <2>2. (h \o t) \o r = h \o (t \o r)
    BY <2>1, ConcatAssociative, SMTT(30)
  <2>3. Agenda(x) = h \o (t \o r)
    BY <2>1, <2>2 DEF Agenda, r
  <2> QED
    BY <2>3 DEF Behind, h, t, r
<1>7. calls'[x] = more \o Tail(calls[x])
  BY <1>1 DEF ThreadsInv, CallsTyped
<1>9. Rest(x)' = Rest(x)
  BY DEF Rest, Batch, loopVars
<1>8. Agenda(x)' = more \o Behind(x)
  <2> DEFINE t == Tail(calls[x])
             r == Rest(x)
  <2>1. t \in Seq(AnyCall) /\ r \in Seq(AnyCall) /\ calls'[x] = more \o t /\ Rest(x)' = r
    BY <1>2, <1>4, <1>7, <1>9
  <2> HIDE DEF t, r
  <2>2. (more \o t) \o r = more \o (t \o r)
    BY <2>1, ConcatAssociative, SMTT(30)
  <2>3. Agenda(x)' = more \o (t \o r)
    BY <2>1, <2>2 DEF Agenda
  <2> QED
    BY <2>3 DEF Behind, t, r
<1> QED
  BY <1>2, <1>4, <1>5, <1>6, <1>8, ConcatProperties DEF Behind

\* What other loops have ahead does not change.
LEMMA AgendaLeft ==
  ASSUME ThreadsInv, NEW l \in AllLoops, calls'[l] = calls[l],
         queue_functors_'[l] = queue_functors_[l], UNCHANGED <<functors, running>>
  PROVE  Agenda(l)' = Agenda(l) /\ Rest(l)' = Rest(l)
  BY DEF Agenda, Rest, Batch

\* A functor queued is the last that is left to do.
LEMMA RestPosted ==
  ASSUME ThreadsInv, NEW l \in AllLoops, NEW f \in AnyCall, UNCHANGED <<functors, running>>,
         queue_functors_'[l] = Append(queue_functors_[l], f)
  PROVE  Rest(l)' = Rest(l) \o <<f>>
<1>1. /\ queue_functors_[l] \in Seq(AnyCall) /\ Batch(l) \in Seq(AnyCall)
      /\ <<f>> \in Seq(AnyCall)
  BY AgendaTyped DEF ThreadsInv, QueuesTyped
<1>2. queue_functors_'[l] = queue_functors_[l] \o <<f>>
  BY <1>1, AppendIsConcat
<1>4. Batch(l)' = Batch(l)
  BY DEF Batch
<1> QED
  <2> DEFINE b == Batch(l)
             q == queue_functors_[l]
             e == <<f>>
  <2>1. /\ b \in Seq(AnyCall) /\ q \in Seq(AnyCall) /\ e \in Seq(AnyCall)
        /\ queue_functors_'[l] = q \o e /\ Batch(l)' = b
    BY <1>1, <1>2, <1>4
  <2> HIDE DEF b, q, e
  <2>2. b \o (q \o e) = (b \o q) \o e
    BY <2>1, ConcatAssociative, SMTT(30)
  <2>3. Rest(l)' = (b \o q) \o e
    BY <2>1, <2>2 DEF Rest
  <2> QED
    BY <2>3 DEF Rest, b, q, e

\* run_in_loop on another thread puts the functor at the end.
LEMMA AgendaPosted ==
  ASSUME ThreadsInv, NEW l \in AllLoops, NEW f \in AnyCall, calls'[l] = calls[l],
         UNCHANGED <<functors, running>>,
         queue_functors_'[l] = Append(queue_functors_[l], f)
  PROVE  Agenda(l)' = Agenda(l) \o <<f>> /\ <<f>> \in Seq(AnyCall)
<1>1. /\ Rest(l) \in Seq(AnyCall) /\ calls[l] \in Seq(AnyCall) /\ <<f>> \in Seq(AnyCall)
  BY AgendaTyped DEF ThreadsInv, QueuesTyped, CallsTyped, Threads
<1>3. Rest(l)' = Rest(l) \o <<f>>
  BY RestPosted
<1> QED
  <2> DEFINE s == calls[l]
             r == Rest(l)
             e == <<f>>
  <2>1. /\ s \in Seq(AnyCall) /\ r \in Seq(AnyCall) /\ e \in Seq(AnyCall)
        /\ calls'[l] = s /\ Rest(l)' = r \o e
    BY <1>1, <1>3
  <2> HIDE DEF s, r, e
  <2>2. s \o (r \o e) = (s \o r) \o e
    BY <2>1, ConcatAssociative, SMTT(30)
  <2>3. Agenda(l)' = (s \o r) \o e
    BY <2>1, <2>2 DEF Agenda
  <2> QED
    BY <2>1, <2>3 DEF Agenda, s, r, e

\* The sets of calls that SoundLife asks for.
Marks(c) == {Establish(c), Unregister(c), Destroy(c), Report(c), Erase(c), Drop(c)}

\* Of a step: as much is ahead of connection c on loop l as before.
Alike(c, l) ==
  /\ \A T \in Marks(c) : /\ Has(Agenda(l)', T) <=> Has(Agenda(l), T)
                         /\ Once(Agenda(l)', T) <=> Once(Agenda(l), T)
  /\ Ordered(Agenda(l)', Establish(c), Destroy(c))
       <=> Ordered(Agenda(l), Establish(c), Destroy(c))

\* What the return of a call does to what is ahead of its own loop.
LEMMA ReturnMarks ==
  ASSUME ThreadsInv, NEW x \in AllLoops, calls[x] # <<>>, UNCHANGED loopVars,
         NEW more \in Seq(AnyCall), calls' = [calls EXCEPT ![x] = more \o Tail(@)],
         queue_functors_'[x] = queue_functors_[x]
  PROVE  LET h == Head(calls[x])
             a == Agenda(x)
             z == Agenda(x)'
             b == Behind(x)
         IN  /\ \A T : /\ Has(a, T) <=> h \in T \/ Has(b, T)
                       /\ Has(z, T) <=> Has(more, T) \/ Has(b, T)
                       /\ Once(a, T) <=> Once(b, T) /\ ~(h \in T /\ Has(b, T))
                       /\ Once(z, T) <=> /\ Once(more, T) /\ Once(b, T)
                                         /\ ~(Has(more, T) /\ Has(b, T))
             /\ \A A, B :
                  /\ Ordered(a, A, B) <=> /\ Ordered(b, A, B) /\ ~(h \in A /\ h \in B)
                                          /\ ~(h \in B /\ Has(b, A))
                  /\ Ordered(z, A, B) <=> /\ Ordered(more, A, B) /\ Ordered(b, A, B)
                                          /\ ~(Has(more, B) /\ Has(b, A))
<1> DEFINE h == Head(calls[x])
           a == Agenda(x)
           z == Agenda(x)'
           b == Behind(x)
           one == <<h>>
<1>1. b \in Seq(AnyCall) /\ one \in Seq(AnyCall) /\ a = one \o b /\ z = more \o b
  BY AgendaReturned
<1>2. /\ \A T : (Has(one, T) <=> h \in T) /\ Once(one, T)
      /\ \A A, B : Ordered(one, A, B) <=> ~(h \in A /\ h \in B)
  BY Alone
<1> HIDE DEF h, a, z, b, one
<1>3. /\ \A T : Has(a, T) <=> Has(one, T) \/ Has(b, T)
      /\ \A T : Once(a, T) <=> Once(one, T) /\ Once(b, T) /\ ~(Has(one, T) /\ Has(b, T))
      /\ \A A, B : Ordered(a, A, B) <=> /\ Ordered(one, A, B) /\ Ordered(b, A, B)
                                        /\ ~(Has(one, B) /\ Has(b, A))
  BY <1>1, Joined
<1>4. /\ \A T : Has(z, T) <=> Has(more, T) \/ Has(b, T)
      /\ \A T : Once(z, T) <=> Once(more, T) /\ Once(b, T) /\ ~(Has(more, T) /\ Has(b, T))
      /\ \A A, B : Ordered(z, A, B) <=> /\ Ordered(more, A, B) /\ Ordered(b, A, B)
                                        /\ ~(Has(more, B) /\ Has(b, A))
  BY <1>1, Joined
<1>5. \A T : /\ Has(a, T) <=> h \in T \/ Has(b, T)
             /\ Once(a, T) <=> Once(b, T) /\ ~(h \in T /\ Has(b, T))
  BY <1>2, <1>3, Zenon
<1>6. \A A, B : Ordered(a, A, B) <=> /\ Ordered(b, A, B) /\ ~(h \in A /\ h \in B)
                                     /\ ~(h \in B /\ Has(b, A))
  BY <1>2, <1>3, Zenon
<1> QED
  BY <1>4, <1>5, <1>6 DEF h, a, z, b

\* What a functor queued at the end does.
LEMMA PostMarks ==
  ASSUME ThreadsInv, NEW l \in AllLoops, NEW f \in AnyCall, calls'[l] = calls[l],
         UNCHANGED <<functors, running>>,
         queue_functors_'[l] = Append(queue_functors_[l], f)
  PROVE  LET a == Agenda(l)
             z == Agenda(l)'
         IN  /\ \A T : /\ Has(z, T) <=> Has(a, T) \/ f \in T
                       /\ Once(z, T) <=> Once(a, T) /\ ~(f \in T /\ Has(a, T))
             /\ \A A, B : Ordered(z, A, B) <=> /\ Ordered(a, A, B) /\ ~(f \in A /\ f \in B)
                                               /\ ~(f \in A /\ Has(a, B))
<1> DEFINE a == Agenda(l)
           z == Agenda(l)'
           one == <<f>>
<1>1. a \in Seq(AnyCall) /\ one \in Seq(AnyCall) /\ z = a \o one
  BY AgendaPosted, AgendaTyped
<1>2. /\ \A T : (Has(one, T) <=> f \in T) /\ Once(one, T)
      /\ \A A, B : Ordered(one, A, B) <=> ~(f \in A /\ f \in B)
  BY Alone
<1> HIDE DEF a, z, one
<1>3. /\ \A T : Has(z, T) <=> Has(a, T) \/ Has(one, T)
      /\ \A T : Once(z, T) <=> Once(a, T) /\ Once(one, T) /\ ~(Has(a, T) /\ Has(one, T))
      /\ \A A, B : Ordered(z, A, B) <=> /\ Ordered(a, A, B) /\ Ordered(one, A, B)
                                        /\ ~(Has(a, B) /\ Has(one, A))
  BY <1>1, Joined
<1>4. \A T : /\ Has(z, T) <=> Has(a, T) \/ f \in T
             /\ Once(z, T) <=> Once(a, T) /\ ~(f \in T /\ Has(a, T))
  BY <1>2, <1>3, Zenon
<1>5. \A A, B : Ordered(z, A, B) <=> /\ Ordered(a, A, B) /\ ~(f \in A /\ f \in B)
                                     /\ ~(f \in A /\ Has(a, B))
  BY <1>2, <1>3, Zenon
<1> QED
  BY <1>4, <1>5 DEF a, z

\* The marks of a connection are made of its calls.
LEMMA MarksAreTokens ==
  ASSUME NEW c
  PROVE  /\ \A T \in Marks(c) : T \subseteq Tokens(c)
         /\ {Establish(c), Unregister(c), Destroy(c), Report(c), Erase(c), Drop(c)}
              \subseteq Marks(c)
  BY DEF Marks, Tokens, Destroy

\* Nothing changes ahead of a loop that nobody touched.
LEMMA LeftAlike ==
  ASSUME NEW c, NEW l, Agenda(l)' = Agenda(l)
  PROVE  Alike(c, l)
  BY DEF Alike

\* The return of a call that is nothing to c.
LEMMA ReturnAlike ==
  ASSUME ThreadsInv, NEW x \in Threads, calls[x] # <<>>, UNCHANGED loopVars,
         NEW more \in Seq(AnyCall), calls' = [calls EXCEPT ![x] = more \o Tail(@)],
         NEW l \in AllLoops, queue_functors_'[l] = queue_functors_[l],
         NEW c, Head(calls[x]) \notin Tokens(c), ~Has(more, Tokens(c))
  PROVE  Alike(c, l)
<1>1. CASE l # x
  BY <1>1, AgendaLeft, LeftAlike DEF ThreadsInv, CallsTyped, loopVars
<1>2. CASE l = x
  <2>1. \A T : T \subseteq Tokens(c) => Head(calls[x]) \notin T /\ ~Has(more, T)
    BY DEF Has
  <2>2. \A T : ~Has(more, T) => Once(more, T)
    BY Absent
  <2>3. \A A, B : ~Has(more, A) => Ordered(more, A, B)
    BY Absent
  <2>4. \A T \in Marks(c) : /\ Head(calls[x]) \notin T
                            /\ ~Has(more, T) /\ Once(more, T)
    BY <2>1, <2>2, MarksAreTokens
  <2>5. /\ Head(calls[x]) \notin Establish(c) /\ Head(calls[x]) \notin Destroy(c)
        /\ ~Has(more, Establish(c)) /\ ~Has(more, Destroy(c))
        /\ Ordered(more, Establish(c), Destroy(c))
    BY <2>3, <2>4 DEF Marks
  <2> DEFINE h == Head(calls[x])
             a == Agenda(x)
             z == Agenda(x)'
             b == Behind(x)
  <2>6. /\ \A T : /\ Has(a, T) <=> h \in T \/ Has(b, T)
                  /\ Has(z, T) <=> Has(more, T) \/ Has(b, T)
                  /\ Once(a, T) <=> Once(b, T) /\ ~(h \in T /\ Has(b, T))
                  /\ Once(z, T) <=> /\ Once(more, T) /\ Once(b, T)
                                    /\ ~(Has(more, T) /\ Has(b, T))
        /\ \A A, B :
             /\ Ordered(a, A, B) <=> /\ Ordered(b, A, B) /\ ~(h \in A /\ h \in B)
                                     /\ ~(h \in B /\ Has(b, A))
             /\ Ordered(z, A, B) <=> /\ Ordered(more, A, B) /\ Ordered(b, A, B)
                                     /\ ~(Has(more, B) /\ Has(b, A))
    BY <1>2, ReturnMarks
  <2> HIDE DEF h, a, z, b
  <2>7. \A T \in Marks(c) : (Has(z, T) <=> Has(a, T)) /\ (Once(z, T) <=> Once(a, T))
    BY <2>4, <2>6 DEF h
  <2>8. Ordered(z, Establish(c), Destroy(c)) <=> Ordered(a, Establish(c), Destroy(c))
    BY <2>5, <2>6 DEF h
  <2> QED
    BY <1>2, <2>7, <2>8 DEF Alike, a, z
<1> QED
  BY <1>1, <1>2

\* A functor that is nothing to c.
LEMMA PostAlike ==
  ASSUME ThreadsInv, NEW l \in AllLoops, NEW f \in AnyCall, calls'[l] = calls[l],
         UNCHANGED <<functors, running>>,
         queue_functors_'[l] = Append(queue_functors_[l], f),
         NEW c, f \notin Tokens(c)
  PROVE  Alike(c, l)
<1> DEFINE a == Agenda(l)
           z == Agenda(l)'
<1>1. /\ \A T : /\ Has(z, T) <=> Has(a, T) \/ f \in T
                /\ Once(z, T) <=> Once(a, T) /\ ~(f \in T /\ Has(a, T))
      /\ \A A, B : Ordered(z, A, B) <=> /\ Ordered(a, A, B) /\ ~(f \in A /\ f \in B)
                                        /\ ~(f \in A /\ Has(a, B))
  BY PostMarks
<1>2. \A T \in Marks(c) : f \notin T
  BY MarksAreTokens
<1> HIDE DEF a, z
<1>3. f \notin Establish(c)
  BY <1>2 DEF Marks
<1>4. \A T \in Marks(c) : (Has(z, T) <=> Has(a, T)) /\ (Once(z, T) <=> Once(a, T))
  BY <1>1, <1>2
<1>5. Ordered(z, Establish(c), Destroy(c)) <=> Ordered(a, Establish(c), Destroy(c))
  BY <1>1, <1>3
<1> QED
  BY <1>4, <1>5 DEF Alike, a, z

\* A call that is nothing to c returns after its loop queued a functor that is none.
LEMMA QueueAlike ==
  ASSUME ThreadsInv, NEW x \in AllLoops, calls[x] # <<>>, UNCHANGED loopVars,
         NEW more \in Seq(AnyCall), NEW f \in AnyCall,
         calls' = [calls EXCEPT ![x] = more \o Tail(@)],
         queue_functors_' = [queue_functors_ EXCEPT ![x] = Append(@, f)],
         NEW c, Head(calls[x]) \notin Tokens(c), ~Has(more, Tokens(c)), f \notin Tokens(c)
  PROVE  Alike(c, x)
<1> DEFINE o == <<Head(calls[x])>>
           t == Tail(calls[x])
           r == Rest(x)
           e == <<f>>
           w == t \o r
           y == w \o e
           a == Agenda(x)
           z == Agenda(x)'
<1>1. /\ o \in Seq(AnyCall) /\ t \in Seq(AnyCall) /\ r \in Seq(AnyCall) /\ e \in Seq(AnyCall)
      /\ calls[x] = o \o t /\ calls'[x] = more \o t
  <2>1. x \in Threads
    BY DEF Threads
  <2>2. calls[x] \in Seq(AnyCall) /\ calls'[x] = more \o t /\ t \in Seq(AnyCall)
    BY <2>1, HeadTailProperties DEF ThreadsInv, CallsTyped
  <2>3. o \in Seq(AnyCall) /\ calls[x] = o \o t
    BY <2>2
  <2> QED
    BY <2>2, <2>3, AgendaTyped
<1>2. Rest(x)' = r \o e
  <2>1. queue_functors_'[x] = Append(queue_functors_[x], f) /\ UNCHANGED <<functors, running>>
    BY DEF ThreadsInv, QueuesTyped, loopVars
  <2> QED
    BY <2>1, RestPosted
<1>3. \A T : T \subseteq Tokens(c) => ~Has(o, T) /\ ~Has(more, T) /\ ~Has(e, T)
  <2>1. \A T : (Has(o, T) <=> Head(calls[x]) \in T) /\ (Has(e, T) <=> f \in T)
    BY Alone
  <2>2. \A T : T \subseteq Tokens(c) => ~Has(more, T)
    BY DEF Has
  <2> HIDE DEF o, e
  <2> QED
    BY <2>1, <2>2
<1> HIDE DEF o, t, r, e
<1>4. /\ w \in Seq(AnyCall) /\ y \in Seq(AnyCall) /\ a = o \o w /\ z = more \o y
      /\ y = w \o e
  <2>1. w \in Seq(AnyCall) /\ (o \o t) \o r = o \o w
    BY <1>1, ConcatProperties, ConcatAssociative, SMTT(90)
  <2>6. t \o (r \o e) = (t \o r) \o e
    <3>1. t \in Seq(AnyCall) /\ r \in Seq(AnyCall) /\ e \in Seq(AnyCall)
      BY <1>1
    <3> HIDE DEF w, y, a, z
    <3> QED
      BY <3>1, ConcatAssociative, SMTT(30)
  <2>2. y \in Seq(AnyCall) /\ t \o (r \o e) = y
    <3>1. w \in Seq(AnyCall) /\ e \in Seq(AnyCall)
      BY <1>1, <2>1
    <3>2. y \in Seq(AnyCall)
      <4> HIDE DEF w
      <4> QED
        BY <3>1, ConcatProperties
    <3> QED
      BY <2>6, <3>2
  <2>3. (more \o t) \o (r \o e) = more \o (t \o (r \o e))
    <3> DEFINE q == r \o e
    <3>1. q \in Seq(AnyCall)
      BY <1>1, ConcatProperties
    <3> HIDE DEF q
    <3>2. (more \o t) \o q = more \o (t \o q)
      BY <1>1, <3>1, ConcatAssociative, SMTT(90)
    <3> QED
      BY <3>2 DEF q
  <2>4. a = (o \o t) \o r
    BY <1>1 DEF Agenda, r
  <2>5. z = (more \o t) \o (r \o e)
    BY <1>1, <1>2 DEF Agenda
  <2> QED
    BY <2>1, <2>2, <2>3, <2>4, <2>5
<1> HIDE DEF a, z, w, y
<1>5. /\ \A T : Has(a, T) <=> Has(o, T) \/ Has(w, T)
      /\ \A T : Once(a, T) <=>
                  Once(o, T) /\ Once(w, T) /\ ~(Has(o, T) /\ Has(w, T))
      /\ \A A, B : Ordered(a, A, B) <=> /\ Ordered(o, A, B) /\ Ordered(w, A, B)
                                        /\ ~(Has(o, B) /\ Has(w, A))
  BY <1>1, <1>4, Joined
<1>6. /\ \A T : Has(z, T) <=> Has(more, T) \/ Has(y, T)
      /\ \A T : Once(z, T) <=>
                  Once(more, T) /\ Once(y, T) /\ ~(Has(more, T) /\ Has(y, T))
      /\ \A A, B : Ordered(z, A, B) <=> /\ Ordered(more, A, B) /\ Ordered(y, A, B)
                                        /\ ~(Has(more, B) /\ Has(y, A))
  <2>1. more \in Seq(AnyCall) /\ y \in Seq(AnyCall) /\ z = more \o y
    BY <1>4
  <2> QED
    BY <2>1, Joined
<1>7. /\ \A T : Has(y, T) <=> Has(w, T) \/ Has(e, T)
      /\ \A T : Once(y, T) <=>
                  Once(w, T) /\ Once(e, T) /\ ~(Has(w, T) /\ Has(e, T))
      /\ \A A, B : Ordered(y, A, B) <=> /\ Ordered(w, A, B) /\ Ordered(e, A, B)
                                        /\ ~(Has(w, B) /\ Has(e, A))
  BY <1>1, <1>4, Joined
<1>8. \A s : /\ \A T : ~Has(s, T) => Once(s, T)
            /\ \A A, B : ~Has(s, A) \/ ~Has(s, B) => Ordered(s, A, B)
  BY Absent
<1>9. /\ \A T \in Marks(c) : T \subseteq Tokens(c)
      /\ Establish(c) \in Marks(c) /\ Destroy(c) \in Marks(c)
  BY MarksAreTokens DEF Marks
<1>10. ASSUME NEW T \in Marks(c)
       PROVE  (Has(z, T) <=> Has(a, T)) /\ (Once(z, T) <=> Once(a, T))
  <2>1. ~Has(o, T) /\ ~Has(more, T) /\ ~Has(e, T)
    BY <1>3, <1>9
  <2>2. Once(o, T) /\ Once(more, T) /\ Once(e, T)
    BY <1>8, <2>1
  <2>3. (Has(a, T) <=> Has(w, T)) /\ (Once(a, T) <=> Once(w, T))
    BY <1>5, <2>1, <2>2
  <2>4. (Has(y, T) <=> Has(w, T)) /\ (Once(y, T) <=> Once(w, T))
    BY <1>7, <2>1, <2>2
  <2>5. (Has(z, T) <=> Has(y, T)) /\ (Once(z, T) <=> Once(y, T))
    BY <1>6, <2>1, <2>2
  <2> QED
    BY <2>3, <2>4, <2>5
<1>11. Ordered(z, Establish(c), Destroy(c)) <=> Ordered(a, Establish(c), Destroy(c))
  <2>1. \A T \in {Establish(c), Destroy(c)} : ~Has(o, T) /\ ~Has(more, T) /\ ~Has(e, T)
    BY <1>3, <1>9
  <2>2. \A s \in {o, more, e} : Ordered(s, Establish(c), Destroy(c))
    BY <1>8, <2>1
  <2> QED
    BY <1>5, <1>6, <1>7, <2>1, <2>2
<1> QED
  BY <1>10, <1>11 DEF Alike, a, z

\* run_in_loop of a call that is nothing to c.
LEMMA RunAlike ==
  ASSUME ThreadsInv, NEW x \in Threads, calls[x] # <<>>, UNCHANGED loopVars,
         NEW m \in AllLoops, NEW f \in AnyCall, RunInLoop(x, m, f),
         NEW c, Head(calls[x]) \notin Tokens(c), f \notin Tokens(c), NEW l \in AllLoops
  PROVE  Alike(c, l)
<1>1. CASE x = m
  <2>1. <<f>> \in Seq(AnyCall) /\ ~Has(<<f>>, Tokens(c))
    BY Alone
  <2>2. /\ calls' = [calls EXCEPT ![x] = <<f>> \o Tail(@)]
        /\ queue_functors_'[l] = queue_functors_[l]
    BY <1>1 DEF RunInLoop, Return
  <2> QED
    BY <2>1, <2>2, ReturnAlike
<1>2. CASE x # m
  <2>1. Tail(calls[x]) = <<>> \o Tail(calls[x])
    BY CallUnderWay, ConcatEmptySeq DEF ThreadsInv
  <2>2. calls' = [calls EXCEPT ![x] = <<>> \o Tail(@)]
    BY <1>2, <2>1 DEF RunInLoop
  <2>3. <<>> \in Seq(AnyCall) /\ ~Has(<<>>, Tokens(c))
    BY EmptySeq, Alone
  <2>4. queue_functors_' = [queue_functors_ EXCEPT ![m] = Append(@, f)]
    BY <1>2 DEF RunInLoop
  <2>5. CASE l # m
    <3>1. queue_functors_'[l] = queue_functors_[l]
      BY <2>4, <2>5
    <3> QED
      BY <2>2, <2>3, <3>1, ReturnAlike
  <2>6. CASE l = m
    <3>1. /\ queue_functors_'[l] = Append(queue_functors_[l], f)
          /\ calls'[l] = calls[l] /\ UNCHANGED <<functors, running>>
      BY <1>2, <2>2, <2>4, <2>6 DEF ThreadsInv, QueuesTyped, CallsTyped, loopVars
    <3> QED
      BY <3>1, PostAlike
  <2> QED
    BY <2>5, <2>6
<1> QED
  BY <1>1, <1>2

-----------------------------------------------------------------------------
(* What a step leaves alone.                                                 *)

\* Of a step: for the life of connection d nothing happens, except that a close that
\* is under way sets its state.
Keeps(d) ==
  /\ \/ conn'[d].state = conn[d].state
     \/ Open(d) /\ conn'[d].state = "DISCONNECTING" /\ d \in connections_
  /\ Down(d) => conn'[d].channel = conn[d].channel
  /\ d \in connections_' <=> d \in connections_
  /\ \A l \in AllLoops : Alike(d, l)

\* No loop ends, and neither does the server.
KeepsEnds == (Ending' <=> Ending) /\ \A l \in AllLoops : Gone(l)' <=> Gone(l)

\* The life of a connection is kept when nothing of it changes and its marks stay.
LEMMA LifeKept ==
  ASSUME NEW d, NEW l \in AllLoops, SoundLife(d, l), Keeps(d), KeepsEnds
  PROVE  SoundLife(d, l)'
<1>1. Base \in AllLoops
  BY DEF AllLoops
<1>2. /\ \A T \in Marks(d) : /\ Has(Agenda(l)', T) <=> Has(Agenda(l), T)
                             /\ Once(Agenda(l)', T) <=> Once(Agenda(l), T)
                             /\ Has(Agenda(Base)', T) <=> Has(Agenda(Base), T)
                             /\ Once(Agenda(Base)', T) <=> Once(Agenda(Base), T)
      /\ Ordered(Agenda(l)', Establish(d), Destroy(d))
           <=> Ordered(Agenda(l), Establish(d), Destroy(d))
  BY <1>1 DEF Keeps, Alike
<1>3. /\ Has(Agenda(l)', Establish(d)) <=> Has(Agenda(l), Establish(d))
      /\ Once(Agenda(l)', Establish(d)) <=> Once(Agenda(l), Establish(d))
      /\ Has(Agenda(l)', Unregister(d)) <=> Has(Agenda(l), Unregister(d))
      /\ Has(Agenda(l)', Destroy(d)) <=> Has(Agenda(l), Destroy(d))
      /\ Once(Agenda(l)', Destroy(d)) <=> Once(Agenda(l), Destroy(d))
      /\ Has(Agenda(l)', Report(d)) <=> Has(Agenda(l), Report(d))
      /\ Once(Agenda(l)', Report(d)) <=> Once(Agenda(l), Report(d))
      /\ Has(Agenda(Base)', Erase(d)) <=> Has(Agenda(Base), Erase(d))
      /\ Once(Agenda(Base)', Erase(d)) <=> Once(Agenda(Base), Erase(d))
      /\ Has(Agenda(Base)', Drop(d)) <=> Has(Agenda(Base), Drop(d))
      /\ Once(Agenda(Base)', Drop(d)) <=> Once(Agenda(Base), Drop(d))
  BY <1>2 DEF Marks
<1>4. (Ending' <=> Ending) /\ (Gone(l)' <=> Gone(l))
  BY DEF KeepsEnds
<1> DEFINE a == Agenda(l)
           z == Agenda(l)'
           b == Agenda(Base)
           y == Agenda(Base)'
<1>5. CASE conn'[d].state = conn[d].state
  <2>1. /\ Down(d)' <=> Down(d)
        /\ Down(d) => conn'[d].channel = conn[d].channel
        /\ d \in connections_' <=> d \in connections_
    BY <1>5 DEF Down, Keeps
  <2> QED
    BY <1>2, <1>3, <1>4, <1>5, <2>1 DEF SoundLife
<1>6. CASE Open(d) /\ conn'[d].state = "DISCONNECTING" /\ d \in connections_
  <2>1. /\ ~Down(d)' /\ ~Down(d) /\ d \in connections_' /\ d \in connections_
        /\ conn[d].state # "CONNECTING"
    BY <1>6 DEF Down, Keeps, Open
  <2> QED
    BY <1>2, <1>3, <1>4, <1>6, <2>1 DEF SoundLife
<1> QED
  BY <1>5, <1>6 DEF Keeps

\* So are the lives of the connections outside C.
LEMMA LivesKept ==
  ASSUME SoundConns, KeepsEnds, NEW C, \A d \in Known \ C : Keeps(d),
         \A d \in Conns : conn'[d].loop = conn[d].loop
  PROVE  \A l \in AllLoops : \A d \in Own(l)' \ C : d \in Known => SoundLife(d, l)'
<1> SUFFICES ASSUME NEW l \in AllLoops, NEW d \in Own(l)' \ C, d \in Known
             PROVE  SoundLife(d, l)'
  OBVIOUS
<1>1. d \in Own(l) /\ Keeps(d)
  BY DEF Own, Known
<1> QED
  BY <1>1, LifeKept DEF SoundConns

\* What a thread is about to do stays sound while other threads go on; what waits on
\* its stack stays so, too, whatever it does itself.
LEMMA SoundMore ==
  ASSUME WellUsed, ThreadsInv, NEW x \in Threads, Local(x), Growing,
         UNCHANGED <<phase, active_channels_, current>>, Ending' <=> Ending,
         \A c \in Conns : Past(c) => Past(c)', kept \subseteq kept' \/ CrossOps = {}
  PROVE  /\ \A y \in Threads : y # x \/ UNCHANGED conn =>
                                 Sound(y) \cap MayCall(y) \subseteq Sound(y)'
         /\ Resting(x) \cap MayCall(x) \subseteq Resting(x)'
<1>1. ASSUME NEW y \in Threads, NEW k \in Sound(y), k \in MayCall(y),
             y # x \/ UNCHANGED conn \/ k.fn \in WaitCalls
      PROVE  k \in Sound(y)'
  <2>1. k.c \in Conns \/ k.fn = "new_connection"
    BY <1>1 DEF MayCall, Own, Known, Call
  <2>2. k.fn \notin EarlyCalls => Past(k.c)'
    <3>1. k.fn \notin EarlyCalls => k.c \in Conns
      BY <2>1 DEF EarlyCalls
    <3> QED
      BY <1>1, <3>1 DEF Sound
  <2>3. MayRemove(y, k.c) => MayRemove(y, k.c)'
    BY DEF MayRemove
  <2>4. (y # x \/ UNCHANGED conn) /\ k.c \in Own(y) => conn'[k.c] = conn[k.c]
    <3>1. k.c \in Own(y) => k.c \in Known
      BY DEF Own
    <3>2. y # x /\ k.c \in Own(y) => k.c \notin Own(x)
      BY DEF Own
    <3> QED
      BY <3>1, <3>2 DEF Local
  <2>5. k.fn \in OpenCalls \cup StartCalls => k.c \in Own(y)
    <3>1. StartCalls \cap CrossOps = {}
      BY DEF StartCalls, CrossOps, WellUsed
    <3>2. (OpenCalls \cup StartCalls) \cap Later(CrossOps) = {}
      BY <3>1 DEF OpenCalls, StartCalls, Later, AfterTest, CrossOps, WellUsed
    <3> QED
      BY <1>1, <3>2 DEF MayCall, OpenCalls, StartCalls, BaseCalls, Call
  <2>6. k.fn \in WaitCalls => k.fn \notin OpenCalls \cup StartCalls
    BY DEF WaitCalls, OpenCalls, StartCalls
  <2>7. k.fn \in OpenCalls => Listening(k.c)'
    BY <1>1, <2>4, <2>5, <2>6 DEF Sound, Listening, Open
  <2>8. k.fn \in StartCalls => IsConnected(k.c)'
    BY <1>1, <2>4, <2>5, <2>6 DEF Sound, IsConnected
  <2>9. k.fn \in Later(Ops) /\ k.c \notin Own(y)' => k.c \in kept'
    <3>1. Own(y) \subseteq Own(y)'
      BY MayMore
    <3>2. CASE kept \subseteq kept'
      BY <1>1, <3>1, <3>2 DEF Sound
    <3>3. CASE CrossOps = {}
      <4>1. Later(CrossOps) = {}
        BY <3>3 DEF Later
      <4>2. BaseCalls \cap Later(Ops) = {} /\ "new_connection" \notin Later(Ops)
        BY DEF BaseCalls, Later, Ops, AfterTest
      <4> QED
        BY <1>1, <3>1, <4>1, <4>2 DEF MayCall, Call
    <3> QED
      BY <3>2, <3>3
  <2> QED
    BY <1>1, <2>2, <2>3, <2>7, <2>8, <2>9 DEF Sound
<1> QED
  BY <1>1 DEF Resting

\* A sequence over two sets is one over what they share.
LEMMA SeqBoth ==
  ASSUME NEW S, NEW T, NEW s \in Seq(S), s \in Seq(T)
  PROVE  s \in Seq(S \cap T)
<1>1. Len(s) \in Nat /\ DOMAIN s = 1..Len(s)
  BY LenProperties
<1>2. \A i \in 1..Len(s) : s[i] \in S \cap T
  BY ElementOfSeq
<1>3. s = [i \in 1..Len(s) |-> s[i]]
  BY <1>1
<1> QED
  BY <1>1, <1>2, <1>3, IsASeq

\* The stack of a thread that does nothing stays sound if its calls do.
LEMMA StackKept ==
  ASSUME CallsTyped, NEW y \in Threads, SoundStack(y), calls'[y] = calls[y],
         Sound(y) \cap MayCall(y) \subseteq Sound(y)'
  PROVE  SoundStack(y)'
<1> DEFINE s == calls[y]
<1> SUFFICES ASSUME s # <<>>
             PROVE  /\ Head(s) \in Sound(y)'
                    /\ \/ Tail(s) \in Seq(Resting(y)')
                       \/ /\ Head(s).fn = "handle_error" /\ Tail(s) # <<>>
                          /\ Head(Tail(s)) \in Sound(y)' /\ Head(Tail(s)).fn = "handle_read"
                          /\ Tail(Tail(s)) \in Seq(Resting(y)')
  BY DEF SoundStack
<1>1. s \in Seq(MayCall(y)) /\ Head(s) \in MayCall(y) /\ Tail(s) \in Seq(MayCall(y))
  BY CallUnderWay
<1>2. Head(s) \in Sound(y)'
  BY <1>1 DEF SoundStack
<1>3. Resting(y) \cap MayCall(y) \subseteq Resting(y)'
  BY DEF Resting
<1>4. \A t \in Seq(Resting(y)) : t \in Seq(MayCall(y)) => t \in Seq(Resting(y)')
  BY <1>3, SeqBoth, SeqGrows
<1>5. CASE Tail(s) \in Seq(Resting(y))
  BY <1>1, <1>2, <1>4, <1>5
<1>6. CASE /\ Head(s).fn = "handle_error" /\ Tail(s) # <<>>
           /\ Head(Tail(s)) \in Sound(y) /\ Head(Tail(s)).fn = "handle_read"
           /\ Tail(Tail(s)) \in Seq(Resting(y))
  <2>1. Head(Tail(s)) \in MayCall(y) /\ Tail(Tail(s)) \in Seq(MayCall(y))
    BY <1>1, <1>6, HeadTailProperties
  <2> QED
    BY <1>2, <1>4, <1>6, <2>1
<1> QED
  BY <1>5, <1>6 DEF SoundStack

\* A stack of waiting calls is sound, with any sound call on it.
LEMMA StackOfResting ==
  ASSUME NEW x, NEW t \in Seq(Resting(x)'),
         calls'[x] = t \/ \E k \in Sound(x)' : calls'[x] = <<k>> \o t
  PROVE  SoundStack(x)'
<1>1. CASE calls'[x] = t
  BY <1>1, HeadTailProperties DEF SoundStack, Resting
<1>2. ASSUME NEW k \in Sound(x)', calls'[x] = <<k>> \o t PROVE SoundStack(x)'
  <2>1. Head(<<k>> \o t) = k /\ Tail(<<k>> \o t) = t
    OBVIOUS
  <2> QED
    BY <1>2, <2>1 DEF SoundStack
<1> QED
  BY <1>1, <1>2

\* The innermost call of x returned and made the calls `more'.
LEMMA CallsKept ==
  ASSUME WellUsed, ThreadsInv, SoundCalls, NEW x \in Threads, Local(x), Growing,
         UNCHANGED <<phase, active_channels_, current>>, Ending' <=> Ending,
         \A c \in Conns : Past(c) => Past(c)', kept \subseteq kept' \/ CrossOps = {},
         calls[x] # <<>>, Head(calls[x]).fn # "handle_error", NEW more,
         more \in Seq(Resting(x)') \/ \E k \in Sound(x)' : more = <<k>>,
         calls' = [calls EXCEPT ![x] = more \o Tail(@)]
  PROVE  SoundCalls'
<1>1. /\ \A y \in Threads : y # x => Sound(y) \cap MayCall(y) \subseteq Sound(y)'
      /\ Resting(x) \cap MayCall(x) \subseteq Resting(x)'
  BY SoundMore
<1>2. \A y \in Threads : y # x => SoundStack(y)'
  <2>1. \A y \in Threads : y # x => calls'[y] = calls[y]
    BY DEF ThreadsInv, CallsTyped
  <2> QED
    BY <1>1, <2>1, StackKept DEF SoundCalls, ThreadsInv
<1>3. Tail(calls[x]) \in Seq(Resting(x)')
  <2>1. Tail(calls[x]) \in Seq(Resting(x))
    BY DEF SoundCalls, SoundStack
  <2>2. Tail(calls[x]) \in Seq(MayCall(x))
    BY CallUnderWay DEF ThreadsInv
  <2> QED
    BY <1>1, <2>1, <2>2, SeqBoth, SeqGrows
<1>4. calls'[x] = more \o Tail(calls[x])
  BY DEF ThreadsInv, CallsTyped
<1>5. SoundStack(x)'
  <2>1. CASE more \in Seq(Resting(x)')
    <3>1. more \o Tail(calls[x]) \in Seq(Resting(x)')
      BY <1>3, <2>1, ConcatProperties
    <3> QED
      BY <1>4, <3>1, StackOfResting
  <2>2. ASSUME NEW k \in Sound(x)', more = <<k>> PROVE SoundStack(x)'
    BY <1>3, <1>4, <2>2, StackOfResting
  <2> QED
    BY <2>1, <2>2
<1> QED
  BY <1>2, <1>5 DEF SoundCalls

\* handle_error returned, and handle_read may come next.
LEMMA CallsAfterError ==
  ASSUME WellUsed, ThreadsInv, SoundCalls, NEW x \in Threads,
         UNCHANGED <<conn, kept, phase, active_channels_, current, server>>,
         calls[x] # <<>>, calls' = [calls EXCEPT ![x] = Tail(@)]
  PROVE  SoundCalls'
<1>1. /\ Local(x) /\ Growing /\ (Ending' <=> Ending)
      /\ \A c \in Conns : Past(c) => Past(c)'
      /\ kept \subseteq kept' /\ UNCHANGED <<phase, active_channels_, current>>
  BY DEF Local, Growing, Created, Ending, Past
<1>2. \A y \in Threads : Sound(y) \cap MayCall(y) \subseteq Sound(y)'
  BY <1>1, SoundMore
<1>3. \A y \in Threads : y # x => SoundStack(y)'
  <2>1. \A y \in Threads : y # x => calls'[y] = calls[y]
    BY DEF ThreadsInv, CallsTyped
  <2> QED
    BY <1>2, <2>1, StackKept DEF SoundCalls, ThreadsInv
<1>4. Sound(x)' = Sound(x)
  BY DEF Sound, Past, MayRemove, Listening, Open, IsConnected, Own, Known, Created, Ending
<1>5. Resting(x)' = Resting(x)
  BY <1>4 DEF Resting
<1>6. calls'[x] = Tail(calls[x])
  BY DEF ThreadsInv, CallsTyped
<1>7. SoundStack(x)'
  <2>1. CASE Tail(calls[x]) \in Seq(Resting(x))
    BY <1>5, <1>6, <2>1, StackOfResting
  <2>2. CASE /\ Tail(calls[x]) # <<>> /\ Head(Tail(calls[x])) \in Sound(x)
             /\ Tail(Tail(calls[x])) \in Seq(Resting(x))
    BY <1>4, <1>5, <1>6, <2>2 DEF SoundStack
  <2> QED
    BY <2>1, <2>2 DEF SoundCalls, SoundStack
<1> QED
  BY <1>3, <1>7 DEF SoundCalls

\* A thread that had nothing to do starts something.
LEMMA OthersKept ==
  ASSUME ThreadsInv, SoundCalls, NEW x \in Threads, UNCHANGED <<conn, kept>>,
         \A y \in AllLoops : y # x => /\ phase'[y] = phase[y] /\ current'[y] = current[y]
                                     /\ active_channels_'[y] = active_channels_[y],
         x # Base => (Ending' <=> Ending), NEW s, calls' = [calls EXCEPT ![x] = s]
  PROVE  \A y \in Threads : y # x => SoundStack(y)'
<1> SUFFICES ASSUME NEW y \in Threads, y # x PROVE SoundStack(y)'
  OBVIOUS
<1>1. calls'[y] = calls[y]
  BY DEF ThreadsInv, CallsTyped
<1>2. \A c : y \in AllLoops => (MayRemove(y, c)' <=> MayRemove(y, c))
  BY DEF MayRemove
<1>3. y = Base => (Ending' <=> Ending)
  OBVIOUS
<1>4. Sound(y) \subseteq Sound(y)'
  BY <1>2, <1>3 DEF Sound, Past, Listening, Open, IsConnected, Own, Known, Created
<1> QED
  BY <1>1, <1>4, StackKept DEF SoundCalls, ThreadsInv

-----------------------------------------------------------------------------
(* The steps of a thread: what they have in common.                          *)

\* Of a step: thread x goes on with a call, the loops stay where they are, and what it
\* changes makes no other call unsound.
Steady(x) ==
  /\ calls[x] # <<>> /\ UNCHANGED <<loopVars, server>>
  /\ Local(x) /\ Growing
  /\ \A c \in Conns : Past(c) => Past(c)'
  /\ kept \subseteq kept'
  /\ SoundLists'

\* Of a step: only connection c changes, and keeps its loop.
Changes(c) ==
  /\ \A d \in Conns : d # c => conn'[d] = conn[d]
  /\ conn'[c].loop = conn[c].loop
  /\ Created(c) => Created(c)'
  /\ Past(c) => Past(c)'

\* Nothing that is still to be handled leaves the Poller.
LEMMA ListsKept ==
  ASSUME ThreadsInv, SoundLists, UNCHANGED loopVars, NEW x \in AllLoops,
         NEW c \in Own(x), Changes(c), MayRemove(x, c) \/ (Listening(c) => Listening(c)')
  PROVE  SoundLists'
<1> SUFFICES ASSUME NEW l \in AllLoops, NEW i \in 1..Len(active_channels_[l]),
                    active_channels_[l][i].c \in Conns, i > current[l]
             PROVE  Listening(active_channels_[l][i].c)'
  BY DEF SoundLists, SoundList, loopVars
<1> DEFINE e == active_channels_[l][i]
<1>1. Listening(e.c)
  BY DEF SoundLists, SoundList
<1>2. e.c \in Own(l)
  <2>1. e \in MayReport(l)
    BY ElementOfSeq DEF ThreadsInv, LoopsTyped
  <2> QED
    BY <2>1, AcceptorAssumption DEF MayReport
<1>3. CASE e.c # c
  BY <1>1, <1>3 DEF Changes, Listening, Open, loopVars
<1>4. CASE e.c = c /\ MayRemove(x, c)
  <2>1. l = x
    BY <1>2, <1>4 DEF Own
  <2>2. phase[l] = "events"
    <3>1. Len(active_channels_[l]) # 0
      OBVIOUS
    <3> QED
      BY <3>1, EmptySeq DEF ThreadsInv, LoopsTyped
  <2>3. current[l] > 0 /\ active_channels_[l][current[l]].c = c
    BY <1>4, <2>1, <2>2 DEF MayRemove
  <2>4. current[l] \in 1..Len(active_channels_[l]) /\ current[l] \in Nat
    BY <2>3, LenProperties DEF ThreadsInv, LoopsTyped
  <2>5. i = current[l]
    BY <1>4, <2>3, <2>4 DEF SoundLists, SoundList
  <2> QED
    BY <2>4, <2>5
<1>5. e.c = c /\ (Listening(c) => Listening(c)') => Listening(active_channels_[l][i].c)'
  BY <1>1 DEF Listening, Open, loopVars
<1> QED
  BY <1>3, <1>4, <1>5

\* A step that changes one connection of its own thread.
LEMMA SteadyChange ==
  ASSUME ThreadsInv, SoundLists, UNCHANGED <<loopVars, server>>, NEW x \in AllLoops,
         calls[x] # <<>>, Local(x), NEW c \in Own(x), Changes(c),
         MayRemove(x, c) \/ (Listening(c) => Listening(c)'), kept \subseteq kept'
  PROVE  Steady(x)
<1>1. SoundLists'
  BY ListsKept
<1> QED
  BY <1>1 DEF Steady, Changes, Growing, Created, Past

\* A step that changes no connection.
LEMMA SteadyQuiet ==
  ASSUME SoundLists, UNCHANGED <<loopVars, server, conn, kept>>, NEW x \in Threads,
         calls[x] # <<>>
  PROVE  Steady(x)
  BY DEF Steady, Local, Growing, Created, Past, SoundLists, SoundList, Listening, Open,
     loopVars

\* The end stays as it is.
LEMMA EndKept ==
  ASSUME SoundEnd, NEW x \in Threads, Steady(x),
         \A y \in Threads : y # x => calls'[y] = calls[y]
  PROVE  SoundEnd' /\ KeepsEnds /\ (Ending' <=> Ending)
<1>1. UNCHANGED <<phase, quit_flag_, server>>
  BY DEF Steady, loopVars
<1>2. \A l \in AllLoops : l \in Threads
  BY DEF Threads
<1>3. Ending' <=> Ending
  BY <1>1 DEF Ending
<1>4. \A l \in AllLoops : phase'[l] = "exited" => calls'[l] = <<>> \/ (l = Base /\ Ending')
  BY <1>1, <1>2, <1>3 DEF SoundEnd, Steady
<1> QED
  BY <1>1, <1>3, <1>4 DEF SoundEnd, KeepsEnds, Gone

\* The queues stay sound.
LEMMA QueueMore ==
  ASSUME kept \subseteq kept' \/ CrossOps = {}, NEW l,
         \A c \in Conns : Past(c) => Past(c)'
  PROVE  SoundQueued(l) \subseteq SoundQueued(l)'
  BY DEF SoundQueued

\* The queues stay sound when they do not change.
LEMMA QueuesSame ==
  ASSUME SoundQueues, UNCHANGED <<queue_functors_, functors>>,
         kept \subseteq kept' \/ CrossOps = {}, \A c \in Conns : Past(c) => Past(c)'
  PROVE  SoundQueues'
<1>1. \A l \in AllLoops : SoundQueued(l) \subseteq SoundQueued(l)'
  BY QueueMore
<1> QED
  BY <1>1, SeqGrows DEF SoundQueues

\* A call of x returns, and makes other calls.
LEMMA ReturnSound ==
  ASSUME WellUsed, ThreadsInv, SoundWork, NEW x \in Threads, Steady(x),
         Head(calls[x]).fn # "handle_error", NEW more, Return(x, more),
         more \in Seq(Resting(x)') \/ \E k \in Sound(x)' : more = <<k>>
  PROVE  SoundWork' /\ KeepsEnds
<1>1. \A y \in Threads : y # x => calls'[y] = calls[y]
  BY DEF Return, ThreadsInv, CallsTyped
<1>2. SoundEnd' /\ KeepsEnds /\ (Ending' <=> Ending)
  BY <1>1, EndKept DEF SoundWork
<1>3. SoundCalls'
  BY <1>2, CallsKept DEF SoundWork, Steady, Return, loopVars
<1>4. SoundQueues'
  BY QueuesSame DEF SoundWork, Steady, Return, loopVars
<1> QED
  BY <1>2, <1>3, <1>4 DEF SoundWork, Steady

\* A call of x returns after run_in_loop.
LEMMA RunSound ==
  ASSUME WellUsed, ThreadsInv, SoundWork, NEW x \in Threads, Steady(x),
         Head(calls[x]).fn # "handle_error", NEW m \in AllLoops, NEW f, RunInLoop(x, m, f),
         x = m => f \in Sound(x)', x # m => f \in SoundQueued(m)'
  PROVE  SoundWork' /\ KeepsEnds
<1>1. CASE x = m
  BY <1>1, ReturnSound DEF RunInLoop
<1>2. CASE x # m
  <2>1. \A y \in Threads : y # x => calls'[y] = calls[y]
    BY <1>2 DEF RunInLoop, ThreadsInv, CallsTyped
  <2>2. SoundEnd' /\ KeepsEnds /\ (Ending' <=> Ending)
    BY <2>1, EndKept DEF SoundWork
  <2>3. calls' = [calls EXCEPT ![x] = <<>> \o Tail(@)]
    <3>1. <<>> \o Tail(calls[x]) = Tail(calls[x])
      BY CallUnderWay, ConcatEmptySeq DEF ThreadsInv, Steady
    <3> QED
      BY <1>2, <3>1 DEF RunInLoop
  <2>4. SoundCalls'
    <3>1. <<>> \in Seq(Resting(x)')
      BY EmptySeq
    <3> QED
      BY <2>2, <2>3, <3>1, CallsKept DEF SoundWork, Steady, loopVars
  <2>5. SoundQueues'
    <3>1. \A l \in AllLoops : SoundQueued(l) \subseteq SoundQueued(l)'
      BY QueueMore DEF Steady
    <3>2. queue_functors_' = [queue_functors_ EXCEPT ![m] = Append(@, f)]
      BY <1>2 DEF RunInLoop
    <3>3. \A l \in AllLoops : /\ queue_functors_[l] \in Seq(SoundQueued(l)')
                              /\ functors'[l] \in Seq(SoundQueued(l)')
      BY <3>1, SeqGrows DEF SoundWork, SoundQueues, Steady, loopVars
    <3>4. Append(queue_functors_[m], f) \in Seq(SoundQueued(m)')
      BY <1>2, <3>3, AppendProperties
    <3> QED
      BY <3>2, <3>3, <3>4 DEF SoundQueues, ThreadsInv, QueuesTyped
  <2> QED
    BY <2>2, <2>4, <2>5 DEF SoundWork, Steady
<1> QED
  BY <1>1, <1>2

\* The functions whose calls make the life of a connection.
TokenFns == {"connect_established", "connect_destroyed", "remove", "remove_connection",
             "remove_connection_in_loop", "release"}

\* A call that is no mark of a life is no mark of any connection.
LEMMA PlainCall ==
  ASSUME NEW k, k.fn \notin TokenFns, NEW d
  PROVE  k \notin Tokens(d)
  BY DEF TokenFns, Tokens, Establish, Destroy, Unregister, Report, Erase, Drop, Call

\* A call on one connection is no mark of another.
LEMMA OtherCall ==
  ASSUME NEW k, NEW d, k.c # d
  PROVE  k \notin Tokens(d)
  BY DEF Tokens, Establish, Destroy, Unregister, Report, Erase, Drop, Call

\* Nor are calls that are none.
LEMMA PlainSequence ==
  ASSUME NEW s, \A i \in 1..Len(s) : s[i].fn \notin TokenFns, NEW d
  PROVE  ~Has(s, Tokens(d))
  BY PlainCall DEF Has

\* The connections outside the step's reach.
LEMMA ConnsSame ==
  ASSUME SoundConns, UNCHANGED <<conn, kept>>, KeepsEnds, \A d \in Known : Keeps(d)
  PROVE  SoundConns'
<1>1. Known' = Known /\ \A l : Own(l)' = Own(l)
  BY DEF Own, Known, Created
<1>2. \A l \in AllLoops : \A d \in Own(l)' : d \in Known => SoundLife(d, l)'
  BY LivesKept
<1>3. \A l \in AllLoops : \A d \in Own(l)' : SoundLife(d, l)'
  BY <1>1, <1>2 DEF Own
<1>4. \A d \in Conns : SoundChannel(d)'
  BY DEF SoundConns, SoundChannel, Past, Open, Down
<1>5. \A d \in kept' : Past(d)'
  BY DEF SoundConns, Past
<1> QED
  BY <1>3, <1>4, <1>5 DEF SoundConns

\* The connections stay sound when one changes soundly and the others keep their lives.
LEMMA ConnsKept ==
  ASSUME ThreadsInv, SoundConns, KeepsEnds, NEW c \in Known, Changes(c),
         \A d \in Known : d # c => Keeps(d), SoundChannel(c)',
         \A l \in AllLoops : l = conn[c].loop => SoundLife(c, l)',
         \A d \in kept' : d \in kept \/ (d = c /\ Past(c)')
  PROVE  SoundConns'
<1>1. \A d \in Conns : conn'[d].loop = conn[d].loop
  BY DEF Changes
<1>2. Known' = Known
  BY DEF Changes, Known, Created
<1>3. \A l \in AllLoops : \A d \in Own(l)' \ {c} : d \in Known => SoundLife(d, l)'
  <2>1. \A d \in Known \ {c} : Keeps(d)
    OBVIOUS
  <2> QED
    BY <1>1, <2>1, LivesKept
<1>4. ASSUME NEW l \in AllLoops, NEW d \in Own(l)' PROVE SoundLife(d, l)'
  <2>1. CASE d = c
    <3>1. l = conn[c].loop
      BY <1>1, <1>4, <2>1 DEF Own, Known
    <3> QED
      BY <2>1, <3>1
  <2>2. CASE d # c
    BY <1>2, <1>3, <1>4, <2>2 DEF Own
  <2> QED
    BY <2>1, <2>2
<1>5. \A d \in Conns : SoundChannel(d)'
  BY DEF SoundConns, SoundChannel, Past, Open, Down, Changes
<1>6. \A d \in kept' : Past(d)'
  BY DEF SoundConns, Changes, Past, ThreadsInv, ConnsTyped, Known
<1> QED
  BY <1>4, <1>5, <1>6 DEF SoundConns

\* Nothing happens to the life of connections that the call and those it makes are
\* nothing to.
LEMMA KeepsByReturn ==
  ASSUME ThreadsInv, NEW x \in Threads, Steady(x), NEW more \in Seq(AnyCall),
         Return(x, more), NEW d \in Known, Head(calls[x]) \notin Tokens(d),
         ~Has(more, Tokens(d)), conn'[d] = conn[d],
         d \in connections_' <=> d \in connections_
  PROVE  Keeps(d)
<1>1. \A l \in AllLoops : Alike(d, l)
  BY ReturnAlike DEF Steady, Return
<1> QED
  BY <1>1 DEF Keeps

\* A connection keeps its life when a call that is no mark of it is run in a loop.
LEMMA KeepsByRun ==
  ASSUME ThreadsInv, NEW x \in Threads, Steady(x), NEW m \in AllLoops, NEW f \in AnyCall,
         RunInLoop(x, m, f), NEW d \in Known, Head(calls[x]) \notin Tokens(d),
         f \notin Tokens(d), conn'[d] = conn[d], d \in connections_' <=> d \in connections_
  PROVE  Keeps(d)
<1>1. \A l \in AllLoops : Alike(d, l)
  BY RunAlike DEF Steady
<1> QED
  BY <1>1 DEF Keeps

\* What a thread may call does not change with a step that changes no connection.
LEMMA SoundSame ==
  ASSUME UNCHANGED <<conn, kept, loopVars, server>>, NEW x
  PROVE  Sound(x)' = Sound(x) /\ Resting(x)' = Resting(x)
<1>1. Sound(x)' = Sound(x)
  BY DEF Sound, Past, MayRemove, Listening, Open, IsConnected, Own, Known, Created, Ending,
     loopVars
<1> QED
  BY <1>1 DEF Resting

\* A call returns, and no connection changes.
LEMMA QuietReturn ==
  ASSUME WellUsed, ThreadsInv, SoundInv, NEW x \in Threads, calls[x] # <<>>,
         Head(calls[x]).fn \notin TokenFns, Head(calls[x]).fn # "handle_error",
         UNCHANGED <<conn, kept, connections_, loopVars, server>>, NEW more,
         more \in Seq(Resting(x)) \/ \E k \in Sound(x) : more = <<k>>,
         \A i \in 1..Len(more) : more[i].fn \notin TokenFns, Return(x, more)
  PROVE  SoundInv'
<1>1. Steady(x)
  BY SteadyQuiet DEF SoundInv, SoundWork
<1>2. SoundWork' /\ KeepsEnds
  BY <1>1, SoundSame, ReturnSound DEF SoundInv
<1>3. more \in Seq(AnyCall)
  <2>1. Sound(x) \subseteq AnyCall /\ Resting(x) \subseteq AnyCall
    BY DEF Sound, Resting
  <2>2. \A k \in Sound(x) : <<k>> \in Seq(AnyCall)
    BY <2>1
  <2> QED
    BY <2>1, <2>2, SeqGrows
<1>4. \A d \in Known : Keeps(d)
  BY <1>1, <1>3, KeepsByReturn, PlainCall, PlainSequence
<1> QED
  BY <1>2, <1>4, ConnsSame DEF SoundInv

\* A call returns after run_in_loop, and no connection changes.
LEMMA QuietRun ==
  ASSUME WellUsed, ThreadsInv, SoundInv, NEW x \in Threads, calls[x] # <<>>,
         Head(calls[x]).fn \notin TokenFns, Head(calls[x]).fn # "handle_error",
         UNCHANGED <<conn, kept, connections_, loopVars, server>>,
         NEW m \in AllLoops, NEW f \in AnyCall, f.fn \notin TokenFns, RunInLoop(x, m, f),
         x = m => f \in Sound(x), x # m => f \in SoundQueued(m)
  PROVE  SoundInv'
<1>1. Steady(x)
  BY SteadyQuiet DEF SoundInv, SoundWork
<1>2. SoundQueued(m)' = SoundQueued(m)
  BY DEF SoundQueued, Past
<1>3. SoundWork' /\ KeepsEnds
  BY <1>1, <1>2, SoundSame, RunSound DEF SoundInv
<1>4. \A d \in Known : Keeps(d)
  BY <1>1, KeepsByRun, PlainCall
<1> QED
  BY <1>3, <1>4, ConnsSame DEF SoundInv

-----------------------------------------------------------------------------
(* The steps of a thread that change no connection.                          *)

ServerSound == ThreadsInv /\ SettledInv /\ SoundInv /\ NoticeInv

\* What a well used server never does: close a connection from another thread.
LEMMA WellClosed == WellUsed => ClosesOnOwnThread
  BY DEF WellUsed, ClosesOnOwnThread, CrossOps

\* What makes a call one that thread x may be about to make.
LEMMA SoundCall ==
  ASSUME NEW x, NEW fn, NEW c
  PROVE  Call(fn, c) \in Sound(x) <=>
           /\ Call(fn, c) \in AnyCall
           /\ Used(fn)
           /\ fn \notin EarlyCalls => Past(c)
           /\ fn \notin SendCalls /\ x \in AllLoops => MayRemove(x, c)
           /\ fn \in OpenCalls => Listening(c)
           /\ fn \in StartCalls => IsConnected(c)
           /\ fn \in Later(Ops) /\ c \notin Own(x) => c \in kept
           /\ x = Base /\ Ending => fn \in EndCalls
<1>1. Call(fn, c).fn = fn /\ Call(fn, c).c = c
  BY DEF Call
<1> QED
  BY <1>1 DEF Sound

\* The call under way is sound.
LEMMA UnderWay ==
  ASSUME WellUsed, ServerSound, NEW x \in Threads, NEW fn, NEW c, Executing(x, fn, c)
  PROVE  /\ calls[x] # <<>> /\ Head(calls[x]) = Call(fn, c)
         /\ Head(calls[x]).fn = fn /\ Head(calls[x]).c = c
         /\ Call(fn, c) \in Sound(x) /\ Call(fn, c) \in MayCall(x) /\ Call(fn, c) \in Inner
<1>1. calls[x] # <<>> /\ Head(calls[x]) = Call(fn, c)
  BY DEF Executing
<1>2. Head(calls[x]) \in Sound(x)
  BY <1>1 DEF ServerSound, SoundInv, SoundWork, SoundCalls, SoundStack
<1>3. Head(calls[x]) \in MayCall(x)
  BY <1>1, CallUnderWay DEF ServerSound, ThreadsInv
<1>4. Head(calls[x]) \in Inner
  BY <1>1 DEF ServerSound, SettledInv, StacksSettled
<1> QED
  BY <1>1, <1>2, <1>3, <1>4 DEF Call

\* The user's callback is a sequence of calls of "user".
LEMMA Callback ==
  ASSUME NEW S, NEW c, Call("user", c) \in S
  PROVE  /\ UserCallback(c) \in Seq(S)
         /\ \A k \in S : Append(UserCallback(c), k) \in Seq(S)
<1>1. UserCallback(c) \in Seq(S)
  BY ConfigAssumption, IsASeq DEF UserCallback
<1> QED
  BY <1>1, AppendProperties

\* It mentions no token.
LEMMA CallbackPlain ==
  ASSUME NEW c
  PROVE  /\ \A i \in 1..Len(UserCallback(c)) : UserCallback(c)[i].fn \notin TokenFns
         /\ \A d : ~Has(UserCallback(c), Tokens(d))
<1>1. \A i \in 1..Len(UserCallback(c)) : UserCallback(c)[i].fn \notin TokenFns
  BY ConfigAssumption DEF UserCallback, Call, TokenFns
<1> QED
  BY <1>1, PlainSequence

\* What follows is sound where a call on the connection's own thread was.
LEMMA UserSound ==
  ASSUME NEW x, NEW fn, NEW c, Call(fn, c) \in Sound(x), c \in Conns,
         fn \notin EarlyCalls \cup SendCalls
  PROVE  Call("user", c) \in Resting(x)
<1>1. /\ Call("user", c) \in AnyCall /\ Used("user") /\ "user" \notin Later(Ops)
      /\ "user" \in EndCalls /\ "user" \notin EarlyCalls \cup SendCalls
      /\ "user" \in WaitCalls /\ Call("user", c).fn = "user"
  BY DEF AnyCall, OwnCalls, Call, Used, SendCalls, StopCalls, StartCalls, ForceCalls,
     ShutCalls, Later, Ops, AfterTest, EndCalls, EarlyCalls, WaitCalls
<1>2. Call("user", c) \in Sound(x)
  BY <1>1, SoundCall DEF StartCalls, OpenCalls
<1> QED
  BY <1>1, <1>2 DEF Resting

\* What follows handle_write mentions no token either.
LEMMA WrittenPlain ==
  ASSUME NEW c
  PROVE  \A i \in 1..Len(Written(c)) : Written(c)[i].fn \notin TokenFns
<1> DEFINE S == {Call("user", c), Call("handle_written", c)}
           w == Written(c)
<1>1. w \in Seq(S)
  BY Callback DEF Written
<1>2. \A k \in S : k.fn \notin TokenFns
  BY DEF Call, TokenFns
<1> HIDE DEF S, w
<1>3. \A i \in 1..Len(w) : w[i] \in S
  BY <1>1, ElementOfSeq
<1> QED
  BY <1>2, <1>3 DEF w

\* QuietReturn of a call that makes none, or one.
LEMMA QuietLast ==
  ASSUME WellUsed, ServerSound, NEW x \in Threads, calls[x] # <<>>,
         Head(calls[x]).fn \notin TokenFns, Head(calls[x]).fn # "handle_error",
         UNCHANGED <<conn, kept, connections_, loopVars, server>>,
         \/ Return(x, <<>>)
         \/ \E k \in Sound(x) : k.fn \notin TokenFns /\ Return(x, <<k>>)
  PROVE  SoundInv'
<1>1. CASE Return(x, <<>>)
  <2> DEFINE more == <<>>
  <2>1. /\ more \in Seq(Resting(x)) /\ Return(x, more)
        /\ \A i \in 1..Len(more) : more[i].fn \notin TokenFns
    BY <1>1
  <2> HIDE DEF more
  <2> QED
    BY <2>1, QuietReturn DEF ServerSound
<1>2. ASSUME NEW k \in Sound(x), k.fn \notin TokenFns, Return(x, <<k>>)
      PROVE  SoundInv'
  <2> DEFINE more == <<k>>
  <2>1. /\ \E h \in Sound(x) : more = <<h>>
        /\ Return(x, more) /\ \A i \in 1..Len(more) : more[i].fn \notin TokenFns
    BY <1>2
  <2> HIDE DEF more
  <2> QED
    BY <2>1, QuietReturn DEF ServerSound
<1> QED
  BY <1>1, <1>2

\* handle_read goes on soundly: a message, an error, or the end of the stream.
LEMMA ReadSound ==
  ASSUME WellUsed, ServerSound, NEW x \in Threads, NEW c \in Conns, HandleRead(x, c),
         UNCHANGED serverVars
  PROVE  SoundInv'
<1>1. /\ calls[x] # <<>> /\ Head(calls[x]).fn = "handle_read"
      /\ Call("handle_read", c) \in Sound(x)
  BY UnderWay DEF HandleRead
<1>2. "handle_read" \notin TokenFns /\ "handle_read" \notin EarlyCalls \cup SendCalls
  BY DEF TokenFns, EarlyCalls, SendCalls
<1>3. Call("handle_close", c) \in Sound(x)
  <2>1. /\ Call("handle_close", c) \in AnyCall /\ Used("handle_close")
        /\ "handle_close" \notin Later(Ops) \cup StartCalls
        /\ "handle_read" \notin EndCalls
    BY DEF AnyCall, OwnCalls, Call, Used, SendCalls, StopCalls, StartCalls, ForceCalls,
       ShutCalls, Later, Ops, AfterTest, EndCalls
  <2> QED
    BY <1>1, <1>2, <2>1, SoundCall DEF OpenCalls
<1>4. UserCallback(c) \in Seq(Resting(x))
  BY <1>1, <1>2, UserSound, Callback
<1>5. Call("handle_close", c).fn \notin TokenFns
  BY DEF Call, TokenFns
<1>7. UNCHANGED <<conn, kept, connections_, loopVars, server>>
  BY DEF HandleRead, serverVars
<1>8. CASE Return(x, UserCallback(c))
  <2> DEFINE u == UserCallback(c)
  <2>1. u \in Seq(Resting(x)) /\ \A i \in 1..Len(u) : u[i].fn \notin TokenFns
    BY <1>4, CallbackPlain
  <2>2. Return(x, u)
    BY <1>8
  <2> HIDE DEF u
  <2> QED
    BY <1>1, <1>2, <1>7, <2>1, <2>2, QuietReturn DEF ServerSound
<1>9. CASE Return(x, <<>>) \/ Return(x, <<Call("handle_close", c)>>)
  BY <1>1, <1>2, <1>3, <1>5, <1>7, <1>9, QuietLast
<1> QED
  BY <1>8, <1>9 DEF HandleRead

\* handle_error goes on soundly.
LEMMA ErrorSound ==
  ASSUME WellUsed, ServerSound, NEW x \in Threads, NEW c \in Conns, HandleError(x, c),
         UNCHANGED serverVars
  PROVE  SoundInv'
<1>1. /\ calls[x] # <<>> /\ Head(calls[x]).fn = "handle_error"
      /\ Head(calls[x]).fn \notin TokenFns
  BY UnderWay DEF HandleError, TokenFns
<1>2. /\ UNCHANGED <<conn, kept, connections_, loopVars, server>> /\ Return(x, <<>>)
      /\ UNCHANGED <<phase, active_channels_, current, functors, queue_functors_>>
  BY DEF HandleError, serverVars, loopVars, Return
<1>3. Steady(x)
  BY <1>1, <1>2, SteadyQuiet DEF ServerSound, SoundInv, SoundWork
<1>4. calls' = [calls EXCEPT ![x] = Tail(@)]
  <2>1. <<>> \o Tail(calls[x]) = Tail(calls[x])
    <3>1. Tail(calls[x]) \in Seq(MayCall(x))
      BY <1>1, CallUnderWay DEF ServerSound, ThreadsInv
    <3> QED
      BY <3>1, ConcatEmptySeq
  <2> QED
    BY <1>2, <2>1 DEF Return
<1>5. SoundCalls'
  BY <1>1, <1>2, <1>4, CallsAfterError DEF ServerSound, SoundInv, SoundWork
<1>6. SoundEnd' /\ KeepsEnds
  <2>1. \A y \in Threads : y # x => calls'[y] = calls[y]
    BY <1>4 DEF ServerSound, ThreadsInv, CallsTyped
  <2> QED
    BY <1>3, <2>1, EndKept DEF ServerSound, SoundInv, SoundWork
<1>7. SoundQueues' /\ SoundLists'
  BY <1>2, <1>3, QueuesSame DEF ServerSound, SoundInv, SoundWork, Steady
<1>8. \A d \in Known : Keeps(d)
  <2> DEFINE more == <<>>
  <2>1. more \in Seq(AnyCall) /\ Return(x, more) /\ \A d : ~Has(more, Tokens(d))
    BY <1>2 DEF Has
  <2> HIDE DEF more
  <2> QED
    BY <1>1, <1>2, <1>3, <2>1, KeepsByReturn, PlainCall DEF ServerSound
<1> QED
  BY <1>2, <1>5, <1>6, <1>7, <1>8, ConnsSame DEF ServerSound, SoundInv, SoundWork

\* A connection that a well used server is to close from its own thread is in the
\* Poller.
LEMMA ForcedListens ==
  ASSUME WellUsed, SoundConns, NEW c \in Conns, Open(c), Used("force_close")
  PROVE  Listening(c)
<1>1. "stop_read" \notin UserOps
  BY DEF WellUsed, Used, ForceCalls
<1> QED
  BY <1>1 DEF SoundConns, SoundChannel, Listening

\* So do the functors that shut down or close, and a callback that returns.
LEMMA LoopCallsSound ==
  ASSUME WellUsed, ServerSound, NEW x \in Threads, NEW c \in Conns,
         ShutdownInLoop(x, c) \/ ForceCloseInLoop(x, c) \/ UserReturns(x, c),
         UNCHANGED serverVars
  PROVE  SoundInv'
<1>1. UNCHANGED <<conn, kept, connections_, loopVars, server>>
  BY DEF ShutdownInLoop, ForceCloseInLoop, UserReturns, serverVars
<1>2. /\ calls[x] # <<>> /\ Head(calls[x]).fn \notin TokenFns
      /\ Head(calls[x]).fn # "handle_error"
  <2>1. PICK fn \in {"shutdown_in_loop", "force_close_in_loop", "user"} :
          Executing(x, fn, c)
    BY DEF ShutdownInLoop, ForceCloseInLoop, UserReturns
  <2>2. fn \notin TokenFns /\ fn # "handle_error"
    BY DEF TokenFns
  <2> QED
    BY <2>1, <2>2, UnderWay
<1>3. CASE ShutdownInLoop(x, c) \/ UserReturns(x, c)
  BY <1>1, <1>2, <1>3, QuietLast DEF ShutdownInLoop, UserReturns
<1>4. CASE ForceCloseInLoop(x, c)
  <2>1. Call("force_close_in_loop", c) \in Sound(x)
    BY <1>4, UnderWay DEF ForceCloseInLoop
  <2>2. /\ "force_close_in_loop" \notin EarlyCalls \cup SendCalls \cup EndCalls
        /\ Used("force_close_in_loop") => Used("force_close")
    BY DEF EarlyCalls, SendCalls, EndCalls, Used, StopCalls, StartCalls, ForceCalls,
       ShutCalls
  <2>3. /\ Call("handle_close", c) \in AnyCall /\ Used("handle_close")
        /\ "handle_close" \notin Later(Ops) \cup StartCalls
        /\ Call("handle_close", c).fn \notin TokenFns
    BY DEF AnyCall, OwnCalls, Call, Used, SendCalls, StopCalls, StartCalls, ForceCalls,
       ShutCalls, Later, Ops, AfterTest, TokenFns
  <2>4. Open(c) => Call("handle_close", c) \in Sound(x)
    BY <2>1, <2>2, <2>3, SoundCall, ForcedListens DEF ServerSound, SoundInv
  <2>5. CASE Open(c)
    <3>1. Return(x, <<Call("handle_close", c)>>)
      BY <1>4, <2>5 DEF ForceCloseInLoop
    <3> QED
      BY <1>1, <1>2, <2>3, <2>4, <2>5, <3>1, QuietLast
  <2>6. CASE ~Open(c)
    <3>1. Return(x, <<>>)
      BY <1>4, <2>6 DEF ForceCloseInLoop
    <3> QED
      BY <1>1, <1>2, <3>1, QuietLast
  <2> QED
    BY <2>5, <2>6
<1> QED
  BY <1>3, <1>4

\* send(), shutdown() and force_close() go on to what the test let pass.
LEMMA TestSound ==
  ASSUME WellUsed, ServerSound, NEW x \in Threads, NEW c \in Conns, TestState(x, c),
         UNCHANGED serverVars
  PROVE  SoundInv'
<1>1. PICK op \in DOMAIN AfterTest :
        /\ Executing(x, op, c)
        /\ Return(x, IF Passes(op, c) THEN <<Call(AfterTest[op], c)>> ELSE <<>>)
        /\ UNCHANGED <<conn, socket, connections_, kept, loopVars, log, aborted>>
  BY DEF TestState
<1>2. UNCHANGED <<conn, kept, connections_, loopVars, server>>
  BY <1>1 DEF serverVars
<1>3. op \in {"send", "shutdown", "force_close"}
  BY DEF AfterTest
<1>4. /\ calls[x] # <<>> /\ Head(calls[x]).fn \notin TokenFns
      /\ Head(calls[x]).fn # "handle_error" /\ Call(op, c) \in Sound(x)
  BY <1>1, <1>3, UnderWay DEF TokenFns
<1>5. /\ op \in Later(Ops) /\ AfterTest[op] \in Later(Ops)
      /\ Used(op) => Used(AfterTest[op])
      /\ op \notin EarlyCalls /\ (op \in SendCalls <=> AfterTest[op] \in SendCalls)
      /\ AfterTest[op] \notin OpenCalls \cup StartCalls
      /\ op \in EndCalls => AfterTest[op] \in EndCalls
      /\ AfterTest[op] \notin TokenFns
  BY <1>3 DEF Later, Ops, AfterTest, Used, SendCalls, StopCalls, StartCalls, ForceCalls,
     ShutCalls, EarlyCalls, EndCalls, TokenFns, OpenCalls
<1>6. Call(AfterTest[op], c) \in AnyCall /\ Call(AfterTest[op], c).fn = AfterTest[op]
  BY <1>5 DEF AnyCall, Call
<1>7. Call(AfterTest[op], c) \in Sound(x)
  BY <1>4, <1>5, <1>6, SoundCall
<1>8. CASE Passes(op, c)
  <2>1. Return(x, <<Call(AfterTest[op], c)>>)
    BY <1>1, <1>8
  <2> QED
    BY <1>2, <1>4, <1>5, <1>6, <1>7, <2>1, QuietLast
<1>9. CASE ~Passes(op, c)
  <2>1. Return(x, <<>>)
    BY <1>1, <1>9
  <2> QED
    BY <1>2, <1>4, <2>1, QuietLast
<1> QED
  BY <1>8, <1>9

\* A callback calls what a well used server lets it call.
LEMMA UserCallsSound ==
  ASSUME WellUsed, ServerSound, NEW x \in Threads, NEW c \in Conns, NEW d \in Conns,
         NEW op \in Ops, UserCalls(x, c, d, op), UNCHANGED serverVars
  PROVE  SoundInv'
<1>1. UNCHANGED <<conn, kept, connections_, loopVars, server>>
  BY DEF UserCalls, serverVars
<1>2. /\ calls[x] # <<>> /\ Head(calls[x]).fn \notin TokenFns
      /\ Head(calls[x]).fn # "handle_error" /\ Call("user", c) \in Sound(x)
      /\ Executing(x, "user", c) /\ Return(x, <<Call(op, d)>>)
  BY UnderWay DEF UserCalls, TokenFns
<1>3. c \in Own(x) /\ x \in AllLoops
  <2>1. "user" \in OwnCalls
    BY DEF OwnCalls
  <2>2. c \in Own(x)
    BY <1>2, <2>1, OnOwnThread DEF ServerSound, ThreadsInv
  <2> QED
    BY <2>2, OwnerIsLoop DEF ServerSound, ThreadsInv
<1>4. Past(c) /\ MayRemove(x, c) /\ "user" \notin SendCalls
  <2>1. "user" \notin EarlyCalls /\ "user" \notin SendCalls
    BY DEF EarlyCalls, SendCalls
  <2> QED
    BY <1>2, <1>3, <2>1, SoundCall
<1>5. op \in EndCalls \/ op \in Closing
  BY DEF EndCalls, SendCalls, StopCalls, StartCalls, Closing, Ops
<1>6. /\ op \in Later(Ops) /\ op \notin EarlyCalls
      /\ op \notin OpenCalls \cup TokenFns
      /\ op \in StartCalls => op = "start_read"
      /\ op \in SendCalls <=> op = "send"
      /\ Call(op, d) \in AnyCall /\ Call(op, d).fn = op
  BY DEF Later, Ops, EarlyCalls, TokenFns, StartCalls, SendCalls, AnyCall, Call, OpenCalls
<1>7. Call(op, d) \in Sound(x)
  <2>1. CASE d = c /\ op \in OwnOps
    <3>1. Used(op)
      BY <2>1 DEF Used, SendCalls, StopCalls, StartCalls, ForceCalls, ShutCalls, UserOps, Ops
    <3>2. op \in StartCalls => IsConnected(c)
      BY <1>6, <2>1 DEF WellUsed, UserCalls
    <3>3. x = Base /\ Ending => op \in EndCalls
      BY <1>5, <2>1 DEF WellUsed, ServerSound, SoundInv, SoundWork, SoundEnd
    <3> QED
      BY <1>3, <1>4, <1>6, <2>1, <3>1, <3>2, <3>3, SoundCall
  <2>2. CASE d # c /\ d \in kept /\ op \in PeerOps
    <3>1. op = "send" /\ op \in UserOps
      BY <2>2 DEF WellUsed, UserOps
    <3>2. Used(op) /\ op \in EndCalls /\ op \notin StartCalls
      BY <3>1 DEF Used, SendCalls, StopCalls, StartCalls, ForceCalls, ShutCalls, EndCalls
    <3>3. Past(d)
      BY <2>2 DEF ServerSound, SoundInv, SoundConns
    <3> QED
      BY <1>6, <2>2, <3>1, <3>2, <3>3, SoundCall
  <2> QED
    BY <2>1, <2>2 DEF UserCalls
<1> QED
  BY <1>1, <1>2, <1>6, <1>7, QuietLast

\* SoundCall after the step.
LEMMA SoundCallNext ==
  ASSUME NEW x, NEW fn, NEW c
  PROVE  Call(fn, c) \in Sound(x)' <=>
           /\ Call(fn, c) \in AnyCall
           /\ Used(fn)
           /\ fn \notin EarlyCalls => Past(c)'
           /\ fn \notin SendCalls /\ x \in AllLoops => MayRemove(x, c)'
           /\ fn \in OpenCalls => Listening(c)'
           /\ fn \in StartCalls => IsConnected(c)'
           /\ fn \in Later(Ops) /\ c \notin Own(x)' => c \in kept'
           /\ x = Base /\ Ending' => fn \in EndCalls
<1>1. Call(fn, c).fn = fn /\ Call(fn, c).c = c
  BY DEF Call
<1> QED
  BY <1>1 DEF Sound

\* What run_in_loop may hand to a connection's thread.
LEMMA PostSound ==
  ASSUME WellUsed, ServerSound, NEW x \in Threads, NEW c \in Conns, Post(x, c),
         UNCHANGED conn, UNCHANGED serverVars
  PROVE  SoundInv' \/ \E p \in Posting : Executing(x, p, c)
<1>1. PICK p \in DOMAIN PostedBy :
        /\ Executing(x, p, c)
        /\ RunInLoop(x, conn[c].loop, Call(PostedBy[p], c))
        /\ UNCHANGED <<socket, connections_, kept, loopVars, log, aborted>>
  BY DEF Post
<1> SUFFICES ASSUME p \notin Posting
             PROVE  SoundInv'
  BY <1>1
<1>2. p \in {"post_send", "start_read", "stop_read"}
  BY DEF PostedBy, Posting
<1>3. /\ calls[x] # <<>> /\ Head(calls[x]).fn \notin TokenFns
      /\ Head(calls[x]).fn # "handle_error" /\ Call(p, c) \in Sound(x)
      /\ Call(p, c) \in MayCall(x)
  BY <1>1, <1>2, UnderWay DEF TokenFns
<1> DEFINE f == Call(PostedBy[p], c)
           m == conn[c].loop
<1>4. /\ p \in Later(Ops) /\ p \notin EarlyCalls
      /\ Used(p) => Used(PostedBy[p])
      /\ PostedBy[p] \notin EarlyCalls \cup TokenFns \cup OpenCalls
      /\ p \in SendCalls <=> PostedBy[p] \in SendCalls
      /\ PostedBy[p] \in StartCalls => p \in StartCalls
      /\ p \in EndCalls => PostedBy[p] \in EndCalls
      /\ PostedBy[p] \notin Later(Ops)
      /\ f \in AnyCall /\ f.fn = PostedBy[p] /\ f.c = c
  BY <1>2 DEF Later, Ops, AfterTest, PostedBy, Used, SendCalls, StopCalls, StartCalls,
     ForceCalls, ShutCalls, EarlyCalls, EndCalls, TokenFns, AnyCall, OwnCalls,
     ConnFunctors, Raw, Call, OpenCalls
<1>5. m \in AllLoops /\ c \in Known
  <2>1. c \in Known
    BY <1>2, <1>3, AcceptorAssumption DEF MayCall, Own, Call
  <2> QED
    BY <2>1 DEF ServerSound, ThreadsInv, ConnsTyped
<1>6. f \in Sound(x)
  BY <1>3, <1>4, SoundCall
<1>7. x # m => f \in SoundQueued(m)
  <2> SUFFICES ASSUME x # m
               PROVE  f \in SoundQueued(m)
    OBVIOUS
  <2>1. c \notin Own(x)
    BY DEF Own
  <2>2. p \in Later(CrossOps)
    BY <1>2, <1>3, <2>1 DEF MayCall, BaseCalls, Call
  <2>3. CrossOps # {} /\ p \in {"post_send", "stop_read"}
    BY <1>2, <2>2 DEF Later, WellUsed, CrossOps, AfterTest
  <2>4. c \in kept /\ Used(p)
    BY <1>3, <1>4, <2>1, SoundCall
  <2>5. PostedBy[p] \in {"send_in_loop", "stop_read_in_loop"}
    BY <2>3 DEF PostedBy
  <2> QED
    BY <1>4, <2>3, <2>4, <2>5 DEF SoundQueued
<1>8. UNCHANGED <<conn, kept, connections_, loopVars, server>> /\ RunInLoop(x, m, f)
  BY <1>1 DEF serverVars
<1> HIDE DEF f, m
<1> QED
  BY <1>3, <1>4, <1>5, <1>6, <1>7, <1>8, QuietRun DEF ServerSound

-----------------------------------------------------------------------------
(* The steps of a thread that change its connection.                         *)

\* A call on connection c changes c, but what is ahead of it stays.
LEMMA KeptChange ==
  ASSUME WellUsed, ServerSound, NEW x \in Threads, Local(x), calls[x] # <<>>,
         Head(calls[x]).fn \notin TokenFns, Head(calls[x]).fn # "handle_error",
         UNCHANGED <<connections_, kept, loopVars, server>>,
         NEW c \in Own(x), NEW r, conn' = [conn EXCEPT ![c] = r],
         r \in [state : States \ {"none"}, loop : {conn[c].loop}, channel : Channels,
                output : BOOLEAN],
         \/ r.state = conn[c].state
         \/ Open(c) /\ r.state = "DISCONNECTING" /\ c \in connections_,
         Down(c) => r.channel = conn[c].channel,
         MayRemove(x, c) \/ (Listening(c) => Listening(c)'),
         SoundChannel(c)',
         \/ Return(x, <<>>)
         \/ \E k \in Sound(x)' : k.fn \notin TokenFns /\ Return(x, <<k>>)
         \/ \E s \in Seq(Resting(x)') : /\ \A i \in 1..Len(s) : s[i].fn \notin TokenFns
                                       /\ Return(x, s)
  PROVE  SoundInv'
<1>1. x \in AllLoops /\ c \in Known /\ c \in Conns
  BY OwnerIsLoop DEF ServerSound, ThreadsInv
<1>2. Growing /\ Known' = Known
  BY <1>1, ConnChanged DEF ServerSound, ThreadsInv, ConnsTyped
<1>3. /\ conn'[c] = r /\ \A d \in Conns : d # c => conn'[d] = conn[d]
      /\ r.loop = conn[c].loop /\ r.state # "none"
  BY <1>1 DEF ServerSound, ThreadsInv, ConnsTyped
<1>4. Changes(c)
  BY <1>3 DEF Changes, Created, Past, Open
<1>5. Steady(x)
  BY <1>1, <1>4, SteadyChange DEF ServerSound, SoundInv, SoundWork
<1>6. PICK more :
        /\ Return(x, more)
        /\ more \in Seq(Resting(x)') \/ \E k \in Sound(x)' : more = <<k>>
        /\ \A i \in 1..Len(more) : more[i].fn \notin TokenFns
  <2>1. CASE Return(x, <<>>)
    <3>1. <<>> \in Seq(Resting(x)') /\ \A i \in 1..Len(<<>>) : <<>>[i].fn \notin TokenFns
      OBVIOUS
    <3> QED
      BY <2>1, <3>1
  <2>2. ASSUME NEW k \in Sound(x)', k.fn \notin TokenFns, Return(x, <<k>>)
        PROVE  \E more : /\ Return(x, more)
                         /\ more \in Seq(Resting(x)') \/ \E h \in Sound(x)' : more = <<h>>
                         /\ \A i \in 1..Len(more) : more[i].fn \notin TokenFns
    <3>1. \A i \in 1..Len(<<k>>) : <<k>>[i].fn \notin TokenFns
      BY <2>2
    <3> QED
      BY <2>2, <3>1
  <2>3. CASE \E s \in Seq(Resting(x)') : /\ \A i \in 1..Len(s) : s[i].fn \notin TokenFns
                                         /\ Return(x, s)
    BY <2>3
  <2> QED
    BY <2>1, <2>2, <2>3
<1>7. SoundWork' /\ KeepsEnds
  BY <1>5, <1>6, ReturnSound DEF ServerSound, SoundInv
<1>8. more \in Seq(AnyCall)
  <2>1. Sound(x)' \subseteq AnyCall /\ Resting(x)' \subseteq AnyCall
    BY DEF Sound, Resting
  <2>2. \A k \in Sound(x)' : <<k>> \in Seq(AnyCall)
    BY <2>1
  <2> QED
    BY <1>6, <2>1, <2>2, SeqGrows
<1>9. /\ \A d : ~Has(more, Tokens(d)) /\ Head(calls[x]) \notin Tokens(d)
      /\ \A d \in Known : d # c => conn'[d] = conn[d]
  BY <1>3, <1>6, PlainCall, PlainSequence DEF Known
<1>10. \A d \in Known : d # c => Keeps(d)
  BY <1>5, <1>6, <1>8, <1>9, KeepsByReturn DEF ServerSound
<1>11. Keeps(c)
  <2>1. \A l \in AllLoops : Alike(c, l)
    BY <1>5, <1>6, <1>8, <1>9, ReturnAlike DEF ServerSound, Steady, Return
  <2> QED
    BY <1>3, <2>1 DEF Keeps
<1>12. ASSUME NEW l \in AllLoops, l = conn[c].loop
       PROVE  SoundLife(c, l)'
  <2>1. SoundLife(c, l)
    BY <1>1, <1>12 DEF ServerSound, SoundInv, SoundConns, Own
  <2> QED
    BY <1>7, <1>11, <2>1, LifeKept
<1>13. SoundConns'
  BY <1>1, <1>4, <1>7, <1>10, <1>12, ConnsKept DEF ServerSound, SoundInv
<1> QED
  BY <1>7, <1>13 DEF SoundInv

\* The functions that its loop calls on a connection.
LEMMA OwnUnderWay ==
  ASSUME WellUsed, ServerSound, NEW x \in Threads, NEW c \in Conns,
         NEW fn \in OwnCalls, Executing(x, fn, c), fn \notin EarlyCalls
  PROVE  /\ c \in Own(x) /\ x \in AllLoops /\ conn[c].loop = x
         /\ calls[x] # <<>> /\ Head(calls[x]).fn = fn /\ Call(fn, c) \in Sound(x)
         /\ Past(c) /\ Created(c) /\ SoundChannel(c) /\ SoundLife(c, x)
         /\ conn[c] \in [state : States \ {"none"}, loop : {conn[c].loop},
                         channel : Channels, output : BOOLEAN]
         /\ fn \notin SendCalls => MayRemove(x, c)
<1>1. c \in Own(x)
  BY OnOwnThread DEF ServerSound, ThreadsInv
<1>2. x \in AllLoops /\ c \in Known
  BY <1>1, OwnerIsLoop DEF ServerSound, ThreadsInv
<1>3. calls[x] # <<>> /\ Head(calls[x]).fn = fn /\ Call(fn, c) \in Sound(x)
  BY UnderWay
<1>4. Past(c) /\ (fn \notin SendCalls => MayRemove(x, c))
  BY <1>2, <1>3, SoundCall
<1>5. SoundChannel(c) /\ SoundLife(c, x) /\ conn[c].loop = x /\ Created(c)
  BY <1>1, <1>2 DEF ServerSound, SoundInv, SoundConns, Own, Known
<1>6. conn[c] \in [state : States \ {"none"}, loop : {conn[c].loop},
                   channel : Channels, output : BOOLEAN]
  <2>1. conn[c] \in [state : States, loop : AllLoops, channel : Channels, output : BOOLEAN]
    BY DEF ServerSound, ThreadsInv, ConnsTyped
  <2> QED
    BY <1>5, <2>1 DEF Created
<1> QED
  BY <1>1, <1>2, <1>3, <1>4, <1>5, <1>6

\* A write is watched for only on a connection that is open and in the Poller.
LEMMA WritingOpen ==
  ASSUME NEW c, SoundChannel(c), Past(c), IsWriting(conn[c].channel),
         conn[c].state \in States
  PROVE  Open(c) /\ Listening(c) /\ IsReading(conn[c].channel) /\ "stop_read" \notin UserOps
<1>1. Open(c)
  BY DEF SoundChannel, IsWriting, Past, Open, Down, States
<1> QED
  BY <1>1 DEF SoundChannel, IsWriting, Listening

\* What the changes of interest do to a channel (channel.cpp, poller.cpp).
LEMMA InterestChanged ==
  ASSUME NEW ch \in Channels
  PROVE  /\ IsReading(ch) /\ ch.flag = "ADDED" =>
              /\ Disable(ch, "write").flag = "ADDED" /\ IsReading(Disable(ch, "write"))
              /\ Disable(ch, "read").flag =
                   (IF IsWriting(ch) THEN "ADDED" ELSE "DELETED")
         /\ ~IsWriting(Disable(ch, "write"))
         /\ ~IsWriting(ch) => Disable(ch, "read").events = {}
         /\ IsReading(ch) => IsReading(Enable(ch, "write"))
         /\ Enable(ch, "write").flag = "ADDED" /\ IsReading(Enable(ch, "read"))
         /\ ch.events = {} => Enable(ch, "read").events = {"read"}
         /\ Enable(ch, "read").flag = "ADDED"
<1>1. /\ ch = [events |-> ch.events, flag |-> ch.flag]
      /\ ch.events \subseteq {"read", "write"}
  BY DEF Channels, Interest
<1>2. \A s, f : /\ [ch EXCEPT !.events = s].events = s
                /\ [ch EXCEPT !.events = s].flag = ch.flag
                /\ [[ch EXCEPT !.events = s] EXCEPT !.flag = f].events = s
                /\ [[ch EXCEPT !.events = s] EXCEPT !.flag = f].flag = f
  BY <1>1
<1>3. \A s : /\ UpdateChannel([ch EXCEPT !.events = s]).events = s
             /\ UpdateChannel([ch EXCEPT !.events = s]).flag =
                  (IF ch.flag = "ADDED" /\ s = {} THEN "DELETED" ELSE "ADDED")
  BY <1>2 DEF UpdateChannel
<1> QED
  BY <1>1, <1>3 DEF Enable, Disable, IsReading, IsWriting

\* handle_write disables only what it has drained, on a connection that is open.
LEMMA WriteSound ==
  ASSUME WellUsed, ServerSound, NEW x \in Threads, Local(x), NEW c \in Conns,
         HandleWrite(x, c), UNCHANGED serverVars
  PROVE  SoundInv'
<1>1. /\ "handle_write" \in OwnCalls /\ "handle_write" \notin EarlyCalls \cup SendCalls
      /\ "handle_write" \notin TokenFns
  BY DEF OwnCalls, EarlyCalls, SendCalls, TokenFns
<1>2. /\ c \in Own(x) /\ x \in AllLoops
      /\ calls[x] # <<>> /\ Head(calls[x]).fn = "handle_write"
      /\ Past(c) /\ SoundChannel(c) /\ MayRemove(x, c)
      /\ conn[c] \in [state : States \ {"none"}, loop : {conn[c].loop},
                      channel : Channels, output : BOOLEAN]
  BY <1>1, OwnUnderWay DEF HandleWrite
<1>3. UNCHANGED <<connections_, kept, loopVars, server>>
  BY DEF HandleWrite, serverVars
<1>4. CASE UNCHANGED conn /\ Return(x, <<>>)
  BY <1>1, <1>2, <1>3, <1>4, QuietLast
<1>5. CASE /\ IsWriting(conn[c].channel)
           /\ conn' = [conn EXCEPT ![c].output = FALSE,
                                   ![c].channel = Disable(@, "write")]
           /\ Return(x, Append(IF TellsOutput THEN UserCallback(c) ELSE <<>>,
                               Call("handle_written", c)))
  <2> DEFINE r == [conn[c] EXCEPT !.output = FALSE,
                                  !.channel = Disable(conn[c].channel, "write")]
  <2>1. conn' = [conn EXCEPT ![c] = r] /\ conn'[c] = r
    BY <1>2, <1>5 DEF ServerSound, ThreadsInv, ConnsTyped
  <2>2. r \in [state : States \ {"none"}, loop : {conn[c].loop}, channel : Channels,
               output : BOOLEAN]
    <3>1. Disable(conn[c].channel, "write") \in Channels
      BY <1>2, ChannelOps DEF Interest
    <3> QED
      BY <1>2, <3>1
  <2>3. r.state = conn[c].state /\ r.channel = Disable(conn[c].channel, "write")
    BY <1>2
  <2>4. Open(c) /\ Listening(c) /\ IsReading(conn[c].channel)
    BY <1>2, <1>5, WritingOpen
  <2>5. /\ r.channel.flag = "ADDED" /\ IsReading(r.channel) /\ ~IsWriting(r.channel)
    <3>1. conn[c].channel.flag = "ADDED" /\ conn[c].channel \in Channels
      BY <1>2, <2>4 DEF Listening
    <3> QED
      BY <2>3, <2>4, <3>1, InterestChanged
  <2>6. SoundChannel(c)'
    BY <1>2, <2>1, <2>3, <2>4, <2>5 DEF SoundChannel, Past, Open, Down
  <2>7. ~Down(c)
    BY <2>4 DEF Open, Down
  <2>8. {Call("user", c), Call("handle_written", c)} \subseteq Resting(x)'
    <3>1. ~(x = Base /\ Ending)
      <4>1. Call("handle_write", c) \in Sound(x)
        BY <1>1, OwnUnderWay DEF HandleWrite
      <4>2. "handle_write" \notin EndCalls
        BY DEF EndCalls, SendCalls, StopCalls, StartCalls
      <4> QED
        BY <4>1, <4>2, SoundCall
    <3>2. Past(c)' /\ MayRemove(x, c)' /\ ~(x = Base /\ Ending')
      BY <1>2, <1>3, <2>1, <2>3, <3>1 DEF Past, MayRemove, loopVars, Ending
    <3>3. \A fn \in {"user", "handle_written"} :
            /\ Used(fn) /\ Call(fn, c) \in AnyCall /\ Call(fn, c).fn \in WaitCalls
            /\ fn \notin StartCalls \cup Later(Ops) \cup OpenCalls
      BY DEF Used, SendCalls, StopCalls, StartCalls, ForceCalls, ShutCalls, AnyCall,
         OwnCalls, Call, Later, Ops, AfterTest, WaitCalls, OpenCalls
    <3> QED
      BY <3>2, <3>3, SoundCallNext DEF Resting
  <2>9. CASE TellsOutput
    <3>1. Return(x, Written(c))
      BY <1>5, <2>9 DEF Written
    <3>2. Written(c) \in Seq(Resting(x)')
      BY <2>8, Callback DEF Written
    <3>3. \A i \in 1..Len(Written(c)) : Written(c)[i].fn \notin TokenFns
      BY WrittenPlain
    <3> HIDE DEF r
    <3> QED
      BY <1>1, <1>2, <1>3, <2>1, <2>2, <2>3, <2>6, <2>7, <3>1, <3>2, <3>3, KeptChange
  <2>10. CASE ~TellsOutput
    <3> DEFINE k == Call("handle_written", c)
    <3>1. Return(x, <<k>>)
      <4>1. Append(<<>>, k) = <<k>>
        OBVIOUS
      <4> QED
        BY <1>5, <2>10, <4>1
    <3>2. k \in Sound(x)' /\ k.fn \notin TokenFns
      BY <2>8 DEF Resting, Call, TokenFns
    <3> HIDE DEF r, k
    <3> QED
      BY <1>1, <1>2, <1>3, <2>1, <2>2, <2>3, <2>6, <2>7, <3>1, <3>2, KeptChange
  <2> QED
    BY <2>9, <2>10
<1> QED
  BY <1>4, <1>5 DEF HandleWrite

\* The end of handle_write shuts down only what a callback began to close.
LEMMA WrittenSound ==
  ASSUME WellUsed, ServerSound, NEW x \in Threads, NEW c \in Conns, HandleWritten(x, c),
         UNCHANGED serverVars
  PROVE  SoundInv'
<1>1. /\ "handle_written" \in OwnCalls
      /\ "handle_written" \notin EarlyCalls \cup SendCalls \cup TokenFns
  BY DEF OwnCalls, EarlyCalls, SendCalls, TokenFns
<1>2. /\ c \in Own(x) /\ x \in AllLoops
      /\ calls[x] # <<>> /\ Head(calls[x]).fn = "handle_written"
      /\ Past(c) /\ SoundChannel(c) /\ MayRemove(x, c)
  BY <1>1, OwnUnderWay DEF HandleWritten
<1>3. UNCHANGED <<conn, kept, connections_, loopVars, server>>
  BY DEF HandleWritten, serverVars
<1>4. CASE conn[c].state = "DISCONNECTING"
  <2>1. ~Ending
    BY <1>2, <1>4 DEF SoundChannel, WellUsed, ServerSound, SoundInv, SoundWork, SoundEnd
  <2>2. /\ Used("shutdown_in_loop") /\ Call("shutdown_in_loop", c) \in AnyCall
        /\ "shutdown_in_loop" \notin StartCalls \cup Later(Ops) \cup OpenCalls
        /\ Call("shutdown_in_loop", c).fn \notin TokenFns
    BY DEF Used, SendCalls, StopCalls, StartCalls, ForceCalls, ShutCalls, AnyCall,
       OwnCalls, ConnFunctors, Raw, Call, Later, Ops, AfterTest, TokenFns, OpenCalls
  <2>3. Call("shutdown_in_loop", c) \in Sound(x)
    BY <1>2, <2>1, <2>2, SoundCall
  <2>4. Return(x, <<Call("shutdown_in_loop", c)>>)
    BY <1>4 DEF HandleWritten
  <2> QED
    BY <1>1, <1>2, <1>3, <2>2, <2>3, <2>4, QuietLast
<1>5. CASE conn[c].state # "DISCONNECTING"
  <2>1. Return(x, <<>>)
    BY <1>5 DEF HandleWritten
  <2> QED
    BY <1>1, <1>2, <1>3, <2>1, QuietLast
<1> QED
  BY <1>4, <1>5

\* What is known of the call that queues an output callback.
LEMMA QueueingCall ==
  ASSUME NEW c \in Conns, NEW k, k = Call("queue_output_callback", c)
  PROVE  /\ k.fn \notin EarlyCalls \cup TokenFns /\ k \in AnyCall
         /\ k.fn = "queue_output_callback"
         /\ k.fn \notin StartCalls \cup Later(Ops) /\ k.fn \in SendCalls
         /\ k.fn \in EndCalls
         /\ TellsOutput => (Used("send_in_loop") => Used(k.fn))
<1>1. k \in AnyCall /\ k.fn = "queue_output_callback"
  BY DEF AnyCall, OwnCalls, Call
<1>2. /\ k.fn \notin EarlyCalls \cup TokenFns
      /\ k.fn \notin StartCalls \cup Later(Ops) /\ k.fn \in SendCalls /\ k.fn \in EndCalls
  BY <1>1 DEF EarlyCalls, TokenFns, StartCalls, Later, Ops, AfterTest, SendCalls, EndCalls
<1>3. TellsOutput => (Used("send_in_loop") => Used(k.fn))
  BY <1>1 DEF Used, SendCalls, StopCalls, StartCalls, ForceCalls, ShutCalls
<1> QED
  BY <1>1, <1>2, <1>3

\* A functor that only changes the channel's interest, or nothing; after send_in_loop
\* the callback for the output may come.
LEMMA InterestSound ==
  ASSUME WellUsed, ServerSound, NEW x \in Threads, Local(x), NEW c \in Conns,
         NEW fn \in Raw, Executing(x, fn, c),
         \/ Return(x, <<>>)
         \/ /\ fn = "send_in_loop" /\ Open(c) /\ TellsOutput
            /\ Return(x, <<Call("queue_output_callback", c)>>),
         UNCHANGED <<connections_, kept, loopVars, server>>,
         \/ UNCHANGED conn
         \/ \E ch \in Channels, out \in BOOLEAN :
              /\ Open(c) /\ (ch.flag = "ADDED" \/ fn \notin SendCalls)
              /\ \/ /\ ch.flag = "ADDED" /\ IsReading(ch)
                    /\ "stop_read" \in UserOps => ~IsWriting(ch)
                 \/ ch.flag = "DELETED" /\ ch.events = {} /\ "stop_read" \in UserOps
              /\ conn' = [conn EXCEPT ![c] = [@ EXCEPT !.channel = ch, !.output = out]]
  PROVE  SoundInv'
<1>1. fn \in OwnCalls /\ fn \notin EarlyCalls /\ fn \notin TokenFns /\ fn # "handle_error"
  BY DEF OwnCalls, ConnFunctors, Raw, EarlyCalls, TokenFns
<1>2. /\ c \in Own(x) /\ x \in AllLoops
      /\ calls[x] # <<>> /\ Head(calls[x]).fn = fn
      /\ Past(c) /\ SoundChannel(c) /\ (fn \notin SendCalls => MayRemove(x, c))
      /\ conn[c] \in [state : States \ {"none"}, loop : {conn[c].loop},
                      channel : Channels, output : BOOLEAN]
  <2> DEFINE R == [state : States \ {"none"}, loop : {conn[c].loop},
                   channel : Channels, output : BOOLEAN]
  <2>1. conn[c] \in R
    BY <1>1, OwnUnderWay
  <2>2. c \in Own(x) /\ x \in AllLoops
    BY <1>1, OwnUnderWay
  <2>4. calls[x] # <<>> /\ Head(calls[x]).fn = fn
    BY <1>1, UnderWay
  <2>3. Past(c) /\ SoundChannel(c) /\ (fn \notin SendCalls => MayRemove(x, c))
    BY <1>1, OwnUnderWay
  <2> QED
    BY <2>1, <2>2, <2>3, <2>4
<1>7. PICK k : k = Call("queue_output_callback", c)
  OBVIOUS
<1>5. /\ k.fn \notin EarlyCalls \cup TokenFns /\ k \in AnyCall
      /\ k.fn = "queue_output_callback"
      /\ k.fn \notin StartCalls \cup Later(Ops) /\ k.fn \in SendCalls /\ k.fn \in EndCalls
      /\ TellsOutput => (Used("send_in_loop") => Used(k.fn))
  BY <1>7, QueueingCall, Zenon
<1>6. fn = "send_in_loop" => Used("send_in_loop") /\ "stop_read" \notin UserOps
  <2>1. Used(fn)
    BY UnderWay, SoundCall
  <2> QED
    BY <2>1 DEF Used, SendCalls, WellUsed
<1>3. CASE UNCHANGED conn
  <2>1. fn = "send_in_loop" /\ Open(c) /\ TellsOutput => k \in Sound(x)
    <3>1. Open(c) => Past(c) /\ ("stop_read" \notin UserOps => Listening(c))
      BY <1>2 DEF SoundChannel, Listening
    <3> QED
      BY <1>5, <1>6, <1>7, <3>1, SoundCall
  <2> QED
    BY <1>1, <1>2, <1>3, <1>5, <1>7, <2>1, QuietLast
<1>4. ASSUME NEW ch \in Channels, NEW out \in BOOLEAN, Open(c),
             ch.flag = "ADDED" \/ fn \notin SendCalls,
             \/ /\ ch.flag = "ADDED" /\ IsReading(ch)
                /\ "stop_read" \in UserOps => ~IsWriting(ch)
             \/ ch.flag = "DELETED" /\ ch.events = {} /\ "stop_read" \in UserOps,
             conn' = [conn EXCEPT ![c] = [@ EXCEPT !.channel = ch, !.output = out]]
      PROVE  SoundInv'
  <2> DEFINE r == [conn[c] EXCEPT !.channel = ch, !.output = out]
  <2>1. conn' = [conn EXCEPT ![c] = r] /\ conn'[c] = r
    BY <1>2, <1>4 DEF ServerSound, ThreadsInv, ConnsTyped
  <2>2. /\ r \in [state : States \ {"none"}, loop : {conn[c].loop}, channel : Channels,
                  output : BOOLEAN]
        /\ r.state = conn[c].state /\ r.channel = ch
    BY <1>2
  <2>3. SoundChannel(c)'
    BY <1>2, <1>4, <2>1, <2>2 DEF SoundChannel, Past, Open, Down
  <2>4. MayRemove(x, c) \/ (Listening(c) => Listening(c)')
    BY <1>2, <1>4, <2>1, <2>2 DEF Listening, Open
  <2>5. ~Down(c)
    BY <1>4 DEF Open, Down
  <2>6. fn = "send_in_loop" /\ TellsOutput => k \in Sound(x)'
    <3>1. fn = "send_in_loop" => Listening(c)' /\ Past(c)'
      BY <1>2, <1>4, <1>5, <1>6, <2>1, <2>2 DEF Listening, Open, Past, SendCalls
    <3> QED
      BY <1>5, <1>6, <1>7, <3>1, SoundCallNext
  <2> HIDE DEF r
  <2>7. \/ Return(x, <<>>)
        \/ \E h \in Sound(x)' : h.fn \notin TokenFns /\ Return(x, <<h>>)
    BY <1>5, <1>7, <2>6
  <2> QED
    BY <1>1, <1>2, <2>1, <2>2, <2>3, <2>4, <2>5, <2>7, KeptChange
<1> QED
  BY <1>3, <1>4

\* send_in_loop enables writing only on a connection that is in the Poller.
LEMMA SendSound ==
  ASSUME WellUsed, ServerSound, NEW x \in Threads, Local(x), NEW c \in Conns,
         SendInLoop(x, c), UNCHANGED serverVars
  PROVE  SoundInv'
<1>1. /\ "send_in_loop" \in Raw /\ "send_in_loop" \in OwnCalls
      /\ "send_in_loop" \notin EarlyCalls /\ "send_in_loop" \in SendCalls
      /\ Executing(x, "send_in_loop", c)
      /\ UNCHANGED <<connections_, kept, loopVars, server>>
  BY DEF SendInLoop, serverVars, Raw, OwnCalls, ConnFunctors, EarlyCalls, SendCalls
<1>2. /\ Past(c) /\ SoundChannel(c) /\ Call("send_in_loop", c) \in Sound(x)
      /\ conn[c].state \in States /\ conn[c].channel \in Channels
      /\ conn[c] \in [state : States \ {"none"}, loop : {conn[c].loop},
                      channel : Channels, output : BOOLEAN]
  BY <1>1, OwnUnderWay
<1>5. conn[c].state # "DISCONNECTED" => Open(c)
  BY <1>2 DEF Open, Past, States
<1>6. \/ Return(x, <<>>)
      \/ Open(c) /\ TellsOutput /\ Return(x, <<Call("queue_output_callback", c)>>)
  BY <1>5 DEF SendInLoop, TellOutput
<1>3. CASE UNCHANGED conn
  BY <1>1, <1>3, <1>6, InterestSound
<1>4. CASE /\ conn[c].state # "DISCONNECTED"
           /\ conn' = [conn EXCEPT ![c].output = TRUE,
                         ![c].channel = IF IsWriting(@) THEN @ ELSE Enable(@, "write")]
  <2> DEFINE ch == IF IsWriting(conn[c].channel) THEN conn[c].channel
                   ELSE Enable(conn[c].channel, "write")
  <2>1. Open(c)
    BY <1>4, <1>5
  <2>2. "stop_read" \notin UserOps
    BY <1>1, <1>2, SoundCall DEF Used, WellUsed
  <2>3. IsReading(conn[c].channel) /\ conn[c].channel.flag = "ADDED"
    BY <1>2, <2>1, <2>2 DEF SoundChannel
  <2>4. ch \in Channels /\ ch.flag = "ADDED" /\ IsReading(ch)
    BY <1>2, <2>3, ChannelOps, InterestChanged DEF Interest
  <2>5. conn' = [conn EXCEPT ![c] = [@ EXCEPT !.channel = ch, !.output = TRUE]]
    BY <1>2, <1>4 DEF ServerSound, ThreadsInv, ConnsTyped
  <2> HIDE DEF ch
  <2>6. \E g \in Channels, out \in BOOLEAN :
          /\ Open(c) /\ (g.flag = "ADDED" \/ "send_in_loop" \notin SendCalls)
          /\ \/ /\ g.flag = "ADDED" /\ IsReading(g)
                /\ "stop_read" \in UserOps => ~IsWriting(g)
             \/ g.flag = "DELETED" /\ g.events = {} /\ "stop_read" \in UserOps
          /\ conn' = [conn EXCEPT ![c] = [@ EXCEPT !.channel = g, !.output = out]]
    BY <2>1, <2>2, <2>4, <2>5
  <2> QED
    BY <1>1, <1>6, <2>6, InterestSound
<1> QED
  BY <1>3, <1>4 DEF SendInLoop

\* start_read_in_loop finds the connection up.
LEMMA StartSound ==
  ASSUME WellUsed, ServerSound, NEW x \in Threads, Local(x), NEW c \in Conns,
         StartReadInLoop(x, c), UNCHANGED serverVars
  PROVE  SoundInv'
<1> DEFINE fn == "start_read_in_loop"
<1>1. /\ fn \in Raw /\ fn \in OwnCalls
      /\ fn \notin EarlyCalls \cup SendCalls /\ fn \in StartCalls
      /\ Executing(x, fn, c) /\ Return(x, <<>>)
      /\ UNCHANGED <<connections_, kept, loopVars, server>>
  BY DEF StartReadInLoop, serverVars, Raw, OwnCalls, ConnFunctors, EarlyCalls, SendCalls,
     StartCalls
<1>2. /\ SoundChannel(c) /\ Call(fn, c) \in Sound(x) /\ conn[c].channel \in Channels
      /\ conn[c] \in [state : States \ {"none"}, loop : {conn[c].loop},
                      channel : Channels, output : BOOLEAN]
  BY <1>1, OwnUnderWay
<1>3. CASE UNCHANGED conn
  BY <1>1, <1>3, InterestSound
<1>4. CASE /\ ~IsReading(conn[c].channel)
           /\ conn' = [conn EXCEPT ![c].channel = Enable(@, "read")]
  <2> DEFINE ch == Enable(conn[c].channel, "read")
  <2>1. Open(c)
    BY <1>1, <1>2, SoundCall DEF Open, IsConnected
  <2>2. conn[c].channel.events = {}
    BY <1>2, <1>4, <2>1 DEF SoundChannel
  <2>3. ch \in Channels /\ ch.flag = "ADDED" /\ IsReading(ch) /\ ~IsWriting(ch)
    <3>1. ch.events = {"read"}
      BY <1>2, <2>2, InterestChanged
    <3>2. ch \in Channels /\ ch.flag = "ADDED"
      BY <1>2, ChannelOps, InterestChanged DEF Interest
    <3> QED
      BY <3>1, <3>2 DEF IsReading, IsWriting
  <2>4. conn' = [conn EXCEPT ![c] = [@ EXCEPT !.channel = ch, !.output = conn[c].output]]
    BY <1>2, <1>4 DEF ServerSound, ThreadsInv, ConnsTyped
  <2> HIDE DEF ch, fn
  <2>5. \E g \in Channels, out \in BOOLEAN :
          /\ Open(c) /\ (g.flag = "ADDED" \/ fn \notin SendCalls)
          /\ \/ /\ g.flag = "ADDED" /\ IsReading(g)
                /\ "stop_read" \in UserOps => ~IsWriting(g)
             \/ g.flag = "DELETED" /\ g.events = {} /\ "stop_read" \in UserOps
          /\ conn' = [conn EXCEPT ![c] = [@ EXCEPT !.channel = g, !.output = out]]
    BY <1>2, <2>1, <2>3, <2>4
  <2> QED
    BY <1>1, <2>5, InterestSound
<1> QED
  BY <1>3, <1>4 DEF StartReadInLoop

\* stop_read_in_loop leaves the Poller only with the reading that it stops.
LEMMA StopSound ==
  ASSUME WellUsed, ServerSound, NEW x \in Threads, Local(x), NEW c \in Conns,
         StopReadInLoop(x, c), UNCHANGED serverVars
  PROVE  SoundInv'
<1> DEFINE fn == "stop_read_in_loop"
<1>1. /\ fn \in Raw /\ fn \in OwnCalls
      /\ fn \notin EarlyCalls \cup SendCalls /\ fn \in StopCalls
      /\ Executing(x, fn, c) /\ Return(x, <<>>)
      /\ UNCHANGED <<connections_, kept, loopVars, server>>
  BY DEF StopReadInLoop, serverVars, Raw, OwnCalls, ConnFunctors, EarlyCalls, SendCalls,
     StopCalls
<1>2. /\ SoundChannel(c) /\ Call(fn, c) \in Sound(x) /\ conn[c].channel \in Channels
      /\ Past(c) /\ conn[c].state \in States
      /\ conn[c] \in [state : States \ {"none"}, loop : {conn[c].loop},
                      channel : Channels, output : BOOLEAN]
  BY <1>1, OwnUnderWay
<1>3. CASE UNCHANGED conn
  BY <1>1, <1>3, InterestSound
<1>4. CASE /\ IsReading(conn[c].channel)
           /\ conn' = [conn EXCEPT ![c].channel = Disable(@, "read")]
  <2> DEFINE ch == Disable(conn[c].channel, "read")
  <2>1. Open(c)
    BY <1>2, <1>4 DEF SoundChannel, IsReading, Past, Open, Down, States
  <2>2. "stop_read" \in UserOps
    BY <1>1, <1>2, SoundCall DEF Used
  <2>3. ~IsWriting(conn[c].channel) /\ conn[c].channel.flag = "ADDED"
    BY <1>2, <1>4, <2>1, <2>2 DEF SoundChannel, IsReading
  <2>4. ch \in Channels /\ ch.flag = "DELETED" /\ ch.events = {}
    BY <1>2, <1>4, <2>3, ChannelOps, InterestChanged DEF Interest
  <2>5. conn' = [conn EXCEPT ![c] = [@ EXCEPT !.channel = ch, !.output = conn[c].output]]
    BY <1>2, <1>4 DEF ServerSound, ThreadsInv, ConnsTyped
  <2> HIDE DEF ch, fn
  <2>6. \E g \in Channels, out \in BOOLEAN :
          /\ Open(c) /\ (g.flag = "ADDED" \/ fn \notin SendCalls)
          /\ \/ /\ g.flag = "ADDED" /\ IsReading(g)
                /\ "stop_read" \in UserOps => ~IsWriting(g)
             \/ g.flag = "DELETED" /\ g.events = {} /\ "stop_read" \in UserOps
          /\ conn' = [conn EXCEPT ![c] = [@ EXCEPT !.channel = g, !.output = out]]
    BY <1>1, <1>2, <2>1, <2>2, <2>4, <2>5
  <2> QED
    BY <1>1, <2>6, InterestSound
<1> QED
  BY <1>3, <1>4 DEF StopReadInLoop

\* shutdown() and force_close(), after the test.
LEMMA ClosingSound ==
  ASSUME WellUsed, ServerSound, NEW x \in Threads, Local(x), NEW c \in Conns,
         Post(x, c), NEW p \in Posting, Executing(x, p, c), UNCHANGED serverVars
  PROVE  SoundInv'
<1>1. /\ p \in {"post_shutdown", "post_force_close"} /\ p \notin EarlyCalls \cup SendCalls
      /\ p \notin TokenFns /\ p # "handle_error"
  BY DEF Posting, EarlyCalls, SendCalls, TokenFns
<1>2. /\ calls[x] # <<>> /\ Head(calls[x]) = Call(p, c) /\ Head(calls[x]).fn = p
      /\ Call(p, c) \in Sound(x) /\ Call(p, c) \in MayCall(x) /\ Call(p, c) \in Inner
  BY UnderWay
<1> DEFINE f == Call(PostedBy[p], c)
<1>3. /\ conn' = [conn EXCEPT ![c].state = "DISCONNECTING"]
      /\ RunInLoop(x, conn[c].loop, f)
      /\ UNCHANGED <<connections_, kept, loopVars, server>>
  <2>1. PICK q \in DOMAIN PostedBy :
          /\ Executing(x, q, c)
          /\ conn' = IF q \in {"post_shutdown", "post_force_close"}
                     THEN [conn EXCEPT ![c].state = "DISCONNECTING"] ELSE conn
          /\ RunInLoop(x, conn[c].loop, Call(PostedBy[q], c))
          /\ UNCHANGED <<socket, connections_, kept, loopVars, log, aborted>>
    BY DEF Post
  <2>2. q = p
    BY <1>2, <2>1 DEF Executing, Call
  <2> QED
    BY <1>1, <2>1, <2>2 DEF serverVars
<1>4. c \in Own(x) /\ x \in AllLoops /\ c \in Known /\ conn[c].loop = x
  <2>1. c \in Own(x)
    BY <1>2, WellClosed, OwnPosting DEF Call
  <2> QED
    BY <2>1, OwnerIsLoop DEF ServerSound, ThreadsInv, Own
<1>5. Open(c) /\ ~Down(c) /\ Past(c) /\ MayRemove(x, c)
  <2>1. Open(c)
    BY <1>1, <1>2 DEF Inner, Settled, Posting, Call
  <2> QED
    BY <1>1, <1>2, <1>4, <2>1, SoundCall DEF Open, Down
<1>6. Closing \cap OwnOps # {} /\ Used(PostedBy[p])
  <2>1. Used(p)
    BY <1>2, SoundCall
  <2> QED
    BY <1>1, <2>1 DEF Used, SendCalls, StopCalls, StartCalls, ForceCalls, ShutCalls,
       UserOps, WellUsed, Closing, PostedBy
<1>7. ~Ending /\ c \in connections_
  <2>1. ~Ending
    BY <1>6 DEF WellUsed, ServerSound, SoundInv, SoundWork, SoundEnd
  <2> QED
    BY <1>5, <2>1 DEF Open, ServerSound, SettledInv, MapHeld
<1> DEFINE r == [conn[c] EXCEPT !.state = "DISCONNECTING"]
<1>8. conn' = [conn EXCEPT ![c] = r] /\ conn'[c] = r
  BY <1>3 DEF ServerSound, ThreadsInv, ConnsTyped
<1>9. /\ r \in [state : States \ {"none"}, loop : {conn[c].loop}, channel : Channels,
                output : BOOLEAN]
      /\ r.state = "DISCONNECTING" /\ r.channel = conn[c].channel
  BY DEF ServerSound, ThreadsInv, ConnsTyped, States
<1>10. SoundChannel(c)'
  <2>1. SoundChannel(c)
    BY DEF ServerSound, SoundInv, SoundConns
  <2> QED
    BY <1>5, <1>6, <1>8, <1>9, <2>1 DEF SoundChannel, Past, Open, Down
<1>11. f \in Sound(x)' /\ f.fn \notin TokenFns
  <2>1. /\ PostedBy[p] \notin OpenCalls \cup StartCalls
        /\ PostedBy[p] \notin Later(Ops) \cup TokenFns /\ f \in AnyCall
        /\ f.fn = PostedBy[p]
    BY <1>1 DEF PostedBy, StartCalls, Later, Ops, AfterTest, TokenFns, AnyCall, OwnCalls,
       ConnFunctors, Raw, Call, OpenCalls
  <2>2. Past(c)' /\ MayRemove(x, c)' /\ ~Ending'
    BY <1>3, <1>5, <1>7, <1>8, <1>9 DEF Past, MayRemove, loopVars, Ending
  <2> QED
    BY <1>6, <2>1, <2>2, SoundCallNext
<1>12. Return(x, <<f>>)
  BY <1>3, <1>4 DEF RunInLoop
<1> HIDE DEF r, f
<1> QED
  BY <1>1, <1>2, <1>3, <1>4, <1>5, <1>7, <1>8, <1>9, <1>10, <1>11, <1>12, KeptChange

\* The callback for the output starts.
LEMMA OutputSound ==
  ASSUME WellUsed, ServerSound, NEW x \in Threads, NEW c \in Conns, OutputCallback(x, c),
         UNCHANGED serverVars
  PROVE  SoundInv'
<1> DEFINE fn == "output_callback"
           u == UserCallback(c)
<1>1. fn \notin TokenFns /\ fn \notin EarlyCalls \cup SendCalls /\ fn # "handle_error"
  BY DEF TokenFns, EarlyCalls, SendCalls
<1>2. calls[x] # <<>> /\ Head(calls[x]).fn = fn /\ Call(fn, c) \in Sound(x)
  BY UnderWay DEF OutputCallback
<1>3. UNCHANGED <<conn, kept, connections_, loopVars, server>> /\ Return(x, u)
  BY DEF OutputCallback, serverVars
<1>4. u \in Seq(Resting(x)) /\ \A i \in 1..Len(u) : u[i].fn \notin TokenFns
  <2>1. Call("user", c) \in Resting(x)
    BY <1>1, <1>2, UserSound
  <2> QED
    BY <2>1, Callback, CallbackPlain
<1> HIDE DEF fn, u
<1> QED
  BY <1>1, <1>2, <1>3, <1>4, QuietReturn DEF ServerSound

\* The loop queues it for itself.
LEMMA QueueingSound ==
  ASSUME WellUsed, ServerSound, NEW x \in Threads, NEW c \in Conns,
         QueueOutputCallback(x, c), UNCHANGED serverVars
  PROVE  SoundInv'
<1> DEFINE fn == "queue_output_callback"
           f == Call("output_callback", c)
           more == <<>>
<1>1. fn \in OwnCalls /\ fn \notin EarlyCalls \cup TokenFns /\ fn # "handle_error"
  BY DEF OwnCalls, EarlyCalls, TokenFns
<1>2. /\ c \in Own(x) /\ x \in AllLoops /\ calls[x] # <<>> /\ Head(calls[x]).fn = fn
      /\ Past(c) /\ Call(fn, c) \in Sound(x)
  <2>1. Executing(x, fn, c)
    BY DEF QueueOutputCallback
  <2> QED
    BY <1>1, <2>1, OwnUnderWay
<1>3. /\ UNCHANGED <<conn, kept, connections_, loopVars, server>>
      /\ calls' = [calls EXCEPT ![x] = more \o Tail(@)]
      /\ queue_functors_' = [queue_functors_ EXCEPT ![x] = Append(@, f)]
  BY DEF QueueOutputCallback, ReturnQueueing, serverVars
<1>4. Steady(x)
  BY <1>2, <1>3, SteadyQuiet DEF ServerSound, SoundInv, SoundWork
<1>5. \A y \in Threads : y # x => calls'[y] = calls[y]
  BY <1>3 DEF ServerSound, ThreadsInv, CallsTyped
<1>6. SoundEnd' /\ KeepsEnds /\ (Ending' <=> Ending)
  BY <1>4, <1>5, EndKept DEF ServerSound, SoundInv, SoundWork
<1>7. more \in Seq(Resting(x)') /\ more \in Seq(AnyCall) /\ \A d : ~Has(more, Tokens(d))
  BY EmptySeq DEF Has
<1> HIDE DEF more
<1>8. SoundCalls'
  BY <1>1, <1>2, <1>3, <1>4, <1>6, <1>7, CallsKept
     DEF ServerSound, SoundInv, SoundWork, Steady, loopVars
<1>9. f \in SoundQueued(x) /\ f \in AnyCall /\ f.fn \notin TokenFns
  <2>1. Used("output_callback")
    <3>1. Used(fn)
      BY <1>2, SoundCall
    <3> QED
      BY <3>1 DEF Used, SendCalls, StopCalls, StartCalls, ForceCalls, ShutCalls
  <2> QED
    BY <1>2, <2>1 DEF SoundQueued, AnyCall, OwnCalls, ConnFunctors, Raw, Call, TokenFns
<1> HIDE DEF f, fn
<1>10. SoundQueues'
  <2>1. \A l \in AllLoops : SoundQueued(l)' = SoundQueued(l)
    BY <1>3 DEF SoundQueued, Past
  <2>2. Append(queue_functors_[x], f) \in Seq(SoundQueued(x))
    BY <1>2, <1>9, AppendProperties DEF ServerSound, SoundInv, SoundWork, SoundQueues
  <2> QED
    BY <1>2, <1>3, <2>1, <2>2
       DEF ServerSound, ThreadsInv, QueuesTyped, SoundInv, SoundWork, SoundQueues, loopVars
<1>11. ASSUME NEW d \in Known, NEW l \in AllLoops PROVE Alike(d, l)
  <2>1. f \notin Tokens(d) /\ Head(calls[x]) \notin Tokens(d)
    BY <1>1, <1>2, <1>9, PlainCall
  <2>2. CASE l # x
    BY <1>2, <1>3, <1>5, <2>2, AgendaLeft, LeftAlike
       DEF ServerSound, ThreadsInv, QueuesTyped, Threads, loopVars
  <2>3. CASE l = x
    BY <1>2, <1>3, <1>7, <1>9, <2>1, <2>3, QueueAlike DEF ServerSound
  <2> QED
    BY <2>2, <2>3
<1>12. \A d \in Known : Keeps(d)
  BY <1>3, <1>11 DEF Keeps
<1>13. SoundWork'
  BY <1>4, <1>6, <1>8, <1>10 DEF SoundWork, Steady
<1> QED
  BY <1>3, <1>6, <1>12, <1>13, ConnsSame DEF ServerSound, SoundInv

\* Every step of a thread that makes and ends no part of the life of a connection.
LEMMA PlainStepSound ==
  ASSUME WellUsed, ServerSound, NEW x \in Threads, Local(x), NEW c \in Conns,
         \/ HandleRead(x, c) \/ HandleError(x, c) \/ HandleWrite(x, c)
         \/ HandleWritten(x, c) \/ SendInLoop(x, c) \/ QueueOutputCallback(x, c)
         \/ OutputCallback(x, c) \/ ShutdownInLoop(x, c) \/ ForceCloseInLoop(x, c)
         \/ StartReadInLoop(x, c) \/ StopReadInLoop(x, c) \/ TestState(x, c)
         \/ Post(x, c) \/ UserReturns(x, c),
         UNCHANGED serverVars
  PROVE  SoundInv'
<1>1. CASE Post(x, c)
  <2>1. CASE \E p \in Posting : Executing(x, p, c)
    BY <1>1, <2>1, ClosingSound
  <2>2. CASE ~\E p \in Posting : Executing(x, p, c)
    <3>1. UNCHANGED conn
      BY <1>1, <2>2 DEF Post, Posting
    <3> QED
      BY <1>1, <2>2, <3>1, PostSound
  <2> QED
    BY <2>1, <2>2
<1> QED
  BY <1>1, ReadSound, ErrorSound, WriteSound, WrittenSound, SendSound, QueueingSound,
     OutputSound, LoopCallsSound, StartSound, StopSound, TestSound

-----------------------------------------------------------------------------
(* The steps that make the life of a connection.                             *)

\* Which call is which part of the life.
LEMMA TokenOf ==
  ASSUME NEW fn, NEW c
  PROVE  /\ Call(fn, c) \in Establish(c) <=> fn = "connect_established"
         /\ Call(fn, c) \in Unregister(c) <=> fn = "remove"
         /\ Call(fn, c) \in Destroy(c) <=> fn \in {"connect_destroyed", "remove"}
         /\ Call(fn, c) \in Report(c) <=> fn = "remove_connection"
         /\ Call(fn, c) \in Erase(c) <=> fn = "remove_connection_in_loop"
         /\ Call(fn, c) \in Drop(c) <=> fn = "release"
  BY DEF Establish, Unregister, Destroy, Report, Erase, Drop, Call

\* What a step leaves of the life of c, when its own loop l returned from a call.
LEMMA BaseAlike ==
  ASSUME ThreadsInv, NEW x \in AllLoops, x # Base, UNCHANGED loopVars,
         NEW more, Return(x, more)
  PROVE  Agenda(Base)' = Agenda(Base)
<1>1. /\ Base \in AllLoops /\ calls'[Base] = calls[Base]
      /\ queue_functors_'[Base] = queue_functors_[Base] /\ UNCHANGED <<functors, running>>
  BY DEF ThreadsInv, CallsTyped, Return, AllLoops, Threads, loopVars
<1> QED
  BY <1>1, AgendaLeft

\* A thread that is in a call has not returned from its loop.
LEMMA NotGone ==
  ASSUME SoundEnd, NEW x \in AllLoops, calls[x] # <<>>
  PROVE  ~Gone(x)
  BY DEF SoundEnd, Gone

\* The return of a call: what was ahead of the loop without it, and what it called.
LEMMA Turnover ==
  ASSUME ThreadsInv, NEW x \in AllLoops, calls[x] # <<>>, UNCHANGED loopVars,
         NEW more \in Seq(AnyCall), calls' = [calls EXCEPT ![x] = more \o Tail(@)],
         queue_functors_'[x] = queue_functors_[x], NEW T, Once(Agenda(x), T)
  PROVE  LET h == Head(calls[x])
             a == Agenda(x)
             z == Agenda(x)'
         IN  /\ h \notin T /\ ~Has(more, T) => (Has(z, T) <=> Has(a, T)) /\ Once(z, T)
             /\ (h \in T \/ ~Has(a, T)) /\ Once(more, T) =>
                  (Has(z, T) <=> Has(more, T)) /\ Once(z, T)
<1> DEFINE h == Head(calls[x])
           a == Agenda(x)
           z == Agenda(x)'
           b == Behind(x)
<1>1. /\ Has(a, T) <=> h \in T \/ Has(b, T)
      /\ Has(z, T) <=> Has(more, T) \/ Has(b, T)
      /\ Once(a, T) <=> Once(b, T) /\ ~(h \in T /\ Has(b, T))
      /\ Once(z, T) <=> Once(more, T) /\ Once(b, T) /\ ~(Has(more, T) /\ Has(b, T))
  BY ReturnMarks
<1>2. Once(a, T)
  OBVIOUS
<1> HIDE DEF h, a, z, b
<1>3. /\ h \notin T /\ ~Has(more, T) => (Has(z, T) <=> Has(a, T)) /\ Once(z, T)
      /\ (h \in T \/ ~Has(a, T)) /\ Once(more, T) =>
           (Has(z, T) <=> Has(more, T)) /\ Once(z, T)
  BY <1>1, <1>2, Absent
<1> QED
  BY <1>3 DEF h, a, z

\* A callback, and a last call.
LEMMA ThenCall ==
  ASSUME NEW c \in Conns, NEW k \in AnyCall
  PROVE  /\ UserCallback(c) \in Seq(AnyCall) /\ Append(UserCallback(c), k) \in Seq(AnyCall)
         /\ \A d : \A T \in Marks(d) :
              /\ ~Has(UserCallback(c), T) /\ Once(UserCallback(c), T)
              /\ Has(Append(UserCallback(c), k), T) <=> k \in T
              /\ Once(Append(UserCallback(c), k), T)
         /\ \A d : k \notin Tokens(d) => ~Has(Append(UserCallback(c), k), Tokens(d))
<1> DEFINE u == UserCallback(c)
<1>1. u \in Seq(AnyCall) /\ Append(u, k) \in Seq(AnyCall)
  <2>1. Call("user", c) \in AnyCall
    BY DEF AnyCall, OwnCalls, Call
  <2> QED
    BY <2>1, Callback
<1>2. \A d : \A T \in Marks(d) : ~Has(u, T) /\ Once(u, T)
  <2>1. \A d : \A T \in Marks(d) : ~Has(u, T)
    BY CallbackPlain, MarksAreTokens DEF Has
  <2> QED
    BY <2>1, Absent
<1>3. Append(u, k) = u \o <<k>> /\ <<k>> \in Seq(AnyCall)
  BY <1>1, AppendIsConcat
<1>4. \A d : ~Has(u, Tokens(d))
  BY CallbackPlain
<1> HIDE DEF u
<1>5. \A T : /\ Has(Append(u, k), T) <=> Has(u, T) \/ k \in T
             /\ Once(Append(u, k), T) <=> Once(u, T) /\ ~(Has(u, T) /\ k \in T)
  <2>1. \A T : /\ Has(u \o <<k>>, T) <=> Has(u, T) \/ Has(<<k>>, T)
               /\ Once(u \o <<k>>, T) <=>
                    Once(u, T) /\ Once(<<k>>, T) /\ ~(Has(u, T) /\ Has(<<k>>, T))
    BY <1>1, <1>3, Joined
  <2>2. \A T : (Has(<<k>>, T) <=> k \in T) /\ Once(<<k>>, T)
    BY Alone
  <2> QED
    BY <1>3, <2>1, <2>2
<1>6. \A d : \A T \in Marks(d) : /\ Has(Append(u, k), T) <=> k \in T
                                 /\ Once(Append(u, k), T)
  BY <1>2, <1>5
<1> QED
  BY <1>1, <1>2, <1>4, <1>5, <1>6 DEF u

\* connect_established: c goes up.
LEMMA EstablishedLife ==
  ASSUME ThreadsInv, NEW x \in AllLoops, NEW c \in Own(x), SoundLife(c, x),
         Executing(x, "connect_established", c), UNCHANGED <<loopVars, connections_, server>>,
         conn[c].state = "CONNECTING", conn'[c].state = "CONNECTED",
         Return(x, UserCallback(c))
  PROVE  SoundLife(c, x)'
<1> DEFINE h == Head(calls[x])
           a == Agenda(x)
           z == Agenda(x)'
           u == UserCallback(c)
<1>1. calls[x] # <<>> /\ h = Call("connect_established", c) /\ h \in AnyCall /\ c \in Conns
  BY CallUnderWay, MayAny, OwnerIsLoop DEF Executing, ThreadsInv, Threads
<1>2. u \in Seq(AnyCall) /\ \A T \in Marks(c) : ~Has(u, T) /\ Once(u, T)
  BY <1>1, ThenCall
<1>3. \A T \in Marks(c) : Once(a, T) =>
        /\ h \notin T => (Has(z, T) <=> Has(a, T)) /\ Once(z, T)
        /\ h \in T => ~Has(z, T) /\ Once(z, T)
  BY <1>1, <1>2, Turnover DEF Return
<1>4. /\ Establish(c) \in Marks(c) /\ Unregister(c) \in Marks(c) /\ Destroy(c) \in Marks(c)
      /\ Report(c) \in Marks(c) /\ Erase(c) \in Marks(c) /\ Drop(c) \in Marks(c)
  BY MarksAreTokens
<1>5. /\ h \in Establish(c) /\ h \notin Unregister(c) /\ h \notin Destroy(c)
      /\ h \notin Report(c) /\ h \notin Erase(c) /\ h \notin Drop(c)
  BY <1>1, TokenOf
<1>6. x # Base => Agenda(Base)' = Agenda(Base)
  BY BaseAlike
<1>7. Gone(x)' <=> Gone(x)
  BY DEF Gone, loopVars
<1> HIDE DEF h, a, z, u
<1>8. Once(a, Establish(c)) /\ Once(a, Report(c)) /\ Once(a, Destroy(c))
  BY DEF SoundLife, a
<1>9. Once(a, Unregister(c))
  BY <1>8 DEF Once, Destroy
<1>10. /\ ~Has(z, Establish(c)) /\ Once(z, Establish(c))
       /\ Ordered(z, Establish(c), Destroy(c))
       /\ Has(z, Report(c)) <=> Has(a, Report(c))
       /\ Has(z, Destroy(c)) <=> Has(a, Destroy(c))
       /\ Has(z, Unregister(c)) <=> Has(a, Unregister(c))
       /\ Once(z, Report(c)) /\ Once(z, Destroy(c))
  BY <1>3, <1>4, <1>5, <1>8, <1>9, Absent
<1>11. /\ Has(Agenda(Base)', Erase(c)) <=> Has(Agenda(Base), Erase(c))
       /\ Once(Agenda(Base)', Erase(c))
       /\ Has(Agenda(Base)', Drop(c)) <=> Has(Agenda(Base), Drop(c))
       /\ Once(Agenda(Base)', Drop(c))
  <2>1. Once(Agenda(Base), Erase(c)) /\ Once(Agenda(Base), Drop(c))
    BY DEF SoundLife
  <2>2. CASE x # Base
    BY <1>6, <2>1, <2>2
  <2>3. CASE x = Base
    BY <1>3, <1>4, <1>5, <2>1, <2>3 DEF a, z
  <2> QED
    BY <2>2, <2>3
<1>12. ~Down(c)' /\ ~Down(c)
  BY DEF Down
<1> USE DEF z, a
<1> QED
  BY <1>7, <1>10, <1>11, <1>12 DEF SoundLife

\* handle_close: c goes down, and the server is to be told.
LEMMA ClosedLife ==
  ASSUME ThreadsInv, NEW x \in AllLoops, NEW c \in Own(x), SoundLife(c, x),
         Executing(x, "handle_close", c), UNCHANGED <<loopVars, connections_, server>>,
         Open(c), conn'[c].state = "DISCONNECTED", conn'[c].channel.flag = "DELETED",
         Ending \/ c \in connections_,
         Return(x, Append(UserCallback(c), Call("remove_connection", c)))
  PROVE  SoundLife(c, x)'
<1> DEFINE h == Head(calls[x])
           k == Call("remove_connection", c)
           a == Agenda(x)
           z == Agenda(x)'
           u == Append(UserCallback(c), k)
<1>1. calls[x] # <<>> /\ h = Call("handle_close", c) /\ h \in AnyCall /\ c \in Conns
  BY CallUnderWay, MayAny, OwnerIsLoop DEF Executing, ThreadsInv, Threads
<1>2. k \in AnyCall
  BY <1>1 DEF AnyCall, OwnCalls, Call
<1>3. u \in Seq(AnyCall) /\ \A T \in Marks(c) : (Has(u, T) <=> k \in T) /\ Once(u, T)
  BY <1>1, <1>2, ThenCall
<1>4. /\ Establish(c) \in Marks(c) /\ Unregister(c) \in Marks(c) /\ Destroy(c) \in Marks(c)
      /\ Report(c) \in Marks(c) /\ Erase(c) \in Marks(c) /\ Drop(c) \in Marks(c)
  BY MarksAreTokens
<1>5. /\ h \notin Establish(c) /\ h \notin Unregister(c) /\ h \notin Destroy(c)
      /\ h \notin Report(c) /\ h \notin Erase(c) /\ h \notin Drop(c)
      /\ k \notin Establish(c) /\ k \notin Unregister(c) /\ k \notin Destroy(c)
      /\ k \in Report(c) /\ k \notin Erase(c) /\ k \notin Drop(c)
  BY <1>1, TokenOf
<1>6. x # Base => Agenda(Base)' = Agenda(Base)
  BY BaseAlike
<1>7. Gone(x)' <=> Gone(x)
  BY DEF Gone, loopVars
<1> HIDE DEF k, u
<1>8. \A T \in Marks(c) : Once(a, T) =>
        /\ h \notin T /\ k \notin T => (Has(z, T) <=> Has(a, T)) /\ Once(z, T)
        /\ k \in T /\ ~Has(a, T) => Has(z, T) /\ Once(z, T)
  <2>1. Return(x, u)
    BY DEF u, k
  <2>2. \A T : Once(a, T) =>
          /\ h \notin T /\ ~Has(u, T) => (Has(z, T) <=> Has(a, T)) /\ Once(z, T)
          /\ (h \in T \/ ~Has(a, T)) /\ Once(u, T) =>
               (Has(z, T) <=> Has(u, T)) /\ Once(z, T)
    BY <1>1, <1>3, <2>1, Turnover DEF Return
  <2> HIDE DEF h, a, z
  <2> QED
    BY <1>3, <2>2
<1> HIDE DEF h, a, z
<1>9. /\ Once(a, Establish(c)) /\ Once(a, Report(c)) /\ Once(a, Destroy(c))
      /\ ~Has(a, Establish(c)) /\ ~Has(a, Report(c)) /\ ~Has(Agenda(Base), Erase(c))
      /\ ~Down(c)
  BY DEF SoundLife, a, Open, Down
<1>10. Once(a, Unregister(c))
  BY <1>9 DEF Once, Destroy
<1>11. /\ ~Has(z, Establish(c)) /\ Once(z, Establish(c))
       /\ Ordered(z, Establish(c), Destroy(c))
       /\ Has(z, Report(c)) /\ Once(z, Report(c))
       /\ Has(z, Destroy(c)) <=> Has(a, Destroy(c))
       /\ Once(z, Destroy(c))
  BY <1>4, <1>5, <1>8, <1>9, <1>10, Absent
<1>12. /\ ~Has(Agenda(Base)', Erase(c)) /\ Once(Agenda(Base)', Erase(c))
       /\ Has(Agenda(Base)', Drop(c)) <=> Has(Agenda(Base), Drop(c))
       /\ Once(Agenda(Base)', Drop(c))
  <2>1. Once(Agenda(Base), Erase(c)) /\ Once(Agenda(Base), Drop(c))
    BY DEF SoundLife
  <2>2. CASE x # Base
    BY <1>6, <1>9, <2>1, <2>2
  <2>3. CASE x = Base
    BY <1>4, <1>5, <1>8, <1>9, <2>1, <2>3 DEF a, z
  <2> QED
    BY <2>2, <2>3
<1>13. Down(c)' /\ (Ending' <=> Ending) /\ (c \in connections_' <=> c \in connections_)
  BY DEF Down, Ending
<1>14. Gone(x) \/ c \in connections_ \/ Has(a, Destroy(c))
  BY <1>9 DEF SoundLife, a
<1>15. /\ Has(a, Destroy(c)) => c \notin connections_
       /\ Has(Agenda(Base), Drop(c)) => c \in connections_
  BY DEF SoundLife, a
<1> USE DEF z, a
<1> QED
  BY <1>7, <1>11, <1>12, <1>13, <1>14, <1>15 DEF SoundLife

\* connect_destroyed: c is down, and its channel is to be removed.
LEMMA DestroyedLife ==
  ASSUME ThreadsInv, NEW x \in AllLoops, NEW c \in Own(x), SoundLife(c, x),
         Executing(x, "connect_destroyed", c), UNCHANGED <<loopVars, connections_, server>>,
         conn[c].state \in {"CONNECTED", "DISCONNECTED"}, conn'[c].state = "DISCONNECTED",
         conn'[c].channel.flag # "UNADD", NEW more \in Seq(AnyCall), Return(x, more),
         \A T \in Marks(c) : (Has(more, T) <=> Call("remove", c) \in T) /\ Once(more, T)
  PROVE  SoundLife(c, x)'
<1> DEFINE h == Head(calls[x])
           k == Call("remove", c)
           a == Agenda(x)
           z == Agenda(x)'
<1>1. calls[x] # <<>> /\ h = Call("connect_destroyed", c)
  BY DEF Executing
<1>2. /\ Establish(c) \in Marks(c) /\ Unregister(c) \in Marks(c) /\ Destroy(c) \in Marks(c)
      /\ Report(c) \in Marks(c) /\ Erase(c) \in Marks(c) /\ Drop(c) \in Marks(c)
  BY MarksAreTokens
<1>3. /\ h \notin Establish(c) /\ h \notin Unregister(c) /\ h \in Destroy(c)
      /\ h \notin Report(c) /\ h \notin Erase(c) /\ h \notin Drop(c)
      /\ k \notin Establish(c) /\ k \in Unregister(c) /\ k \in Destroy(c)
      /\ k \notin Report(c) /\ k \notin Erase(c) /\ k \notin Drop(c)
  BY <1>1, TokenOf
<1>4. x # Base => Agenda(Base)' = Agenda(Base)
  BY BaseAlike
<1>5. \A T \in Marks(c) : Once(a, T) =>
        /\ h \notin T /\ k \notin T => (Has(z, T) <=> Has(a, T)) /\ Once(z, T)
        /\ (h \in T \/ ~Has(a, T)) /\ k \in T => Has(z, T) /\ Once(z, T)
  BY <1>1, Turnover DEF Return
<1>6. Has(a, Destroy(c))
  BY <1>1, <1>3, ReturnMarks DEF Return
<1> HIDE DEF h, a, z, k
<1>7. /\ Once(a, Establish(c)) /\ Once(a, Report(c)) /\ Once(a, Destroy(c))
      /\ ~Has(a, Establish(c)) /\ c \notin connections_
      /\ Has(a, Report(c)) \/ Has(Agenda(Base), Erase(c)) => Ending
      /\ ~(Has(a, Report(c)) /\ Has(Agenda(Base), Erase(c)))
      /\ ~Has(Agenda(Base), Drop(c))
  BY <1>6 DEF SoundLife, a
<1>8. /\ ~Has(z, Establish(c)) /\ Once(z, Establish(c))
      /\ Ordered(z, Establish(c), Destroy(c))
      /\ Has(z, Report(c)) <=> Has(a, Report(c))
      /\ Once(z, Report(c)) /\ Has(z, Destroy(c)) /\ Once(z, Destroy(c))
  BY <1>2, <1>3, <1>5, <1>7, Absent
<1>9. Has(z, Unregister(c))
  <2>1. Has(z, Unregister(c)) <=> k \in Unregister(c) \/ Has(Behind(x), Unregister(c))
    BY <1>1, <1>2, ReturnMarks DEF Return, h, z, k
  <2> QED
    BY <1>3, <2>1
<1>10. /\ Has(Agenda(Base)', Erase(c)) <=> Has(Agenda(Base), Erase(c))
       /\ Once(Agenda(Base)', Erase(c))
       /\ ~Has(Agenda(Base)', Drop(c)) /\ Once(Agenda(Base)', Drop(c))
  <2>1. Once(Agenda(Base), Erase(c)) /\ Once(Agenda(Base), Drop(c))
    BY DEF SoundLife
  <2>2. CASE x # Base
    BY <1>4, <1>7, <2>1, <2>2
  <2>3. CASE x = Base
    BY <1>2, <1>3, <1>5, <1>7, <2>1, <2>3 DEF a, z
  <2> QED
    BY <2>2, <2>3
<1>11. Down(c)' /\ (Ending' <=> Ending) /\ (c \in connections_' <=> c \in connections_)
  BY DEF Down, Ending
<1> USE DEF z, a
<1> QED
  BY <1>7, <1>8, <1>9, <1>10, <1>11 DEF SoundLife

\* Channel::remove: c is out.
LEMMA RemovedLife ==
  ASSUME ThreadsInv, NEW x \in AllLoops, NEW c \in Own(x), SoundLife(c, x),
         Executing(x, "remove", c), UNCHANGED <<loopVars, connections_, server>>,
         conn'[c].state = conn[c].state, conn'[c].channel.flag = "UNADD", Return(x, <<>>)
  PROVE  SoundLife(c, x)'
<1> DEFINE h == Head(calls[x])
           a == Agenda(x)
           z == Agenda(x)'
           u == <<>>
<1>1. calls[x] # <<>> /\ h = Call("remove", c)
  BY DEF Executing
<1>2. /\ Establish(c) \in Marks(c) /\ Unregister(c) \in Marks(c) /\ Destroy(c) \in Marks(c)
      /\ Report(c) \in Marks(c) /\ Erase(c) \in Marks(c) /\ Drop(c) \in Marks(c)
  BY MarksAreTokens
<1>3. /\ h \notin Establish(c) /\ h \in Unregister(c) /\ h \in Destroy(c)
      /\ h \notin Report(c) /\ h \notin Erase(c) /\ h \notin Drop(c)
  BY <1>1, TokenOf
<1>4. x # Base => Agenda(Base)' = Agenda(Base)
  BY BaseAlike, EmptySeq
<1>5. u \in Seq(AnyCall) /\ Return(x, u) /\ \A T : ~Has(u, T) /\ Once(u, T)
  BY DEF Has, Once
<1>6. Has(a, Destroy(c)) /\ Has(a, Unregister(c))
  <2> HIDE DEF u
  <2> QED
    BY <1>1, <1>3, <1>5, ReturnMarks DEF Return
<1>7. \A T : Once(a, T) =>
        /\ h \notin T => (Has(z, T) <=> Has(a, T)) /\ Once(z, T)
        /\ h \in T => ~Has(z, T) /\ Once(z, T)
  <2> HIDE DEF u
  <2> QED
    BY <1>1, <1>5, Turnover DEF Return
<1> HIDE DEF h, a, z
<1>8. /\ Once(a, Establish(c)) /\ Once(a, Report(c)) /\ Once(a, Destroy(c))
      /\ ~Has(a, Establish(c)) /\ c \notin connections_ /\ Down(c)
      /\ Has(a, Report(c)) \/ Has(Agenda(Base), Erase(c)) => Ending
      /\ ~(Has(a, Report(c)) /\ Has(Agenda(Base), Erase(c)))
      /\ ~Has(Agenda(Base), Drop(c))
  BY <1>6 DEF SoundLife, a, Down
<1>9. /\ ~Has(z, Establish(c)) /\ Once(z, Establish(c))
      /\ Ordered(z, Establish(c), Destroy(c))
      /\ Has(z, Report(c)) <=> Has(a, Report(c))
      /\ Once(z, Report(c)) /\ ~Has(z, Destroy(c)) /\ Once(z, Destroy(c))
      /\ ~Has(z, Unregister(c))
  <2>1. ~Has(z, Destroy(c))
    BY <1>3, <1>7, <1>8
  <2>2. ~Has(z, Unregister(c))
    BY <2>1 DEF Has, Destroy
  <2> QED
    BY <1>3, <1>7, <1>8, <2>1, <2>2, Absent
<1>10. /\ Has(Agenda(Base)', Erase(c)) <=> Has(Agenda(Base), Erase(c))
       /\ Once(Agenda(Base)', Erase(c))
       /\ ~Has(Agenda(Base)', Drop(c)) /\ Once(Agenda(Base)', Drop(c))
  <2>1. Once(Agenda(Base), Erase(c)) /\ Once(Agenda(Base), Drop(c))
    BY DEF SoundLife
  <2>2. CASE x # Base
    BY <1>4, <1>8, <2>1, <2>2
  <2>3. CASE x = Base
    BY <1>3, <1>7, <1>8, <2>1, <2>3 DEF a, z
  <2> QED
    BY <2>2, <2>3
<1>11. /\ Down(c)' /\ (Ending' <=> Ending) /\ (c \in connections_' <=> c \in connections_)
       /\ conn'[c].state # "CONNECTING"
  BY <1>8 DEF Down, Ending
<1> USE DEF z, a
<1> QED
  BY <1>8, <1>9, <1>10, <1>11 DEF SoundLife

\* run_in_loop: the call is no longer ahead of the thread, and what it posted is ahead
\* of the other loop.
LEMMA Handed ==
  ASSUME ThreadsInv, NEW x \in AllLoops, calls[x] # <<>>, UNCHANGED loopVars,
         NEW m \in AllLoops, NEW f \in AnyCall, RunInLoop(x, m, f), NEW l \in AllLoops, NEW T,
         Once(Agenda(l), T)
  PROVE  LET old == l = x /\ Head(calls[x]) \in T
             new == l = m /\ f \in T
         IN  /\ ~old /\ ~new =>
                  (Has(Agenda(l)', T) <=> Has(Agenda(l), T)) /\ Once(Agenda(l)', T)
             /\ old /\ ~new => ~Has(Agenda(l)', T) /\ Once(Agenda(l)', T)
             /\ (old \/ ~Has(Agenda(l), T)) /\ new =>
                  Has(Agenda(l)', T) /\ Once(Agenda(l)', T)
<1> DEFINE h == Head(calls[x])
           a == Agenda(l)
           z == Agenda(l)'
<1>1. CASE l = x /\ m = x
  <2> DEFINE u == <<f>>
  <2>1. /\ u \in Seq(AnyCall) /\ calls' = [calls EXCEPT ![x] = u \o Tail(@)]
        /\ queue_functors_'[x] = queue_functors_[x]
    BY <1>1 DEF RunInLoop, Return
  <2>2. (Has(u, T) <=> f \in T) /\ Once(u, T)
    BY Alone
  <2> HIDE DEF u
  <2>3. /\ h \notin T /\ ~Has(u, T) => (Has(z, T) <=> Has(a, T)) /\ Once(z, T)
        /\ (h \in T \/ ~Has(a, T)) /\ Once(u, T) =>
             (Has(z, T) <=> Has(u, T)) /\ Once(z, T)
    BY <1>1, <2>1, Turnover
  <2> HIDE DEF h, a, z
  <2>4. /\ ~(h \in T) /\ ~(f \in T) => (Has(z, T) <=> Has(a, T)) /\ Once(z, T)
        /\ h \in T /\ ~(f \in T) => ~Has(z, T) /\ Once(z, T)
        /\ (h \in T \/ ~Has(a, T)) /\ f \in T => Has(z, T) /\ Once(z, T)
    BY <2>2, <2>3
  <2> QED
    BY <1>1, <2>4 DEF h, a, z
<1>2. CASE l = x /\ m # x
  <2> DEFINE u == <<>>
  <2>1. /\ u \in Seq(AnyCall) /\ calls' = [calls EXCEPT ![x] = u \o Tail(@)]
        /\ queue_functors_'[x] = queue_functors_[x]
    <3>1. u \o Tail(calls[x]) = Tail(calls[x])
      <4>1. Tail(calls[x]) \in Seq(MayCall(x))
        BY CallUnderWay DEF ThreadsInv, Threads
      <4> QED
        BY <4>1, ConcatEmptySeq
    <3> QED
      BY <1>2, <3>1 DEF RunInLoop, ThreadsInv, QueuesTyped
  <2>2. ~Has(u, T) /\ Once(u, T)
    BY DEF Has, Once
  <2> HIDE DEF u
  <2>3. /\ h \notin T /\ ~Has(u, T) => (Has(z, T) <=> Has(a, T)) /\ Once(z, T)
        /\ (h \in T \/ ~Has(a, T)) /\ Once(u, T) =>
             (Has(z, T) <=> Has(u, T)) /\ Once(z, T)
    BY <1>2, <2>1, Turnover
  <2> HIDE DEF h, a, z
  <2>4. /\ ~(h \in T) => (Has(z, T) <=> Has(a, T)) /\ Once(z, T)
        /\ h \in T => ~Has(z, T) /\ Once(z, T)
    BY <2>2, <2>3
  <2> QED
    BY <1>2, <2>4 DEF h, a, z
<1>3. CASE l # x /\ l = m
  <2>1. /\ calls'[l] = calls[l] /\ UNCHANGED <<functors, running>>
        /\ queue_functors_'[l] = Append(queue_functors_[l], f)
    BY <1>3 DEF RunInLoop, ThreadsInv, QueuesTyped, CallsTyped, Threads, loopVars
  <2>2. /\ Has(z, T) <=> Has(a, T) \/ f \in T
        /\ Once(z, T) <=> Once(a, T) /\ ~(f \in T /\ Has(a, T))
    BY <2>1, PostMarks
  <2> HIDE DEF h, a, z
  <2>3. /\ ~(f \in T) => (Has(z, T) <=> Has(a, T)) /\ (Once(z, T) <=> Once(a, T))
        /\ f \in T /\ ~Has(a, T) => Has(z, T) /\ (Once(z, T) <=> Once(a, T))
    BY <2>2
  <2> QED
    BY <1>3, <2>3 DEF h, a, z
<1>4. CASE l # x /\ l # m
  <2>1. /\ calls'[l] = calls[l] /\ UNCHANGED <<functors, running>>
        /\ queue_functors_'[l] = queue_functors_[l]
    BY <1>4 DEF RunInLoop, Return, ThreadsInv, QueuesTyped, CallsTyped, Threads, loopVars
  <2>2. z = a
    BY <2>1, AgendaLeft
  <2> QED
    BY <1>4, <2>2
<1> QED
  BY <1>1, <1>2, <1>3, <1>4

\* remove_connection: what told c's loop now tells the server's.
LEMMA ReportedLife ==
  ASSUME ThreadsInv, NEW x \in AllLoops, NEW c \in Own(x), SoundLife(c, x),
         Executing(x, "remove_connection", c),
         UNCHANGED <<loopVars, conn, connections_, server>>,
         RunInLoop(x, Base, Call("remove_connection_in_loop", c))
  PROVE  SoundLife(c, x)'
<1> DEFINE h == Head(calls[x])
           f == Call("remove_connection_in_loop", c)
           a == Agenda(x)
           z == Agenda(x)'
           b == Agenda(Base)
           y == Agenda(Base)'
<1>1. calls[x] # <<>> /\ h = Call("remove_connection", c) /\ c \in Conns /\ Base \in AllLoops
  BY OwnerIsLoop DEF Executing, ThreadsInv, AllLoops
<1>2. f \in AnyCall
  BY <1>1 DEF AnyCall, BaseCalls, Call
<1>3. /\ h \notin Establish(c) /\ h \notin Destroy(c) /\ h \notin Unregister(c)
      /\ h \in Report(c) /\ h \notin Erase(c) /\ h \notin Drop(c)
      /\ f \notin Establish(c) /\ f \notin Destroy(c) /\ f \notin Unregister(c)
      /\ f \notin Report(c) /\ f \in Erase(c) /\ f \notin Drop(c)
  BY <1>1, TokenOf
<1>4. Has(a, Report(c))
  <2>1. /\ calls[x] \in Seq(AnyCall) /\ Rest(x) \in Seq(AnyCall)
    BY AgendaTyped DEF ThreadsInv, CallsTyped, Threads
  <2>2. Has(calls[x], Report(c))
    BY <1>1, <1>3, <2>1 DEF Has
  <2> QED
    BY <2>1, <2>2, Joined DEF Agenda
<1>5. \A T : /\ Once(a, T) => /\ h \notin T /\ f \notin T => (Has(z, T) <=> Has(a, T)) /\ Once(z, T)
                              /\ h \in T /\ f \notin T => ~Has(z, T) /\ Once(z, T)
             /\ Once(b, T) => /\ h \notin T /\ f \notin T => (Has(y, T) <=> Has(b, T)) /\ Once(y, T)
                              /\ f \in T /\ ~Has(b, T) => Has(y, T) /\ Once(y, T)
  BY <1>1, <1>2, Handed
<1> HIDE DEF h, f, a, z, b, y
<1>6. /\ Once(a, Establish(c)) /\ Once(a, Report(c)) /\ Once(a, Destroy(c))
      /\ Once(a, Unregister(c)) /\ Once(b, Erase(c)) /\ Once(b, Drop(c))
      /\ ~Has(b, Erase(c)) /\ ~Has(a, Establish(c))
      /\ Down(c) /\ (Ending \/ c \in connections_)
  <2>1. /\ Once(a, Establish(c)) /\ Once(a, Report(c)) /\ Once(a, Destroy(c))
        /\ Once(b, Erase(c)) /\ Once(b, Drop(c)) /\ ~Has(b, Erase(c))
        /\ Down(c) /\ (Ending \/ c \in connections_)
    BY <1>4 DEF SoundLife, a, b
  <2>2. ~Has(a, Establish(c))
    BY <2>1 DEF SoundLife, a, Down
  <2>3. Once(a, Unregister(c))
    BY <2>1 DEF Once, Destroy
  <2> QED
    BY <2>1, <2>2, <2>3
<1>7. /\ ~Has(z, Establish(c)) /\ Once(z, Establish(c))
      /\ Ordered(z, Establish(c), Destroy(c))
      /\ ~Has(z, Report(c)) /\ Once(z, Report(c)) /\ Once(z, Destroy(c))
      /\ Has(z, Destroy(c)) <=> Has(a, Destroy(c))
      /\ Has(z, Unregister(c)) <=> Has(a, Unregister(c))
  BY <1>3, <1>5, <1>6, Absent
<1>8. /\ Has(y, Erase(c)) /\ Once(y, Erase(c))
      /\ Has(y, Drop(c)) <=> Has(b, Drop(c))
      /\ Once(y, Drop(c))
  BY <1>3, <1>5, <1>6
<1>9. /\ Gone(x)' <=> Gone(x)
      /\ conn'[c] = conn[c] /\ (Down(c)' <=> Down(c)) /\ (Ending' <=> Ending)
      /\ c \in connections_' <=> c \in connections_
  BY DEF Gone, loopVars, Down, Ending
<1> USE DEF z, a, b, y
<1> QED
  BY <1>6, <1>7, <1>8, <1>9 DEF SoundLife

\* What has been called on a server's thread: the innermost call is ahead of it.
LEMMA HeadAhead ==
  ASSUME ThreadsInv, NEW x \in AllLoops, calls[x] # <<>>, NEW T, Head(calls[x]) \in T
  PROVE  Has(Agenda(x), T)
<1>1. /\ calls[x] \in Seq(AnyCall) /\ Rest(x) \in Seq(AnyCall)
  BY AgendaTyped DEF ThreadsInv, CallsTyped, Threads
<1>2. Has(calls[x], T)
  BY <1>1 DEF Has
<1> QED
  BY <1>1, <1>2, Joined DEF Agenda

\* remove_connection_in_loop, and ~Impl for one connection: c leaves the server's map, and
\* its loop is to destroy it.
LEMMA UnmappedLife ==
  ASSUME ThreadsInv, NEW l \in AllLoops, NEW c \in Own(l), SoundLife(c, l),
         NEW fn \in {"remove_connection_in_loop", "release"}, Executing(Base, fn, c),
         UNCHANGED <<loopVars, conn, server>>,
         c \in connections_, c \notin connections_',
         conn[c].state # "DISCONNECTING",
         fn = "release" => Ending /\ ~Has(Agenda(Base), Establish(c)),
         fn # "release" => ~Has(Agenda(Base), Drop(c)),
         RunInLoop(Base, l, Call("connect_destroyed", c))
  PROVE  SoundLife(c, l)'
<1> DEFINE h == Head(calls[Base])
           f == Call("connect_destroyed", c)
           a == Agenda(l)
           z == Agenda(l)'
           b == Agenda(Base)
           y == Agenda(Base)'
<1>1. calls[Base] # <<>> /\ h = Call(fn, c) /\ c \in Conns /\ Base \in AllLoops
  BY OwnerIsLoop DEF Executing, ThreadsInv, AllLoops
<1>2. f \in AnyCall
  BY <1>1 DEF AnyCall, OwnCalls, ConnFunctors, Call
<1>3. /\ h \notin Establish(c) /\ h \notin Destroy(c) /\ h \notin Unregister(c)
      /\ h \notin Report(c) /\ (h \in Erase(c) <=> fn # "release")
      /\ h \in Drop(c) <=> fn = "release"
      /\ f \notin Establish(c) /\ f \in Destroy(c) /\ f \notin Unregister(c)
      /\ f \notin Report(c) /\ f \notin Erase(c) /\ f \notin Drop(c)
  BY <1>1, TokenOf
<1>4. fn # "release" => Has(b, Erase(c))
  BY <1>1, <1>3, HeadAhead
<1>5. \A T : /\ Once(a, T) =>
                  /\ h \notin T /\ f \notin T => (Has(z, T) <=> Has(a, T)) /\ Once(z, T)
                  /\ h \notin T /\ f \in T /\ ~Has(a, T) => Has(z, T) /\ Once(z, T)
             /\ Once(b, T) =>
                  /\ h \notin T /\ f \notin T => (Has(y, T) <=> Has(b, T)) /\ Once(y, T)
                  /\ h \in T /\ f \notin T => ~Has(y, T) /\ Once(y, T)
  BY <1>1, <1>2, Handed
<1>6. \A A, B : l # Base /\ Ordered(a, A, B) /\ f \notin A => Ordered(z, A, B)
  <2> SUFFICES ASSUME l # Base
               PROVE  \A A, B : Ordered(a, A, B) /\ f \notin A => Ordered(z, A, B)
    OBVIOUS
  <2>1. /\ calls'[l] = calls[l] /\ UNCHANGED <<functors, running>>
        /\ queue_functors_'[l] = Append(queue_functors_[l], f)
    BY DEF RunInLoop, ThreadsInv, QueuesTyped, CallsTyped, Threads, loopVars
  <2> HIDE DEF f
  <2>2. \A A, B : Ordered(z, A, B) <=> /\ Ordered(a, A, B) /\ ~(f \in A /\ f \in B)
                                       /\ ~(f \in A /\ Has(a, B))
    BY <1>2, <2>1, PostMarks
  <2> QED
    BY <2>2
<1> HIDE DEF h, f, a, z, b, y
<1>7. /\ Once(a, Establish(c)) /\ Once(a, Report(c)) /\ Once(a, Destroy(c))
      /\ Once(a, Unregister(c)) /\ Once(b, Erase(c)) /\ Once(b, Drop(c))
      /\ ~Has(a, Destroy(c)) /\ ~Has(a, Unregister(c))
      /\ Ordered(a, Establish(c), Destroy(c))
  <2>1. /\ Once(a, Establish(c)) /\ Once(a, Report(c)) /\ Once(a, Destroy(c))
        /\ Once(b, Erase(c)) /\ Once(b, Drop(c)) /\ ~Has(a, Destroy(c))
        /\ Ordered(a, Establish(c), Destroy(c))
    BY DEF SoundLife, a, b
  <2>2. Once(a, Unregister(c)) /\ ~Has(a, Unregister(c))
    BY <2>1 DEF Once, Has, Destroy
  <2> QED
    BY <2>1, <2>2
<1>8. /\ Has(z, Establish(c)) <=> Has(a, Establish(c))
      /\ Once(z, Establish(c))
      /\ Has(z, Report(c)) <=> Has(a, Report(c))
      /\ Once(z, Report(c))
      /\ Has(z, Destroy(c)) /\ Once(z, Destroy(c)) /\ ~Has(z, Unregister(c))
  BY <1>3, <1>5, <1>7
<1>9. Ordered(z, Establish(c), Destroy(c))
  <2>1. CASE l # Base
    BY <1>3, <1>6, <1>7, <2>1
  <2>2. CASE l = Base
    <3>1. ~Has(z, Establish(c))
      <4>1. fn # "release" => Down(c)
        BY <1>4 DEF SoundLife, b
      <4>2. ~Has(a, Establish(c))
        BY <2>2, <4>1 DEF SoundLife, a, Down
      <4> QED
        BY <1>8, <4>2
    <3> QED
      BY <3>1, Absent
  <2> QED
    BY <2>1, <2>2
<1>10. /\ Once(y, Erase(c)) /\ Once(y, Drop(c)) /\ ~Has(y, Drop(c))
       /\ Has(y, Erase(c)) <=> fn = "release" /\ Has(b, Erase(c))
  BY <1>3, <1>4, <1>5, <1>7 DEF b
<1>11. /\ Gone(l)' <=> Gone(l)
       /\ conn'[c] = conn[c] /\ (Down(c)' <=> Down(c)) /\ (Ending' <=> Ending)
       /\ ~(Down(c) /\ conn[c].channel.flag = "UNADD")
  BY DEF Gone, loopVars, Down, Ending, SoundLife
<1>12. /\ Has(a, Report(c)) \/ Has(y, Erase(c)) => Down(c) /\ Ending
       /\ ~(Has(a, Report(c)) /\ Has(y, Erase(c)))
  BY <1>4, <1>10 DEF SoundLife, a, b
<1>13. /\ Has(a, Establish(c)) => conn[c].state = "CONNECTING"
       /\ conn[c].state = "CONNECTING" /\ ~Gone(l) => Has(a, Establish(c))
       /\ ~(Down(c) /\ conn[c].channel.flag = "ADDED")
  BY <1>7 DEF SoundLife, a
<1> USE DEF z, a, b, y
<1> QED
  BY <1>7, <1>8, <1>9, <1>10, <1>11, <1>12, <1>13 DEF SoundLife

\* A step on connection c that changes it and what is ahead of it.
LEMMA LifeChange ==
  ASSUME WellUsed, ServerSound, NEW x \in Threads, Local(x), calls[x] # <<>>,
         Head(calls[x]).fn # "handle_error", UNCHANGED <<connections_, loopVars, server>>,
         NEW c \in Own(x), Head(calls[x]).c = c,
         NEW r, conn' = [conn EXCEPT ![c] = r],
         r \in [state : States \ {"none"}, loop : {conn[c].loop}, channel : Channels,
                output : BOOLEAN],
         Past(c) => r.state # "CONNECTING",
         kept' = kept \/ (kept' = kept \cup {c} /\ r.state # "CONNECTING"),
         MayRemove(x, c) \/ (Listening(c) => Listening(c)'),
         SoundChannel(c)', SoundLife(c, x)',
         NEW more, Return(x, more), \A d : d # c => ~Has(more, Tokens(d)),
         more \in Seq(Resting(x)') \/ \E k \in Sound(x)' : more = <<k>>
  PROVE  SoundInv'
<1>1. x \in AllLoops /\ c \in Known /\ c \in Conns /\ conn[c].loop = x
  BY OwnerIsLoop DEF ServerSound, ThreadsInv, Own
<1>2. Growing /\ Known' = Known
  BY <1>1, ConnChanged DEF ServerSound, ThreadsInv, ConnsTyped
<1>3. /\ conn'[c] = r /\ \A d \in Conns : d # c => conn'[d] = conn[d]
      /\ r.loop = conn[c].loop /\ r.state # "none"
  BY <1>1 DEF ServerSound, ThreadsInv, ConnsTyped
<1>4. Changes(c)
  BY <1>3 DEF Changes, Created, Past
<1>5. Steady(x)
  BY <1>1, <1>4, SteadyChange DEF ServerSound, SoundInv, SoundWork
<1>6. SoundWork' /\ KeepsEnds
  BY <1>5, ReturnSound DEF ServerSound, SoundInv
<1>7. more \in Seq(AnyCall)
  <2>1. Sound(x)' \subseteq AnyCall /\ Resting(x)' \subseteq AnyCall
    BY DEF Sound, Resting
  <2>2. \A k \in Sound(x)' : <<k>> \in Seq(AnyCall)
    BY <2>1
  <2> QED
    BY <2>1, <2>2, SeqGrows
<1>8. \A d \in Known : d # c => Head(calls[x]) \notin Tokens(d) /\ conn'[d] = conn[d]
  BY <1>3, OtherCall DEF Known
<1>9. \A d \in Known : d # c => Keeps(d)
  BY <1>5, <1>7, <1>8, KeepsByReturn DEF ServerSound
<1>10. \A l \in AllLoops : l = conn[c].loop => SoundLife(c, l)'
  BY <1>1
<1>11. \A d \in kept' : d \in kept \/ (d = c /\ Past(c)')
  BY <1>3 DEF Past
<1>12. SoundConns'
  BY <1>1, <1>4, <1>6, <1>9, <1>10, <1>11, ConnsKept DEF ServerSound, SoundInv
<1> QED
  BY <1>6, <1>12 DEF SoundInv

\* connect_established finds the connection CONNECTING.
LEMMA EstablishedSound ==
  ASSUME WellUsed, ServerSound, NEW x \in Threads, Local(x), NEW c \in Conns,
         ConnectEstablished(x, c), UNCHANGED serverVars
  PROVE  SoundInv' /\ aborted' = aborted
<1> DEFINE fn == "connect_established"
           r == [conn[c] EXCEPT !.state = "CONNECTED",
                                !.channel = Enable(conn[c].channel, "read")]
           u == UserCallback(c)
<1>1. /\ calls[x] # <<>> /\ Head(calls[x]).fn = fn /\ Head(calls[x]).c = c
      /\ Head(calls[x]) = Call(fn, c) /\ Call(fn, c) \in Sound(x) /\ Executing(x, fn, c)
  BY UnderWay DEF ConnectEstablished
<1>2. c \in Own(x) /\ x \in AllLoops /\ c \in Known /\ conn[c].loop = x
  <2>1. c \in Own(x)
    BY <1>1, OnOwnThread DEF ServerSound, ThreadsInv, OwnCalls, ConnFunctors
  <2> QED
    BY <2>1, OwnerIsLoop DEF ServerSound, ThreadsInv, Own
<1>3. SoundChannel(c) /\ SoundLife(c, x)
  BY <1>2 DEF ServerSound, SoundInv, SoundConns
<1>4. conn[c].state = "CONNECTING"
  <2>1. Has(Agenda(x), Establish(c))
    BY <1>1, <1>2, TokenOf, HeadAhead DEF ServerSound
  <2> QED
    BY <1>3, <2>1 DEF SoundLife
<1>5. /\ conn' = [conn EXCEPT ![c].state = "CONNECTED",
                              ![c].channel = Enable(@, "read")]
      /\ kept' = (IF KeepsRefs THEN kept \cup {c} ELSE kept)
      /\ Return(x, u) /\ UNCHANGED <<connections_, loopVars, server, aborted>>
  BY <1>4 DEF ConnectEstablished, serverVars
<1>6. ~Past(c) /\ conn[c].channel = NewChannel
  BY <1>3, <1>4 DEF SoundChannel, Past
<1>7. /\ Enable(conn[c].channel, "read") \in Channels
      /\ Enable(conn[c].channel, "read").events = {"read"}
      /\ Enable(conn[c].channel, "read").flag = "ADDED"
  <2>1. NewChannel \in Channels /\ NewChannel.events = {}
    BY DEF NewChannel, Channels, Flags
  <2> QED
    BY <1>6, <2>1, ChannelOps, InterestChanged DEF Interest
<1>8. conn' = [conn EXCEPT ![c] = r] /\ conn'[c] = r
  BY <1>5 DEF ServerSound, ThreadsInv, ConnsTyped
<1>9. /\ r \in [state : States \ {"none"}, loop : {conn[c].loop}, channel : Channels,
                output : BOOLEAN]
      /\ r.state = "CONNECTED" /\ r.channel = Enable(conn[c].channel, "read")
  BY <1>7 DEF ServerSound, ThreadsInv, ConnsTyped, States
<1>10. SoundChannel(c)'
  <2>1. /\ conn'[c].state = "CONNECTED" /\ conn'[c].channel.events = {"read"}
        /\ conn'[c].channel.flag = "ADDED"
    BY <1>7, <1>8, <1>9
  <2> QED
    BY <2>1 DEF SoundChannel, Past, Open, Down, IsReading, IsWriting
<1>11. SoundLife(c, x)'
  BY <1>1, <1>2, <1>3, <1>4, <1>5, <1>8, <1>9, EstablishedLife DEF ServerSound
<1>12. ~Listening(c)
  BY <1>4 DEF Listening, Open
<1>13. u \in Seq(Resting(x)')
  <2>1. /\ Call("user", c) \in AnyCall /\ Used("user")
        /\ "user" \notin Later(Ops) \cup StartCalls /\ "user" \in EndCalls
        /\ "user" \in WaitCalls /\ Call("user", c).fn = "user" /\ fn \notin SendCalls
    BY DEF AnyCall, OwnCalls, Call, Used, SendCalls, StopCalls, StartCalls, ForceCalls,
       ShutCalls, OpenCalls, Later, Ops,
     AfterTest, EndCalls, WaitCalls
  <2>2. Past(c)' /\ MayRemove(x, c)'
    <3>1. MayRemove(x, c)
      BY <1>1, <1>2, <2>1, SoundCall
    <3> QED
      BY <1>5, <1>8, <1>9, <3>1 DEF Past, MayRemove, loopVars
  <2>3. Call("user", c) \in Resting(x)'
    BY <2>1, <2>2, SoundCallNext DEF Resting, OpenCalls
  <2> QED
    BY <2>3, Callback
<1>14. \A d : ~Has(u, Tokens(d))
  BY CallbackPlain
<1> HIDE DEF r, u
<1> QED
  BY <1>1, <1>2, <1>5, <1>8, <1>9, <1>6, <1>10, <1>11, <1>12, <1>13, <1>14, LifeChange

\* disable_all takes a channel out of epoll, or, if it was out already, puts it back in
\* without interest.
LEMMA AllDisabled ==
  ASSUME NEW ch \in Channels
  PROVE  /\ DisableAll(ch) \in Channels /\ DisableAll(ch).events = {}
         /\ DisableAll(ch).flag = (IF ch.flag = "ADDED" THEN "DELETED" ELSE "ADDED")
<1>1. DisableAll(ch) \in Channels
  BY ChannelOps DEF Interest
<1>2. ch = [events |-> ch.events, flag |-> ch.flag]
  BY DEF Channels
<1>3. [ch EXCEPT !.events = {}].events = {} /\ [ch EXCEPT !.events = {}].flag = ch.flag
  BY <1>2
<1>4. \A f : /\ [[ch EXCEPT !.events = {}] EXCEPT !.flag = f].events = {}
             /\ [[ch EXCEPT !.events = {}] EXCEPT !.flag = f].flag = f
  BY <1>2
<1> QED
  BY <1>1, <1>3, <1>4 DEF DisableAll, UpdateChannel

\* TakeDown, as a change of one record.
LEMMA TakenDown ==
  ASSUME ThreadsInv, NEW c \in Known, TakeDown(c)
  PROVE  LET r == [conn[c] EXCEPT !.state = "DISCONNECTED",
                                  !.channel = DisableAll(conn[c].channel)]
         IN  /\ conn' = [conn EXCEPT ![c] = r] /\ conn'[c] = r
             /\ r \in [state : States \ {"none"}, loop : {conn[c].loop},
                       channel : Channels, output : BOOLEAN]
             /\ r.state = "DISCONNECTED" /\ r.channel.events = {}
             /\ r.channel.flag = (IF conn[c].channel.flag = "ADDED" THEN "DELETED"
                                  ELSE "ADDED")
<1> DEFINE r == [conn[c] EXCEPT !.state = "DISCONNECTED",
                                !.channel = DisableAll(conn[c].channel)]
<1>1. /\ c \in Conns /\ conn[c].channel \in Channels
      /\ conn[c] \in [state : States, loop : AllLoops, channel : Channels, output : BOOLEAN]
      /\ DOMAIN conn = Conns
  BY DEF Known, ThreadsInv, ConnsTyped
<1>2. conn' = [conn EXCEPT ![c] = r] /\ conn'[c] = r
  BY <1>1 DEF TakeDown, ThreadsInv, ConnsTyped
<1>3. /\ r \in [state : States \ {"none"}, loop : {conn[c].loop}, channel : Channels,
                output : BOOLEAN]
      /\ r.state = "DISCONNECTED" /\ r.channel = DisableAll(conn[c].channel)
  BY <1>1, AllDisabled DEF States
<1>4. /\ DisableAll(conn[c].channel).events = {}
      /\ DisableAll(conn[c].channel).flag =
           (IF conn[c].channel.flag = "ADDED" THEN "DELETED" ELSE "ADDED")
  BY <1>1, AllDisabled
<1> QED
  BY <1>2, <1>3, <1>4

\* handle_close finds the connection open.
LEMMA ClosedSound ==
  ASSUME WellUsed, ServerSound, NEW x \in Threads, Local(x), NEW c \in Conns,
         HandleClose(x, c), UNCHANGED serverVars
  PROVE  SoundInv' /\ aborted' = aborted
<1> DEFINE fn == "handle_close"
           k == Call("remove_connection", c)
           u == Append(UserCallback(c), k)
           r == [conn[c] EXCEPT !.state = "DISCONNECTED",
                                !.channel = DisableAll(conn[c].channel)]
<1>1. /\ fn \in OwnCalls /\ fn \notin EarlyCalls \cup SendCalls \cup EndCalls
      /\ Executing(x, fn, c)
  BY DEF OwnCalls, EarlyCalls, SendCalls, EndCalls, StopCalls, StartCalls, HandleClose
<1>2. /\ c \in Own(x) /\ x \in AllLoops /\ calls[x] # <<>> /\ Head(calls[x]).fn = fn
      /\ Call(fn, c) \in Sound(x) /\ Past(c) /\ SoundLife(c, x) /\ MayRemove(x, c)
  BY <1>1, OwnUnderWay
<1>3. c \in Known /\ Head(calls[x]).c = c /\ Executing(x, fn, c)
  BY <1>1, <1>2, OwnerIsLoop, UnderWay DEF ServerSound, ThreadsInv
<1>4. Listening(c) /\ Open(c) /\ ~(x = Base /\ Ending)
  BY <1>1, <1>2, SoundCall DEF Listening, OpenCalls
<1>5. /\ TakeDown(c) /\ Return(x, u)
      /\ UNCHANGED <<connections_, kept, loopVars, server, aborted>>
  BY <1>4 DEF HandleClose, serverVars
<1>6. /\ conn' = [conn EXCEPT ![c] = r] /\ conn'[c] = r
      /\ r \in [state : States \ {"none"}, loop : {conn[c].loop}, channel : Channels,
                output : BOOLEAN]
      /\ r.state = "DISCONNECTED" /\ r.channel.events = {} /\ r.channel.flag = "DELETED"
  BY <1>3, <1>4, <1>5, TakenDown DEF Listening, ServerSound
<1> HIDE DEF r
<1>7. SoundChannel(c)'
  BY <1>6 DEF SoundChannel, Past, Open, Down
<1>8. Ending \/ c \in connections_
  BY <1>4 DEF Open, ServerSound, SettledInv, MapHeld
<1>9. SoundLife(c, x)'
  BY <1>2, <1>3, <1>4, <1>5, <1>6, <1>8, ClosedLife DEF ServerSound
<1>10. Past(c)' /\ MayRemove(x, c)' /\ ~(x = Base /\ Ending')
  BY <1>2, <1>4, <1>5, <1>6 DEF Past, MayRemove, loopVars, Ending
<1>11. u \in Seq(Resting(x)')
  <2>1. /\ Call("user", c) \in AnyCall /\ Used("user") /\ k \in AnyCall
        /\ Used("remove_connection")
        /\ {"user", "remove_connection"} \cap (Later(Ops) \cup StartCalls) = {}
        /\ {"user", "remove_connection"} \subseteq WaitCalls
        /\ Call("user", c).fn = "user" /\ k.fn = "remove_connection"
    BY DEF AnyCall, OwnCalls, Call, Used, SendCalls, StopCalls, StartCalls, ForceCalls,
       ShutCalls, OpenCalls, Later, Ops,
     AfterTest, WaitCalls
  <2>2. Call("user", c) \in Sound(x)' /\ k \in Sound(x)'
    BY <1>10, <2>1, SoundCallNext DEF OpenCalls
  <2>3. Call("user", c) \in Resting(x)' /\ k \in Resting(x)'
    BY <2>1, <2>2 DEF Resting
  <2> QED
    BY <2>3, Callback
<1>12. \A d : d # c => ~Has(u, Tokens(d))
  <2>1. k \in AnyCall /\ k.c = c
    BY DEF AnyCall, OwnCalls, Call
  <2> QED
    BY <2>1, OtherCall, ThenCall
<1> HIDE DEF u, k
<1> QED
  BY <1>1, <1>2, <1>3, <1>5, <1>6, <1>7, <1>9, <1>11, <1>12, LifeChange

\* connect_destroyed finds the connection CONNECTED or down.
LEMMA DestroyedSound ==
  ASSUME WellUsed, ServerSound, NEW x \in Threads, Local(x), NEW c \in Conns,
         ConnectDestroyed(x, c), UNCHANGED serverVars
  PROVE  SoundInv' /\ aborted' = aborted
<1> DEFINE fn == "connect_destroyed"
           k == Call("remove", c)
           u == Append(UserCallback(c), k)
           r == [conn[c] EXCEPT !.state = "DISCONNECTED",
                                !.channel = DisableAll(conn[c].channel)]
<1>1. /\ calls[x] # <<>> /\ Head(calls[x]).fn = fn /\ Head(calls[x]).c = c
      /\ Head(calls[x]) = Call(fn, c) /\ Call(fn, c) \in Sound(x) /\ Executing(x, fn, c)
      /\ fn \notin SendCalls
  BY UnderWay DEF ConnectDestroyed, SendCalls
<1>2. c \in Own(x) /\ x \in AllLoops /\ c \in Known /\ conn[c].loop = x
  <2>1. c \in Own(x)
    BY <1>1, OnOwnThread DEF ServerSound, ThreadsInv, OwnCalls, ConnFunctors
  <2> QED
    BY <2>1, OwnerIsLoop DEF ServerSound, ThreadsInv, Own
<1>3. SoundChannel(c) /\ SoundLife(c, x) /\ MayRemove(x, c)
  BY <1>1, <1>2, SoundCall DEF ServerSound, SoundInv, SoundConns
<1>4. Has(Agenda(x), Destroy(c)) /\ c \notin connections_
  <2>1. Has(Agenda(x), Destroy(c))
    BY <1>1, <1>2, TokenOf, HeadAhead DEF ServerSound
  <2> QED
    BY <1>3, <2>1 DEF SoundLife
<1>5. conn[c].state \in {"CONNECTED", "DISCONNECTED"}
  <2>1. conn[c].state # "CONNECTING"
    <3>1. ~Gone(x)
      BY <1>1, <1>2, NotGone DEF ServerSound, SoundInv, SoundWork
    <3>2. ~Has(Agenda(x), Establish(c))
      <4> DEFINE h == Head(calls[x])
                 A == Establish(c)
                 B == Destroy(c)
                 a == Agenda(x)
      <4>1. h \notin A /\ h \in B
        BY <1>1, TokenOf
      <4>2. /\ calls[x] \in Seq(AnyCall) /\ Rest(x) \in Seq(AnyCall)
        BY <1>2, AgendaTyped DEF ServerSound, ThreadsInv, CallsTyped, Threads
      <4>3. Ordered(a, A, B) /\ a \in Seq(AnyCall) /\ a[1] = h /\ Len(a) # 0
        BY <1>1, <1>3, <4>2 DEF SoundLife, Agenda
      <4> HIDE DEF h, A, B, a
      <4>4. \A i \in 1..Len(a) : a[i] \in A => i < 1
        <5>1. Len(a) \in Nat
          BY <4>3, LenProperties
        <5>2. 1 \in 1..Len(a)
          BY <4>3, <5>1
        <5> QED
          BY <4>1, <4>3, <5>2 DEF Ordered
      <4> QED
        BY <4>4 DEF Has, a, A
    <3> QED
      BY <1>3, <3>1, <3>2 DEF SoundLife
  <2>2. conn[c].state # "DISCONNECTING"
    BY <1>3, <1>4 DEF SoundLife
  <2>3. conn[c].state \in States /\ conn[c].state # "none"
    BY <1>2 DEF Known, Created, ServerSound, ThreadsInv, ConnsTyped
  <2> QED
    BY <2>1, <2>2, <2>3 DEF States
<1>6. /\ UNCHANGED <<connections_, kept, loopVars, server, aborted>>
      /\ \/ conn[c].state = "CONNECTED" /\ TakeDown(c) /\ Return(x, u)
         \/ conn[c].state # "CONNECTED" /\ UNCHANGED conn /\ Return(x, <<k>>)
  BY DEF ConnectDestroyed, serverVars
<1>7. MayRemove(x, c)'
  BY <1>3, <1>6 DEF MayRemove, loopVars
<1>8. /\ k \in AnyCall /\ k.fn = "remove" /\ k.c = c /\ Used("remove")
      /\ Call("user", c) \in AnyCall /\ Call("user", c).fn = "user" /\ Used("user")
      /\ {"user", "remove"} \cap (Later(Ops) \cup StartCalls) = {}
      /\ {"user", "remove"} \subseteq WaitCalls \cap EndCalls
  BY DEF AnyCall, OwnCalls, Call, Used, SendCalls, StopCalls, StartCalls, ForceCalls,
     ShutCalls, OpenCalls, Later, Ops,
     AfterTest, WaitCalls, EndCalls
<1>9. CASE conn[c].state = "CONNECTED" /\ TakeDown(c) /\ Return(x, u)
  <2>1. /\ conn' = [conn EXCEPT ![c] = r] /\ conn'[c] = r
        /\ r \in [state : States \ {"none"}, loop : {conn[c].loop}, channel : Channels,
                  output : BOOLEAN]
        /\ r.state = "DISCONNECTED" /\ r.channel.events = {} /\ r.channel.flag # "UNADD"
    BY <1>2, <1>9, TakenDown DEF ServerSound
  <2> HIDE DEF r
  <2>2. SoundChannel(c)' /\ Past(c)'
    BY <2>1 DEF SoundChannel, Past, Open, Down
  <2>3. u \in Seq(AnyCall) /\ \A T \in Marks(c) : (Has(u, T) <=> k \in T) /\ Once(u, T)
    BY <1>8, ThenCall
  <2>4. SoundLife(c, x)'
    BY <1>1, <1>2, <1>3, <1>6, <1>9, <2>1, <2>3, DestroyedLife DEF ServerSound
  <2>5. u \in Seq(Resting(x)')
    <3>1. Call("user", c) \in Sound(x)' /\ k \in Sound(x)'
      BY <1>7, <1>8, <2>2, SoundCallNext DEF OpenCalls
    <3>2. Call("user", c) \in Resting(x)' /\ k \in Resting(x)'
      BY <1>8, <3>1 DEF Resting
    <3> QED
      BY <3>2, Callback
  <2>6. \A d : d # c => ~Has(u, Tokens(d))
    BY <1>8, OtherCall, ThenCall
  <2> HIDE DEF u, k
  <2> QED
    BY <1>1, <1>2, <1>3, <1>6, <1>9, <2>1, <2>2, <2>4, <2>5, <2>6, LifeChange
<1>10. CASE conn[c].state # "CONNECTED" /\ UNCHANGED conn /\ Return(x, <<k>>)
  <2> DEFINE q == conn[c]
             m == <<k>>
  <2>1. /\ conn' = [conn EXCEPT ![c] = q] /\ conn'[c] = conn[c]
        /\ q \in [state : States \ {"none"}, loop : {conn[c].loop}, channel : Channels,
                  output : BOOLEAN]
        /\ q.state = "DISCONNECTED" /\ conn[c].state = "DISCONNECTED"
    BY <1>2, <1>5, <1>10 DEF ServerSound, ThreadsInv, ConnsTyped, Known, Created
  <2>2. conn[c].channel.flag # "UNADD"
    BY <1>3, <1>4, <2>1 DEF SoundLife, Down
  <2>3. SoundChannel(c)' /\ Past(c)'
    BY <1>3, <1>10, <2>1 DEF SoundChannel, Past, Open, Down
  <2>4. m \in Seq(AnyCall) /\ \A T : (Has(m, T) <=> k \in T) /\ Once(m, T)
    BY <1>8, Alone
  <2>5. k \in Sound(x)' /\ m = <<k>>
    BY <1>7, <1>8, <2>3, SoundCallNext DEF OpenCalls
  <2>6. \A d : d # c => ~Has(m, Tokens(d))
    BY <1>8, <2>4, OtherCall
  <2>7. Return(x, m)
    BY <1>10
  <2> HIDE DEF m, q
  <2>8. SoundLife(c, x)'
    BY <1>1, <1>2, <1>3, <1>6, <2>1, <2>2, <2>4, <2>7, DestroyedLife DEF ServerSound
  <2> HIDE DEF k
  <2> QED
    BY <1>1, <1>2, <1>3, <1>6, <2>1, <2>3, <2>5, <2>6, <2>7, <2>8, LifeChange
<1> QED
  BY <1>6, <1>9, <1>10

\* Channel::remove finds the channel without interest, and out of the list of those
\* that are being handled.
LEMMA RemovedSound ==
  ASSUME WellUsed, ServerSound, NEW x \in Threads, Local(x), NEW c \in Conns,
         RemoveChannel(x, c), UNCHANGED serverVars
  PROVE  SoundInv' /\ aborted' = aborted
<1> DEFINE fn == "remove"
           r == [conn[c] EXCEPT !.channel = Removed(conn[c].channel)]
<1>1. /\ fn \in OwnCalls /\ fn \notin EarlyCalls \cup SendCalls /\ Executing(x, fn, c)
  BY DEF OwnCalls, EarlyCalls, SendCalls, RemoveChannel
<1>2. /\ c \in Own(x) /\ x \in AllLoops /\ calls[x] # <<>> /\ Head(calls[x]).fn = fn
      /\ Past(c) /\ SoundLife(c, x) /\ SoundChannel(c) /\ MayRemove(x, c)
      /\ conn[c] \in [state : States \ {"none"}, loop : {conn[c].loop},
                      channel : Channels, output : BOOLEAN]
  BY <1>1, OwnUnderWay
<1>3. /\ c \in Known /\ Head(calls[x]).c = c /\ Head(calls[x]) = Call(fn, c)
  BY <1>1, <1>2, OwnerIsLoop, UnderWay DEF ServerSound, ThreadsInv
<1>4. Has(Agenda(x), Unregister(c)) /\ Has(Agenda(x), Destroy(c))
  BY <1>2, <1>3, TokenOf, HeadAhead DEF ServerSound
<1>5. Down(c) /\ conn[c].channel.events = {} /\ conn[c].channel.flag # "UNADD"
  BY <1>2, <1>4 DEF SoundLife, SoundChannel
<1>6. /\ conn' = [conn EXCEPT ![c].channel = Removed(@)] /\ Return(x, <<>>)
      /\ UNCHANGED <<connections_, kept, loopVars, server, aborted>>
  BY <1>2, <1>5 DEF RemoveChannel, Removable, serverVars
<1>7. conn' = [conn EXCEPT ![c] = r] /\ conn'[c] = r
  BY <1>6 DEF ServerSound, ThreadsInv, ConnsTyped
<1>8. Removed(conn[c].channel) \in Channels /\ Removed(conn[c].channel).flag = "UNADD"
      /\ Removed(conn[c].channel).events = {}
  BY <1>2, <1>5 DEF Removed, Channels, Flags
<1>9. /\ r \in [state : States \ {"none"}, loop : {conn[c].loop}, channel : Channels,
                output : BOOLEAN]
      /\ r.state = conn[c].state /\ r.channel = Removed(conn[c].channel)
  BY <1>2, <1>8
<1>10. SoundChannel(c)'
  <2>1. /\ conn'[c].state = "DISCONNECTED" /\ conn'[c].channel.events = {}
    BY <1>5, <1>7, <1>8, <1>9 DEF Down
  <2> QED
    BY <2>1 DEF SoundChannel, Past, Open, Down
<1>11. SoundLife(c, x)'
  BY <1>1, <1>2, <1>6, <1>7, <1>8, <1>9, RemovedLife DEF ServerSound
<1> DEFINE m == <<>>
<1>12. Return(x, m) /\ m \in Seq(Resting(x)') /\ \A d : ~Has(m, Tokens(d))
  BY <1>6 DEF Has
<1>13. r.state # "CONNECTING"
  BY <1>5, <1>9 DEF Down
<1> HIDE DEF r, m
<1> QED
  BY <1>1, <1>2, <1>3, <1>6, <1>7, <1>9, <1>10, <1>11, <1>12, <1>13, LifeChange

\* A step that hands connection c over to another loop, or to the same one.
LEMMA HandedSound ==
  ASSUME WellUsed, ServerSound, NEW x \in Threads, calls[x] # <<>>,
         Head(calls[x]).fn # "handle_error", NEW c \in Known, Head(calls[x]).c = c,
         UNCHANGED <<conn, kept, loopVars, server>>,
         \A d \in Known : d # c => (d \in connections_' <=> d \in connections_),
         NEW m \in AllLoops, NEW f \in AnyCall, f.c = c, RunInLoop(x, m, f),
         x = m => f \in Sound(x), x # m => f \in SoundQueued(m),
         \A l \in AllLoops : l = conn[c].loop => SoundLife(c, l)'
  PROVE  SoundInv'
<1>1. Steady(x)
  BY SteadyQuiet DEF ServerSound, SoundInv, SoundWork
<1>2. SoundQueued(m)' = SoundQueued(m)
  BY DEF SoundQueued, Past
<1>3. SoundWork' /\ KeepsEnds
  BY <1>1, <1>2, SoundSame, RunSound DEF ServerSound, SoundInv
<1>4. \A d \in Known : d # c => Keeps(d)
  BY <1>1, OtherCall, KeepsByRun DEF ServerSound
<1>5. Changes(c)
  BY DEF Changes, Created, Past
<1>6. SoundChannel(c) /\ c \in Conns
  BY DEF ServerSound, SoundInv, SoundConns, Known
<1>7. SoundChannel(c)'
  BY <1>6 DEF SoundChannel, Past, Open, Down
<1>8. SoundConns'
  BY <1>3, <1>4, <1>5, <1>7, ConnsKept DEF ServerSound, SoundInv
<1> QED
  BY <1>3, <1>8 DEF SoundInv

\* remove_connection hands the connection over to the server's loop.
LEMMA ReportedSound ==
  ASSUME WellUsed, ServerSound, NEW x \in Threads, NEW c \in Conns, RemoveConnection(x, c)
  PROVE  SoundInv' /\ aborted' = aborted
<1> DEFINE fn == "remove_connection"
           f == Call("remove_connection_in_loop", c)
<1>1. /\ fn \in OwnCalls /\ fn \notin EarlyCalls \cup SendCalls \cup EndCalls
      /\ Executing(x, fn, c)
  BY DEF OwnCalls, EarlyCalls, SendCalls, EndCalls, StopCalls, StartCalls, RemoveConnection
<1>2. /\ c \in Own(x) /\ x \in AllLoops /\ calls[x] # <<>> /\ Head(calls[x]).fn = fn
      /\ Call(fn, c) \in Sound(x) /\ Past(c) /\ SoundLife(c, x) /\ MayRemove(x, c)
      /\ conn[c].loop = x
  BY <1>1, OwnUnderWay
<1>3. c \in Known /\ Head(calls[x]).c = c /\ Base \in AllLoops
  BY <1>1, <1>2, OwnerIsLoop, UnderWay DEF ServerSound, ThreadsInv, AllLoops
<1>4. /\ UNCHANGED <<conn, kept, loopVars, server, connections_, aborted>>
      /\ RunInLoop(x, Base, f)
  BY DEF RemoveConnection, serverVars
<1>5. /\ f \in AnyCall /\ f.fn = "remove_connection_in_loop" /\ f.c = c /\ Used(f.fn)
      /\ f.fn \notin Later(Ops) \cup StartCalls \cup OpenCalls \cup Raw
      /\ f.fn \notin {"connect_established", "connect_destroyed"}
  BY DEF AnyCall, BaseCalls, Call, Used, SendCalls, StopCalls, StartCalls, ForceCalls,
     ShutCalls, OpenCalls, Later, Ops,
     AfterTest, Raw
<1>6. ~(x = Base /\ Ending)
  BY <1>1, <1>2, SoundCall
<1>7. f \in Sound(x)
  BY <1>2, <1>5, <1>6, SoundCall
<1>8. f \in SoundQueued(Base)
  BY <1>5 DEF SoundQueued
<1>9. SoundLife(c, x)'
  BY <1>1, <1>2, <1>4, ReportedLife DEF ServerSound
<1> HIDE DEF f
<1>10. SoundInv'
  BY <1>1, <1>2, <1>3, <1>4, <1>5, <1>7, <1>8, <1>9, HandedSound
<1> QED
  BY <1>4, <1>10

\* What is ahead of a loop is what is under way, in the batch and in the queue.
LEMMA AgendaWithin ==
  ASSUME ThreadsInv, NEW l \in AllLoops, NEW S, calls[l] \in Seq(S),
         functors[l] \in Seq(S), queue_functors_[l] \in Seq(S)
  PROVE  Agenda(l) \in Seq(S) /\ \A T : S \cap T = {} => ~Has(Agenda(l), T)
<1>1. Batch(l) \in Seq(S)
  <2>1. running[l] \in Nat /\ running[l] <= Len(functors[l]) /\ Len(functors[l]) \in Nat
    BY LenProperties DEF ThreadsInv, LoopsTyped
  <2>2. \A j \in (running[l] + 1)..Len(functors[l]) : functors[l][j] \in S
    BY <2>1, ElementOfSeq
  <2> QED
    BY <2>1, <2>2, SubSeqProperties DEF Batch
<1>2. Agenda(l) \in Seq(S)
  BY <1>1, ConcatProperties DEF Agenda, Rest
<1> QED
  BY <1>2, ElementOfSeq DEF Has

\* While the server lives, no connection is being released.
LEMMA NoDrops ==
  ASSUME ServerSound, ~Ending, NEW c
  PROVE  ~Has(Agenda(Base), Drop(c))
<1> DEFINE S == {k \in AnyCall : k.fn # "release"}
<1>1. Settled \subseteq S /\ Inner \subseteq S /\ S \cap Drop(c) = {}
  BY DEF Settled, Inner, Posting, Drop, Call
<1>2. Base \in AllLoops /\ Base \in Threads
  BY DEF AllLoops, Threads
<1>3. calls[Base] \in Seq(S)
  <2>1. CASE calls[Base] = <<>>
    BY <2>1
  <2>2. CASE calls[Base] # <<>>
    <3>1. Head(calls[Base]) \in S /\ Tail(calls[Base]) \in Seq(Settled)
      BY <1>1, <1>2, <2>2 DEF ServerSound, SettledInv, StacksSettled
    <3>2. Tail(calls[Base]) \in Seq(S)
      BY <1>1, <3>1, SeqGrows
    <3>3. calls[Base] = <<Head(calls[Base])>> \o Tail(calls[Base])
      <4>1. calls[Base] \in Seq(AnyCall)
        BY <1>2 DEF ServerSound, ThreadsInv, CallsTyped
      <4> QED
        BY <2>2, <4>1
    <3>4. <<Head(calls[Base])>> \in Seq(S)
      BY <3>1
    <3> QED
      BY <3>2, <3>3, <3>4, ConcatProperties
  <2> QED
    BY <2>1, <2>2
<1>4. functors[Base] \in Seq(S) /\ queue_functors_[Base] \in Seq(S)
  BY <1>1, <1>2, SeqGrows DEF ServerSound, SettledInv, QueuesSettled
<1> HIDE DEF S
<1> QED
  BY <1>1, <1>2, <1>3, <1>4, AgendaWithin DEF ServerSound

\* At the end of the server, no connection waits to be established on its loop.
LEMMA NoneEstablished ==
  ASSUME ServerSound, Ending, calls[Base] # <<>>, Head(calls[Base]).fn = "release", NEW c
  PROVE  ~Has(Agenda(Base), Establish(c))
<1> DEFINE S == {k \in AnyCall : k.fn # "connect_established"}
<1>1. S \cap Establish(c) = {}
  BY DEF Establish, Call
<1>2. Base \in AllLoops /\ Base \in Threads
  BY DEF AllLoops, Threads
<1>3. Head(calls[Base]) \in S /\ Tail(calls[Base]) \in Seq(Resting(Base))
  <2>1. Head(calls[Base]) \in AnyCall
    BY <1>2, CallUnderWay, MayAny DEF ServerSound, ThreadsInv
  <2> QED
    BY <1>2, <2>1 DEF ServerSound, SoundInv, SoundWork, SoundCalls, SoundStack
<1>4. calls[Base] \in Seq(S)
  <2>1. Resting(Base) \subseteq S
    BY DEF Resting, Sound, WaitCalls
  <2>2. Tail(calls[Base]) \in Seq(S)
    BY <1>3, <2>1, SeqGrows
  <2>3. calls[Base] = <<Head(calls[Base])>> \o Tail(calls[Base])
    <3>1. calls[Base] \in Seq(AnyCall)
      BY <1>2 DEF ServerSound, ThreadsInv, CallsTyped
    <3> QED
      BY <3>1
  <2>4. <<Head(calls[Base])>> \in Seq(S)
    BY <1>3
  <2> QED
    BY <2>2, <2>3, <2>4, ConcatProperties
<1>5. functors[Base] \in Seq(S) /\ queue_functors_[Base] \in Seq(S)
  <2>1. SoundQueued(Base) \subseteq S
    BY DEF SoundQueued
  <2> QED
    BY <1>2, <2>1, SeqGrows DEF ServerSound, SoundInv, SoundWork, SoundQueues
<1> HIDE DEF S
<1> QED
  BY <1>1, <1>2, <1>4, <1>5, AgendaWithin DEF ServerSound

\* A connection that leaves the map is to be destroyed on its loop.
LEMMA UnmappedSound ==
  ASSUME WellUsed, ServerSound, NEW c \in Conns,
         NEW fn \in {"remove_connection_in_loop", "release"}, Executing(Base, fn, c),
         UNCHANGED <<conn, kept, loopVars, server>>, connections_' = connections_ \ {c},
         c \in connections_, conn[c].state # "DISCONNECTING",
         fn = "release" => Ending, fn # "release" => ~Ending,
         RunInLoop(Base, conn[c].loop, Call("connect_destroyed", c))
  PROVE  SoundInv'
<1> DEFINE f == Call("connect_destroyed", c)
<1>1. Base \in AllLoops /\ Base \in Threads
  BY DEF AllLoops, Threads
<1>2. /\ c \in Known /\ calls[Base] # <<>> /\ Head(calls[Base]).fn = fn
      /\ Head(calls[Base]).c = c /\ Call(fn, c) \in Sound(Base)
  BY <1>1, OnServerThread, UnderWay DEF ServerSound, BaseCalls
<1>3. PICK l \in AllLoops : l = conn[c].loop
  BY DEF ServerSound, ThreadsInv, ConnsTyped
<1>4. c \in Own(l) /\ SoundLife(c, l)
  BY <1>2, <1>3 DEF Own, ServerSound, SoundInv, SoundConns
<1>5. RunInLoop(Base, l, f)
  BY <1>3
<1>6. SoundLife(c, l)'
  <2>1. fn = "release" => ~Has(Agenda(Base), Establish(c))
    BY <1>2, NoneEstablished
  <2>2. fn # "release" => ~Has(Agenda(Base), Drop(c))
    BY NoDrops
  <2> QED
    BY <1>4, <1>5, <2>1, <2>2, UnmappedLife DEF ServerSound
<1>7. /\ f \in AnyCall /\ f.fn = "connect_destroyed" /\ f.c = c /\ Used(f.fn)
      /\ f.fn \in EarlyCalls /\ f.fn \in EndCalls
      /\ f.fn \notin Later(Ops) \cup StartCalls \cup OpenCalls \cup Raw
  BY DEF AnyCall, OwnCalls, ConnFunctors, Call, Used, SendCalls, StopCalls, StartCalls,
     ForceCalls, ShutCalls, OpenCalls, Later, Ops,
     AfterTest, Raw, EarlyCalls, EndCalls
<1>8. MayRemove(Base, c)
  BY <1>1, <1>2, SoundCall DEF SendCalls
<1>9. f \in Sound(Base)
  BY <1>7, <1>8, SoundCall
<1>10. Base # l => f \in SoundQueued(l)
  BY <1>7 DEF SoundQueued
<1> HIDE DEF f
<1> QED
  BY <1>1, <1>2, <1>3, <1>5, <1>6, <1>7, <1>9, <1>10, HandedSound
\* remove_connection_in_loop finds the connection in the map.
LEMMA ErasedSound ==
  ASSUME WellUsed, ServerSound, NEW x \in Threads, NEW c \in Conns,
         RemoveConnectionInLoop(x, c)
  PROVE  SoundInv' /\ aborted' = aborted
<1> DEFINE fn == "remove_connection_in_loop"
<1>1. Executing(x, fn, c) /\ fn \in BaseCalls /\ fn \notin EndCalls
  BY DEF RemoveConnectionInLoop, BaseCalls, EndCalls, SendCalls, StopCalls, StartCalls
<1>2. x = Base /\ c \in Known /\ calls[x] # <<>> /\ Call(fn, c) \in Sound(x)
  BY <1>1, OnServerThread, UnderWay DEF ServerSound
<1>3. ~Ending
  BY <1>1, <1>2, SoundCall
<1>4. PICK l \in AllLoops : l = conn[c].loop
  BY DEF ServerSound, ThreadsInv, ConnsTyped
<1>5. SoundLife(c, l)
  BY <1>2, <1>4 DEF Own, ServerSound, SoundInv, SoundConns
<1>6. Has(Agenda(Base), Erase(c))
  <2>1. Head(calls[Base]) \in Erase(c) /\ Base \in AllLoops
    BY <1>1, <1>2 DEF Executing, Erase, AllLoops
  <2> QED
    BY <1>2, <2>1, HeadAhead DEF ServerSound
<1>7. Down(c) /\ c \in connections_
  BY <1>3, <1>5, <1>6 DEF SoundLife
<1>8. /\ UNCHANGED <<conn, kept, loopVars, server, aborted>>
      /\ connections_' = connections_ \ {c}
      /\ RunInLoop(x, conn[c].loop, Call("connect_destroyed", c))
  BY <1>7 DEF RemoveConnectionInLoop, serverVars
<1>9. SoundInv'
  BY <1>1, <1>2, <1>3, <1>7, <1>8, UnmappedSound DEF Down
<1> QED
  BY <1>8, <1>9

\* ~TcpServer hands its connections over to their loops.
LEMMA ReleasedSound ==
  ASSUME WellUsed, ServerSound, NEW x \in Threads, NEW c \in Conns, Release(x, c)
  PROVE  SoundInv' /\ aborted' = aborted
<1> DEFINE fn == "release"
<1>1. Executing(x, fn, c) /\ fn \in BaseCalls
  BY DEF Release, BaseCalls
<1>2. x = Base /\ c \in Known /\ calls[x] # <<>> /\ Call(fn, c) \in Inner
  BY <1>1, OnServerThread, UnderWay DEF ServerSound
<1>3. Ending
  BY <1>2 DEF Inner, Settled, Posting, Call
<1>4. PICK l \in AllLoops : l = conn[c].loop
  BY DEF ServerSound, ThreadsInv, ConnsTyped
<1>5. SoundLife(c, l) /\ SoundChannel(c)
  BY <1>2, <1>4 DEF Own, ServerSound, SoundInv, SoundConns
<1>6. Has(Agenda(Base), Drop(c))
  <2>1. Head(calls[Base]) \in Drop(c) /\ Base \in AllLoops
    BY <1>1, <1>2 DEF Executing, Drop, AllLoops
  <2> QED
    BY <1>2, <2>1, HeadAhead DEF ServerSound
<1>7. c \in connections_
  BY <1>5, <1>6 DEF SoundLife
<1>8. conn[c].state # "DISCONNECTING"
  BY <1>3, <1>5 DEF WellUsed, ServerSound, SoundInv, SoundWork, SoundEnd, SoundChannel
<1>9. SoundInv'
  BY <1>1, <1>2, <1>3, <1>7, <1>8, UnmappedSound DEF Release
<1> QED
  BY <1>9 DEF Release
\* Nothing is ahead of a connection that was not created yet.
LEMMA Untold ==
  ASSUME ThreadsInv, NEW c \in Conns, ~Created(c), NEW l \in AllLoops
  PROVE  \A T \in Marks(c) : ~Has(Agenda(l), T) /\ Once(Agenda(l), T)
<1>1. \A k \in MayCall(l) : k.c # c
  BY AcceptorAssumption DEF MayCall, Known, Own, Call
<1>2. \A T \in Marks(c) : \A k \in T : k.c = c
  BY DEF Marks, Establish, Unregister, Destroy, Report, Erase, Drop, Call
<1>3. Agenda(l) \in Seq(MayCall(l))
  BY AgendaTyped
<1>4. \A i \in 1..Len(Agenda(l)) : Agenda(l)[i] \in MayCall(l)
  BY <1>3, ElementOfSeq
<1>5. \A T \in Marks(c) : ~Has(Agenda(l), T)
  BY <1>1, <1>2, <1>4 DEF Has
<1> QED
  BY <1>5, Absent

\* The life of a connection begins in the map, with connect_established ahead.
LEMMA CreatedLife ==
  ASSUME ThreadsInv, NEW c \in Conns, ~Created(c), calls[Base] # <<>>,
         Head(calls[Base]).fn = "new_connection", UNCHANGED loopVars,
         NEW l \in AllLoops, RunInLoop(Base, l, Call("connect_established", c)),
         conn'[c].state = "CONNECTING", c \in connections_'
  PROVE  SoundLife(c, l)'
<1> DEFINE f == Call("connect_established", c)
           h == Head(calls[Base])
<1>1. Base \in AllLoops /\ f \in AnyCall
  BY DEF AllLoops, AnyCall, OwnCalls, ConnFunctors, Call
<1>2. \A T \in Marks(c) : h \notin T
  BY DEF Marks, Establish, Unregister, Destroy, Report, Erase, Drop, Call
<1>3. \A T \in Marks(c) : f \in T <=> T = Establish(c)
  BY DEF Marks, Establish, Unregister, Destroy, Report, Erase, Drop, Call
<1>4. /\ {Establish(c), Unregister(c), Destroy(c), Report(c), Erase(c), Drop(c)}
           \subseteq Marks(c)
      /\ Establish(c) # Unregister(c) /\ Establish(c) # Destroy(c)
      /\ Establish(c) # Report(c) /\ Establish(c) # Erase(c) /\ Establish(c) # Drop(c)
  <2>1. /\ f \in Establish(c) /\ f \notin Unregister(c) /\ f \notin Destroy(c)
        /\ f \notin Report(c) /\ f \notin Erase(c) /\ f \notin Drop(c)
    BY TokenOf
  <2> QED
    BY <2>1, MarksAreTokens
<1>5. \A T \in Marks(c) :
        /\ ~Has(Agenda(l), T) /\ Once(Agenda(l), T)
        /\ ~Has(Agenda(Base), T) /\ Once(Agenda(Base), T)
  BY <1>1, Untold
<1> HIDE DEF f, h
<1>6. RunInLoop(Base, l, f)
  BY DEF f
<1>7. \A T \in Marks(c) : T # Establish(c) =>
        /\ ~Has(Agenda(l)', T) /\ Once(Agenda(l)', T)
        /\ ~Has(Agenda(Base)', T) /\ Once(Agenda(Base)', T)
  <2> SUFFICES ASSUME NEW T \in Marks(c), T # Establish(c)
               PROVE  /\ ~Has(Agenda(l)', T) /\ Once(Agenda(l)', T)
                      /\ ~Has(Agenda(Base)', T) /\ Once(Agenda(Base)', T)
    OBVIOUS
  <2>1. f \notin T /\ h \notin T
    BY <1>2, <1>3
  <2> QED
    BY <1>1, <1>5, <1>6, <2>1, Handed DEF h
<1>8. Has(Agenda(l)', Establish(c)) /\ Once(Agenda(l)', Establish(c))
  BY <1>1, <1>3, <1>4, <1>5, <1>6, Handed
<1>9. Ordered(Agenda(l)', Establish(c), Destroy(c))
  BY <1>4, <1>7, Absent
<1> QED
  BY <1>4, <1>7, <1>8, <1>9 DEF SoundLife, Down

\* new_connection.
LEMMA CreatedSound ==
  ASSUME WellUsed, ServerSound, NEW x \in Threads, NewConnection(x)
  PROVE  SoundInv' /\ aborted' = aborted
<1>1. /\ x = Base /\ x \in AllLoops /\ calls[x] # <<>>
      /\ Head(calls[x]).fn = "new_connection" /\ Head(calls[x]).c = Acceptor
  BY OnServerThread, UnderWay DEF NewConnection, ServerSound
<1>2. PICK m \in AllLoops : m = NextLoop
  BY NextLoopIsLoop DEF ServerSound, ThreadsInv
<1>3. PICK c \in Fresh :
        /\ conn' = [conn EXCEPT ![c].state = "CONNECTING", ![c].loop = m]
        /\ connections_' = connections_ \cup {c}
        /\ RunInLoop(x, m, Call("connect_established", c))
  BY <1>2 DEF NewConnection
<1>4. UNCHANGED <<kept, server, loopVars, aborted>>
  BY DEF NewConnection
<1>5. /\ c \in Conns /\ ~Created(c) /\ c \notin Known /\ conn[c] = NewConn
      /\ conn'[c] = [NewConn EXCEPT !.state = "CONNECTING", !.loop = m]
      /\ \A d \in Conns : d # c => conn'[d] = conn[d]
  BY <1>3 DEF Fresh, Known, ServerSound, ThreadsInv, ConnsTyped
<1>6. conn'[c].state = "CONNECTING" /\ conn'[c].loop = m /\ conn'[c].channel = NewChannel
  BY <1>5 DEF NewConn
<1>7. \A l \in AllLoops : \A i \in 1..Len(active_channels_[l]) :
        active_channels_[l][i].c # c
  <2> SUFFICES ASSUME NEW l \in AllLoops, NEW i \in 1..Len(active_channels_[l])
               PROVE  active_channels_[l][i].c # c
    OBVIOUS
  <2>1. active_channels_[l][i] \in MayReport(l)
    BY ElementOfSeq DEF ServerSound, ThreadsInv, LoopsTyped
  <2> QED
    BY <1>5, <2>1, AcceptorAssumption DEF MayReport, Own
<1>8. Steady(x)
  <2>1. Local(x) /\ Growing /\ \A d \in Conns : Past(d) => Past(d)'
    BY <1>5 DEF Local, Growing, Created, Past, Known
  <2>2. SoundLists'
    <3> SUFFICES ASSUME NEW l \in AllLoops PROVE SoundList(l)'
      BY DEF SoundLists
    <3>1. SoundList(l) /\ active_channels_' = active_channels_ /\ current' = current
      BY <1>4 DEF loopVars, ServerSound, SoundInv, SoundWork, SoundLists
    <3>2. \A d \in Conns : d # c => (Listening(d) => Listening(d)')
      BY <1>5 DEF Listening, Open
    <3> QED
      BY <1>7, <3>1, <3>2 DEF SoundList
  <2> QED
    BY <1>1, <1>4, <2>1, <2>2 DEF Steady
<1> DEFINE f == Call("connect_established", c)
<1>9. /\ f \in AnyCall /\ f.fn = "connect_established" /\ f.c = c /\ Used(f.fn)
      /\ f.fn \in EarlyCalls
      /\ f.fn \notin Later(Ops) \cup StartCalls \cup OpenCalls \cup Raw
  BY <1>5 DEF AnyCall, OwnCalls, ConnFunctors, Call, Used, SendCalls, StopCalls, StartCalls,
     ForceCalls, ShutCalls, OpenCalls, Later, Ops,
     AfterTest, Raw, EarlyCalls
<1>10. ~Ending
  <2>1. Call("new_connection", Acceptor) \in Sound(x)
    BY UnderWay DEF NewConnection
  <2> QED
    BY <1>1, <2>1, SoundCall DEF EndCalls, SendCalls, StopCalls, StartCalls
<1>11. f \in Sound(x)'
  <2>1. MayRemove(x, c)' /\ ~Ending'
    BY <1>1, <1>4, <1>7, <1>10 DEF MayRemove, loopVars, Ending
  <2> QED
    BY <1>9, <2>1, SoundCallNext
<1>12. x # m => f \in SoundQueued(m)'
  BY <1>1, <1>9 DEF SoundQueued
<1>13. RunInLoop(x, m, f)
  BY <1>3
<1> HIDE DEF f
<1>14. SoundWork' /\ KeepsEnds
  BY <1>1, <1>2, <1>8, <1>11, <1>12, <1>13, RunSound DEF ServerSound, SoundInv
<1>15. \A d \in Conns : SoundChannel(d)'
  <2>1. SoundChannel(c)'
    BY <1>6 DEF SoundChannel, Open, Down, Past
  <2>2. \A d \in Conns : d # c => SoundChannel(d)'
    BY <1>5 DEF SoundChannel, Open, Down, Past, ServerSound, SoundInv, SoundConns
  <2> QED
    BY <2>1, <2>2
<1>16. ASSUME NEW l \in AllLoops, NEW d \in Own(l)' PROVE SoundLife(d, l)'
  <2>1. CASE d = c
    <3>1. l = m
      BY <1>6, <1>16, <2>1 DEF Own
    <3>2. c \in connections_' /\ RunInLoop(Base, l, Call("connect_established", c))
      BY <1>1, <1>3, <3>1
    <3>3. UNCHANGED loopVars
      BY <1>4
    <3>4. SoundLife(c, l)'
      BY <1>1, <1>5, <1>6, <3>2, <3>3, CreatedLife DEF ServerSound
    <3> QED
      BY <2>1, <3>4
  <2>2. CASE d # c
    <3>1. d \in Known /\ d \in Own(l)
      BY <1>5, <1>16, <2>2 DEF Own, Known, Created
    <3>2. Head(calls[x]) \notin Tokens(d) /\ f \notin Tokens(d)
      BY <1>1, <1>9, <2>2, PlainCall, OtherCall DEF TokenFns
    <3>3. conn'[d] = conn[d] /\ (d \in connections_' <=> d \in connections_)
      BY <1>3, <1>5, <2>2, <3>1 DEF Known
    <3>4. Keeps(d)
      BY <1>2, <1>8, <1>9, <1>13, <3>1, <3>2, <3>3, KeepsByRun DEF ServerSound
    <3> QED
      BY <1>14, <3>1, <3>4, LifeKept DEF ServerSound, SoundInv, SoundConns
  <2> QED
    BY <2>1, <2>2
<1>17. \A d \in kept' : Past(d)'
  BY <1>4, <1>8 DEF Steady, ServerSound, SoundInv, SoundConns, ThreadsInv, ConnsTyped, Known
<1> QED
  BY <1>4, <1>14, <1>15, <1>16, <1>17 DEF SoundInv, SoundConns
-----------------------------------------------------------------------------
(* The loops.                                                               *)

\* A step of loop l between calls, which makes the calls s.
LEMMA LoopWork ==
  ASSUME ServerSound, NEW l \in AllLoops, UNCHANGED <<conn, kept, server, quit_flag_>>,
         \A m \in AllLoops : m # l => /\ phase'[m] = phase[m] /\ current'[m] = current[m]
                                     /\ active_channels_'[m] = active_channels_[m],
         NEW s, calls' = [calls EXCEPT ![l] = s], s # <<>> => SoundStack(l)',
         SoundQueues', SoundList(l)',
         phase'[l] = "exited" => s = <<>> /\ (quit_flag_[l] \/ phase[l] = "exited"),
         phase[l] = "exited" => phase'[l] = "exited"
  PROVE  SoundWork'
<1>1. l \in Threads /\ calls \in [Threads -> Seq(AnyCall)]
  BY DEF Threads, ServerSound, ThreadsInv, CallsTyped
<1>2. calls'[l] = s /\ \A y \in Threads : y # l => calls'[y] = calls[y]
  BY <1>1
<1>3. Ending' <=> Ending
  BY DEF Ending
<1>4. \A y \in Threads : y # l => SoundStack(y)'
  BY <1>1, <1>3, OthersKept DEF ServerSound, SoundInv, SoundWork
<1>5. SoundStack(l)'
  BY <1>2 DEF SoundStack
<1>6. SoundLists'
  <2>1. \A m \in AllLoops : m # l => SoundList(m)'
    <3> SUFFICES ASSUME NEW m \in AllLoops, m # l PROVE SoundList(m)'
      OBVIOUS
    <3>1. SoundList(m) /\ active_channels_'[m] = active_channels_[m] /\ current'[m] = current[m]
      BY DEF ServerSound, SoundInv, SoundWork, SoundLists
    <3>2. \A c \in Conns : Listening(c)' <=> Listening(c)
      BY DEF Listening, Open
    <3> QED
      BY <3>1, <3>2 DEF SoundList
  <2> QED
    BY <2>1 DEF SoundLists
<1>7. SoundEnd'
  <2>1. Base \in AllLoops /\ \A m \in AllLoops : m \in Threads
    BY DEF AllLoops, Threads
  <2>2. phase'[Base] = "exited" => quit_flag_'[Base]
    BY <2>1 DEF ServerSound, SoundInv, SoundWork, SoundEnd
  <2>3. Ending' => phase'[Base] = "exited"
    BY <1>3, <2>1 DEF ServerSound, SoundInv, SoundWork, SoundEnd
  <2>4. \A m \in AllLoops : phase'[m] = "exited" =>
          calls'[m] = <<>> \/ (m = Base /\ Ending')
    BY <1>2, <1>3, <2>1 DEF ServerSound, SoundInv, SoundWork, SoundEnd
  <2> QED
    BY <2>2, <2>3, <2>4 DEF ServerSound, SoundInv, SoundWork, SoundEnd
<1> QED
  BY <1>4, <1>5, <1>6, <1>7 DEF SoundWork, SoundCalls

\* A step of loop l that leaves what is ahead of the connections.
LEMMA LoopConns ==
  ASSUME ServerSound, NEW l \in AllLoops, UNCHANGED <<conn, kept, connections_, server>>,
         NEW s, calls' = [calls EXCEPT ![l] = s],
         \A m \in AllLoops : m # l => /\ queue_functors_'[m] = queue_functors_[m]
                                     /\ functors'[m] = functors[m]
                                     /\ running'[m] = running[m],
         \A m \in AllLoops : Gone(m)' <=> Gone(m),
         \A d \in Known : Alike(d, l)
  PROVE  SoundConns'
<1>1. \A m \in AllLoops : m # l => Agenda(m)' = Agenda(m)
  <2> SUFFICES ASSUME NEW m \in AllLoops, m # l PROVE Agenda(m)' = Agenda(m)
    OBVIOUS
  <2>1. calls'[m] = calls[m]
    BY DEF Threads, ServerSound, ThreadsInv, CallsTyped
  <2> QED
    BY <2>1 DEF Agenda, Rest, Batch
<1>2. \A d \in Known : \A m \in AllLoops : Alike(d, m)
  BY <1>1, LeftAlike
<1>3. KeepsEnds
  BY DEF KeepsEnds, Ending
<1>4. \A d \in Known : Keeps(d)
  BY <1>2 DEF Keeps, Known
<1> QED
  BY <1>3, <1>4, ConnsSame DEF ServerSound, SoundInv

\* A loop between calls has no channel to remove ahead of it.
LEMMA NoRemoval ==
  ASSUME ThreadsInv, NEW l \in AllLoops, calls[l] = <<>>, NEW c
  PROVE  ~Has(Agenda(l), Unregister(c)) /\ Agenda(l) = Rest(l)
<1>1. Rest(l) \in Seq(MayQueue(l))
  BY AgendaTyped
<1>2. Agenda(l) = Rest(l)
  BY <1>1 DEF Agenda
<1>3. \A i \in 1..Len(Rest(l)) : Rest(l)[i] \in MayQueue(l)
  BY <1>1, ElementOfSeq
<1>4. Call("remove", c) \notin MayQueue(l)
  BY DEF MayQueue, ConnFunctors, Raw, Call
<1> QED
  BY <1>2, <1>3, <1>4 DEF Has, Unregister

\* What a poll watches is open, and it reads.
LEMMA WatchedListens ==
  ASSUME ServerSound, NEW l \in AllLoops, calls[l] = <<>>, NEW c \in Watched(l)
  PROVE  Listening(c) /\ IsReading(conn[c].channel) /\ c \in Own(l)
<1>1. c \in Conns /\ conn[c].loop = l /\ conn[c].channel.flag = "ADDED"
  BY DEF Watched
<1>2. c \in Own(l)
  BY <1>1 DEF Own, Known, ServerSound, ThreadsInv, ConnsTyped, NewConn, NewChannel
<1>3. SoundChannel(c) /\ SoundLife(c, l)
  BY <1>1, <1>2 DEF ServerSound, SoundInv, SoundConns
<1>4. ~Down(c)
  BY <1>1, <1>3, NoRemoval DEF SoundLife, ServerSound
<1>5. Past(c)
  BY <1>1, <1>3 DEF SoundChannel, NewChannel
<1>6. Open(c)
  BY <1>1, <1>4, <1>5 DEF Open, Down, Past, ServerSound, ThreadsInv, ConnsTyped, States
<1> QED
  BY <1>1, <1>2, <1>3, <1>6 DEF SoundChannel, Listening

\* A poll's list names each channel once, and no connection that hung up and is not read.
LEMMA FoundSound ==
  ASSUME ServerSound, NEW l \in AllLoops, calls[l] = <<>>,
         NEW accepting \in SUBSET {Acceptor}, NEW writable,
         NEW e \in Found(l, accepting, writable), e.c \in Conns
  PROVE  Listening(e.c) /\ ("HUP" \in e.events => "IN" \in e.events)
<1>1. PICK c \in Watched(l) : e = [c |-> c, events |-> Reported(c, c \in writable)]
  BY AcceptorAssumption DEF Found
<1>2. Listening(c) /\ IsReading(conn[c].channel)
  BY WatchedListens
<1>3. "HUP" \in Reported(c, c \in writable) => "IN" \in Reported(c, c \in writable)
  BY <1>2 DEF Reported
<1> QED
  BY <1>1, <1>2, <1>3
\* poll().
LEMMA PollSound ==
  ASSUME WellUsed, ServerSound, NEW l \in AllLoops, PollAccepting(l), UNCHANGED serverVars
  PROVE  SoundInv' /\ aborted' = aborted
<1>1. PICK accepting \in SUBSET {Acceptor} :
        /\ accepting # {} => l = Base
        /\ Poll(l, {[c |-> a, events |-> {"IN"}] : a \in accepting})
  BY DEF PollAccepting
<1>2. PICK writable \in SUBSET Watched(l) :
        LET ready == Found(l, accepting, writable)
        IN  IF Cardinality(ready) >= EventListSize
            THEN Abort("fill_active_channels")
            ELSE /\ \E list \in SetToSeqs(ready) :
                       active_channels_' = [active_channels_ EXCEPT ![l] = list]
                 /\ phase' = [phase EXCEPT ![l] = "events"]
                 /\ current' = [current EXCEPT ![l] = 0]
                 /\ UNCHANGED <<conn, socket, connections_, kept, queue_functors_,
                                functors, running, quit_flag_, calls, log, aborted>>
  BY <1>1 DEF Poll, Found
<1> DEFINE ready == Found(l, accepting, writable)
<1>3. /\ IsFiniteSet(ready) /\ Cardinality(ready) <= Cardinality(Conns) + 1
      /\ \A e, f \in ready : e.c = f.c => e = f
  BY <1>1, FoundReports DEF ServerSound
<1>4. ~(Cardinality(ready) >= EventListSize)
  <2>1. Cardinality(ready) \in Nat /\ Cardinality(Conns) \in Nat /\ EventListSize \in Nat
    BY <1>3, ConfigAssumption, FS_CardinalityType
  <2> HIDE DEF ready
  <2> QED
    BY <1>3, <2>1 DEF WellUsed
<1>5. PICK list \in SetToSeqs(ready) :
        active_channels_' = [active_channels_ EXCEPT ![l] = list]
  BY <1>2, <1>4
<1>6. /\ phase' = [phase EXCEPT ![l] = "events"]
      /\ current' = [current EXCEPT ![l] = 0]
      /\ UNCHANGED <<conn, socket, connections_, kept, queue_functors_,
                     functors, running, quit_flag_, calls, log, aborted>>
  BY <1>2, <1>4
<1>7. phase[l] = "poll" /\ calls[l] = <<>> /\ l \in Threads
  BY <1>1 DEF Poll, Idle, Threads
<1>8. SoundList(l)'
  <2>1. active_channels_'[l] = list /\ current'[l] = 0
    BY <1>5, <1>6 DEF ServerSound, ThreadsInv, LoopsTyped
  <2>2. \A e \in ready : e.c \in Conns =>
          Listening(e.c) /\ ("HUP" \in e.events => "IN" \in e.events)
    BY <1>7, FoundSound
  <2>3. \A d \in Conns : Listening(d)' <=> Listening(d)
    BY <1>6 DEF Listening, Open
  <2> HIDE DEF ready
  <2>4. list \in Seq(ready) /\ \A i, j \in 1..Len(list) : i # j => list[i] # list[j]
    BY <1>3, Listing
  <2>5. \A i \in 1..Len(list) : list[i] \in ready
    BY <2>4, ElementOfSeq
  <2>6. \A i, j \in 1..Len(list) : list[i].c = list[j].c => i = j
    BY <1>3, <2>4, <2>5
  <2> QED
    BY <2>1, <2>2, <2>3, <2>5, <2>6 DEF SoundList
<1> HIDE DEF ready
<1>9. calls' = [calls EXCEPT ![l] = <<>>]
  BY <1>6, <1>7 DEF ServerSound, ThreadsInv, CallsTyped
<1>10. /\ phase'[l] = "events"
       /\ \A m \in AllLoops : m # l => /\ phase'[m] = phase[m] /\ current'[m] = current[m]
                                      /\ active_channels_'[m] = active_channels_[m]
  BY <1>5, <1>6 DEF ServerSound, ThreadsInv, LoopsTyped
<1>11. SoundQueues'
  BY <1>6, QueuesSame DEF ServerSound, SoundInv, SoundWork, Past
<1>12. SoundWork'
  <2> DEFINE s == <<>>
  <2>1. calls' = [calls EXCEPT ![l] = s] /\ (s # <<>> => SoundStack(l)') /\ UNCHANGED server
    BY <1>9 DEF serverVars
  <2> HIDE DEF s
  <2> QED
    BY <1>6, <1>7, <1>8, <1>10, <1>11, <2>1, LoopWork
<1>13. SoundConns'
  <2>1. \A m \in AllLoops : Agenda(m)' = Agenda(m)
    BY <1>6 DEF Agenda, Rest, Batch
  <2>2. \A m \in AllLoops : Gone(m)' <=> Gone(m)
    BY <1>7, <1>10 DEF Gone
  <2> QED
    BY <1>6, <1>9, <2>1, <2>2, LeftAlike, LoopConns DEF serverVars
<1> QED
  BY <1>6, <1>12, <1>13 DEF SoundInv
\* do_queued_functors takes the queue.
LEMMA SwapSound ==
  ASSUME WellUsed, ServerSound, NEW l \in AllLoops, SwapQueue(l), UNCHANGED serverVars
  PROVE  SoundInv' /\ aborted' = aborted
<1>1. /\ phase[l] = "events" /\ calls[l] = <<>> /\ l \in Threads
      /\ UNCHANGED <<conn, kept, connections_, server, quit_flag_, calls, running, aborted>>
  BY DEF SwapQueue, Idle, Threads, serverVars
<1>2. /\ phase' = [phase EXCEPT ![l] = "functors"]
      /\ active_channels_' = [active_channels_ EXCEPT ![l] = <<>>]
      /\ current' = [current EXCEPT ![l] = 0]
      /\ functors' = [functors EXCEPT ![l] = queue_functors_[l]]
      /\ queue_functors_' = [queue_functors_ EXCEPT ![l] = <<>>]
  BY DEF SwapQueue
<1> DEFINE q == queue_functors_[l]
           s == <<>>
<1>3. /\ phase'[l] = "functors" /\ active_channels_'[l] = s /\ functors'[l] = q
      /\ queue_functors_'[l] = s /\ s = <<>> /\ Len(s) = 0
      /\ q \in Seq(AnyCall) /\ running'[l] = 0 /\ running[l] = 0 /\ functors[l] = <<>>
  BY <1>1, <1>2 DEF ServerSound, ThreadsInv, LoopsTyped, QueuesTyped
<1>4. /\ calls' = [calls EXCEPT ![l] = s]
      /\ \A m \in AllLoops : m # l =>
           /\ phase'[m] = phase[m] /\ current'[m] = current[m]
           /\ active_channels_'[m] = active_channels_[m]
           /\ queue_functors_'[m] = queue_functors_[m]
           /\ functors'[m] = functors[m] /\ running'[m] = running[m]
  BY <1>1, <1>2, <1>3 DEF ServerSound, ThreadsInv, CallsTyped, LoopsTyped, QueuesTyped
<1>5. SoundList(l)'
  BY <1>3 DEF SoundList
<1>6. SoundQueues'
  <2> SUFFICES ASSUME NEW m \in AllLoops
               PROVE  /\ queue_functors_'[m] \in Seq(SoundQueued(m)')
                      /\ functors'[m] \in Seq(SoundQueued(m)')
    BY DEF SoundQueues
  <2>1. SoundQueued(m) \subseteq SoundQueued(m)'
    BY <1>1, QueueMore DEF Past
  <2>2. queue_functors_[m] \in Seq(SoundQueued(m)) /\ functors[m] \in Seq(SoundQueued(m))
    BY DEF ServerSound, SoundInv, SoundWork, SoundQueues
  <2>3. /\ queue_functors_[m] \in Seq(SoundQueued(m)')
        /\ functors[m] \in Seq(SoundQueued(m)')
    BY <2>1, <2>2, SeqGrows
  <2>4. <<>> \in Seq(SoundQueued(m)')
    BY EmptySeq
  <2> QED
    BY <1>3, <1>4, <2>3, <2>4
<1>7. Agenda(l)' = Agenda(l)
  <2>1. Agenda(l) = q
    <3>1. Batch(l) = <<>>
      <4>1. SubSeq(<<>>, 1, 0) = <<>>
        OBVIOUS
      <4> QED
        BY <1>3, <4>1 DEF Batch
    <3>2. <<>> \o q = q
      BY <1>3
    <3> QED
      BY <1>1, <3>1, <3>2 DEF Agenda, Rest
  <2>2. Agenda(l)' = q
    <3>1. Batch(l)' = SubSeq(q, 1, Len(q))
      BY <1>3 DEF Batch
    <3>2. SubSeq(q, 1, Len(q)) = q
      <4> HIDE DEF q
      <4> QED
        BY <1>3
    <3>3. calls'[l] = <<>>
      BY <1>1
    <3> HIDE DEF q
    <3>4. <<>> \o (q \o <<>>) = q
      BY <1>3
    <3> QED
      BY <1>3, <3>1, <3>2, <3>3, <3>4 DEF Agenda, Rest
  <2> QED
    BY <2>1, <2>2
<1>8. \A m \in AllLoops : Gone(m)' <=> Gone(m)
  BY <1>1, <1>3, <1>4 DEF Gone
<1> HIDE DEF s
<1>9. SoundWork'
  BY <1>1, <1>3, <1>4, <1>5, <1>6, LoopWork
<1>10. SoundConns'
  BY <1>1, <1>4, <1>7, <1>8, LeftAlike, LoopConns
<1> QED
  BY <1>1, <1>9, <1>10 DEF SoundInv

\* The first of the batch and the rest.
LEMMA FirstOfRest ==
  ASSUME NEW S, NEW s \in Seq(S), NEW r \in Nat, r < Len(s)
  PROVE  /\ SubSeq(s, r + 1, Len(s)) = <<s[r + 1]>> \o SubSeq(s, r + 2, Len(s))
         /\ SubSeq(s, r + 1, Len(s)) \in Seq(S) /\ SubSeq(s, r + 2, Len(s)) \in Seq(S)
         /\ s[r + 1] \in S
<1>1. Len(s) \in Nat /\ \A i \in 1..Len(s) : s[i] \in S
  BY LenProperties, ElementOfSeq
<1> DEFINE a == SubSeq(s, r + 1, Len(s))
           b == SubSeq(s, r + 2, Len(s))
           u == <<s[r + 1]>>
           c == u \o b
<1>2. /\ a \in Seq(S) /\ Len(a) = Len(s) - r
      /\ \A i \in 1..(Len(s) - r) : a[i] = s[r + i]
  BY <1>1, SubSeqProperties
<1>3. /\ b \in Seq(S) /\ Len(b) = Len(s) - r - 1
      /\ \A i \in 1..(Len(s) - r - 1) : b[i] = s[r + 1 + i]
  BY <1>1, SubSeqProperties
<1>4. r + 1 \in 1..Len(s) /\ s[r + 1] \in S
  BY <1>1
<1>5. u \in Seq(S) /\ Len(u) = 1 /\ u[1] = s[r + 1]
  BY <1>4
<1> HIDE DEF a, b, u
<1>7. /\ c \in Seq(S) /\ Len(c) = Len(s) - r
      /\ \A i \in 1..(Len(s) - r) : c[i] = IF i <= 1 THEN u[i] ELSE b[i - 1]
  <2>1. /\ c \in Seq(S) /\ Len(c) = Len(u) + Len(b)
        /\ \A i \in 1..(Len(u) + Len(b)) :
             c[i] = IF i <= Len(u) THEN u[i] ELSE b[i - Len(u)]
    <3>1. u \in Seq(S) /\ b \in Seq(S)
      BY <1>3, <1>5
    <3> QED
      BY <3>1, ConcatProperties, Zenon
  <2>2. Len(u) + Len(b) = Len(s) - r
    BY <1>1, <1>3, <1>5
  <2> QED
    BY <1>5, <2>1, <2>2
<1>8. \A i \in 1..(Len(s) - r) : c[i] = s[r + i]
  <2> SUFFICES ASSUME NEW i \in 1..(Len(s) - r) PROVE c[i] = s[r + i]
    OBVIOUS
  <2>1. CASE i = 1
    BY <1>5, <1>7, <2>1
  <2>2. CASE i # 1
    <3>1. i - 1 \in 1..(Len(s) - r - 1) /\ r + 1 + (i - 1) = r + i
      BY <1>1, <2>2
    <3>2. c[i] = b[i - 1]
      BY <1>1, <1>7, <2>2
    <3> QED
      BY <1>3, <3>1, <3>2
  <2> QED
    BY <2>1, <2>2
<1> HIDE DEF c
<1>6. a = c
  BY <1>1, <1>2, <1>7, <1>8, SeqEqual
<1> QED
  BY <1>2, <1>3, <1>4, <1>6 DEF a, b, c, u
\* A connection whose loop runs, and whose channel did not leave the Poller, is held.
LEMMA LivesOn ==
  ASSUME ServerSound, NEW l \in AllLoops, NEW c \in Own(l), ~Gone(l),
         Down(c) => conn[c].channel.flag # "UNADD"
  PROVE  Alive(c)
<1>1. c \in Known /\ c \in Conns /\ Created(c) /\ SoundLife(c, l)
  BY DEF Own, Known, ServerSound, SoundInv, SoundConns
<1>2. CASE c \in connections_
  BY <1>1, <1>2 DEF Alive
<1>3. CASE Has(Agenda(l), Destroy(c))
  <2> DEFINE S == {k \in MayCall(l) : k \notin Destroy(c)}
  <2>1. l \in Threads
    BY DEF Threads
  <2>2. /\ calls[l] \in Seq(MayCall(l)) /\ queue_functors_[l] \in Seq(MayQueue(l))
        /\ functors[l] \in Seq(MayQueue(l))
    BY <2>1 DEF ServerSound, ThreadsInv, CallsTyped, QueuesTyped, LoopsTyped
  <2>3. ASSUME NEW s, s \in Seq(MayCall(l)), \A i \in 1..Len(s) : s[i] \notin Destroy(c)
        PROVE  s \in Seq(S)
    <3>1. \A i \in 1..Len(s) : s[i] \in S
      BY <2>3, ElementOfSeq
    <3> HIDE DEF S
    <3> QED
      BY <2>3, <3>1
  <2>4. queue_functors_[l] \in Seq(MayCall(l)) /\ functors[l] \in Seq(MayCall(l))
    BY <2>2, QueuedCalls, SeqGrows
  <2>5. S \cap Destroy(c) = {}
    OBVIOUS
  <2> HIDE DEF S
  <2>6. ~(calls[l] \in Seq(S) /\ functors[l] \in Seq(S) /\ queue_functors_[l] \in Seq(S))
    BY <1>3, <2>5, AgendaWithin DEF ServerSound
  <2>7. CASE \E i \in 1..Len(calls[l]) : calls[l][i] \in Destroy(c)
    BY <1>1, <2>1, <2>7 DEF Alive, Destroy, Unregister, Call
  <2>8. ASSUME NEW s, s \in Seq(MayQueue(l)), \E i \in 1..Len(s) : s[i] \in Destroy(c)
        PROVE  Captured(s, c)
    <3>1. PICK i \in 1..Len(s) : s[i] \in Destroy(c)
      BY <2>8
    <3>2. s[i] \in MayQueue(l)
      BY <2>8, ElementOfSeq
    <3>3. s[i].fn = "connect_destroyed" /\ s[i].c = c
      BY <3>1, <3>2 DEF Destroy, Unregister, Call, MayQueue, ConnFunctors, Raw
    <3> QED
      BY <3>3 DEF Captured, Owning
  <2>9. CASE \/ \E i \in 1..Len(queue_functors_[l]) : queue_functors_[l][i] \in Destroy(c)
             \/ \E i \in 1..Len(functors[l]) : functors[l][i] \in Destroy(c)
    BY <1>1, <2>2, <2>8, <2>9 DEF Alive
  <2> QED
    BY <2>2, <2>3, <2>4, <2>6, <2>7, <2>9
<1> QED
  BY <1>1, <1>2, <1>3 DEF SoundLife

\* What is left of a batch was in it.
LEMMA BatchHas ==
  ASSUME ThreadsInv, NEW l \in AllLoops, NEW T, Has(Batch(l), T)
  PROVE  Has(functors[l], T)
<1>1. running[l] \in Nat /\ Len(functors[l]) \in Nat /\ functors[l] \in Seq(AnyCall)
  BY LenProperties DEF ThreadsInv, LoopsTyped
<1>2. \A j \in (running[l] + 1)..Len(functors[l]) :
        j \in 1..Len(functors[l]) /\ functors[l][j] \in AnyCall
  BY <1>1, ElementOfSeq
<1>3. PICK i \in 1..Len(Batch(l)) : Batch(l)[i] \in T
  BY DEF Has
<1>4. /\ i + running[l] \in 1..Len(functors[l])
      /\ Batch(l)[i] = functors[l][running[l] + 1 + i - 1]
  <2> DEFINE F == functors[l]
             m == running[l] + 1
             n == Len(functors[l])
  <2>1. m \in Int /\ n \in Int /\ \A j \in m..n : F[j] \in AnyCall
    BY <1>1, <1>2
  <2>2. Batch(l) = SubSeq(F, m, n)
    BY DEF Batch
  <2> HIDE DEF F, m, n
  <2>3. /\ Len(Batch(l)) = IF m <= n THEN n - m + 1 ELSE 0
        /\ \A j \in 1..(n - m + 1) : Batch(l)[j] = F[m + j - 1]
    BY <2>1, <2>2, SubSeqProperties
  <2> USE DEF F, m, n
  <2>4. i \in 1..(n - m + 1)
    BY <1>1, <1>3, <2>3
  <2> QED
    BY <1>1, <2>3, <2>4, SMTT(30)
<1>5. running[l] + 1 + i - 1 = i + running[l]
  BY <1>1, <1>3
<1> QED
  BY <1>3, <1>4, <1>5 DEF Has

\* A connection whose output callback waits is alive.
LEMMA NoticeAlive ==
  ASSUME WellUsed, ServerSound, TellsOutput, NEW l \in AllLoops, NEW c \in Known, Past(c),
         Has(Rest(l), Notice(c))
  PROVE  Alive(c)
<1>1. c \in Conns /\ Created(c)
  BY DEF Known
<1>2. CASE KeepsRefs /\ ~DropsRefs
  BY <1>1, <1>2 DEF ServerSound, NoticeInv, KeptInv, Alive
<1>3. CASE c \in connections_
  BY <1>1, <1>3 DEF Alive
<1>4. CASE loops_ # <<>> /\ ~ServerDies /\ c \notin connections_
  <2>1. Has(Rest(l), Leaving(c))
    BY <1>1, <1>4 DEF ServerSound, NoticeInv, NoticesInv, Noticed
  <2>2. Has(Batch(l), Leaving(c)) \/ Has(queue_functors_[l], Leaving(c))
    <3>1. Batch(l) \in Seq(AnyCall) /\ queue_functors_[l] \in Seq(AnyCall)
      BY AgendaTyped DEF ServerSound, ThreadsInv, QueuesTyped
    <3>2. \A T : Has(Rest(l), T) <=> Has(Batch(l), T) \/ Has(queue_functors_[l], T)
      BY <3>1, Joined DEF Rest
    <3> QED
      BY <2>1, <3>2
  <2>3. Has(functors[l], Leaving(c)) \/ Has(queue_functors_[l], Leaving(c))
    BY <2>2, BatchHas DEF ServerSound
  <2>4. Captured(functors[l], c) \/ Captured(queue_functors_[l], c)
    BY <2>3 DEF Has, Leaving, Call, Captured, Owning
  <2> QED
    BY <1>1, <2>4 DEF Alive
<1> QED
  BY <1>2, <1>3, <1>4 DEF WellUsed

\* A functor of the batch finds its connection, and may be called.
LEMMA RunFunctorSound ==
  ASSUME WellUsed, ServerSound, NEW l \in AllLoops, RunFunctor(l), UNCHANGED serverVars
  PROVE  SoundInv' /\ aborted' = aborted
<1>1. /\ phase[l] = "functors" /\ calls[l] = <<>> /\ l \in Threads
      /\ running[l] < Len(functors[l]) /\ running[l] \in Nat
      /\ functors[l] \in Seq(MayQueue(l)) /\ functors[l] \in Seq(SoundQueued(l))
      /\ functors[l] \in Seq(Settled) /\ functors[l] \in Seq(AnyCall)
      /\ queue_functors_[l] \in Seq(AnyCall)
  BY DEF RunFunctor, Idle, Threads, ServerSound, ThreadsInv, LoopsTyped, QueuesTyped,
     SoundInv, SoundWork, SoundQueues, SettledInv, QueuesSettled
<1>2. PICK f : f = functors[l][running[l] + 1]
  OBVIOUS
<1>3. f \in MayQueue(l) /\ f \in SoundQueued(l) /\ f \in Settled /\ f \in AnyCall
  BY <1>1, <1>2, FirstOfRest
<1>4. f.c \in Conns /\ f.c \in Known /\ f.fn \in Owning \cup Raw
  BY <1>3 DEF MayQueue, ConnFunctors, Own, Known, Owning
<1>5. Alive(f.c)
  <2>1. CASE f.fn \in Owning
    <3>1. running[l] + 1 \in 1..Len(functors[l])
      BY <1>1, LenProperties
    <3>2. Captured(functors[l], f.c)
      BY <1>2, <2>1, <3>1 DEF Captured
    <3> QED
      BY <1>4, <3>2 DEF Alive, Known
  <2>2. CASE f.fn \in Raw \ {"output_callback"}
    BY <1>3, <1>4, <2>2 DEF SoundQueued, Alive, Known
  <2>3. CASE f.fn = "output_callback"
    <3>1. TellsOutput /\ Past(f.c)
      BY <1>3, <2>3 DEF SoundQueued, Used, Raw
    <3>2. Has(Rest(l), Notice(f.c))
      <4> DEFINE b == SubSeq(functors[l], running[l] + 2, Len(functors[l]))
                 q == queue_functors_[l]
                 u == <<f>>
                 T == Notice(f.c)
      <4>1. Batch(l) = u \o b /\ b \in Seq(AnyCall) /\ Batch(l) \in Seq(AnyCall)
        BY <1>1, <1>2, FirstOfRest DEF Batch
      <4>2. u \in Seq(AnyCall) /\ q \in Seq(AnyCall) /\ Has(u, T)
        <5>1. f \in T
          BY <1>3, <2>3 DEF AnyCall, Notice, Call
        <5> QED
          BY <1>1, <1>3, <5>1, Alone
      <4>3. Rest(l) = Batch(l) \o q
        BY DEF Rest
      <4> HIDE DEF b, q, u, T
      <4>4. Has(u \o b, T)
        <5>1. \A V : Has(u \o b, V) <=> Has(u, V) \/ Has(b, V)
          BY <4>1, <4>2, Joined
        <5> QED
          BY <4>2, <5>1
      <4>5. Has(Batch(l) \o q, T)
        <5>1. \A V : Has(Batch(l) \o q, V) <=> Has(Batch(l), V) \/ Has(q, V)
          BY <4>1, <4>2, Joined
        <5> QED
          BY <4>1, <4>4, <5>1
      <4> QED
        BY <4>3, <4>5 DEF T
    <3> QED
      BY <1>4, <3>1, <3>2, NoticeAlive
  <2> QED
    BY <1>4, <2>1, <2>2, <2>3
<1>6. /\ running' = [running EXCEPT ![l] = @ + 1]
      /\ calls' = [calls EXCEPT ![l] = <<f>>]
      /\ UNCHANGED <<conn, socket, connections_, kept, phase,
                     active_channels_, current, queue_functors_, functors,
                     quit_flag_, log, aborted>>
  BY <1>2, <1>5 DEF RunFunctor
<1>7. f \in Sound(l)'
  <2>1. f = Call(f.fn, f.c)
    BY <1>3 DEF AnyCall, Call
  <2>2. f.fn \notin EarlyCalls => Past(f.c)'
    <3>1. CASE f.fn \in Raw
      <4>1. Past(f.c)
        BY <1>3, <3>1 DEF SoundQueued, ServerSound, SoundInv, SoundConns
      <4> QED
        BY <1>6, <4>1 DEF Past
    <3>2. CASE f.fn \in Owning
      BY <1>3, <1>6, <3>2 DEF Owning, EarlyCalls, Settled, Removing, Down, Past
    <3> QED
      BY <1>4, <3>1, <3>2
  <2>3. MayRemove(l, f.c)' /\ ~(l = Base /\ Ending')
    BY <1>1, <1>6
       DEF MayRemove, Ending, serverVars, ServerSound, SoundInv, SoundWork, SoundEnd
  <2>4. Used(f.fn)
    BY <1>3, <1>4 DEF SoundQueued, Used, Owning, SendCalls, StopCalls, StartCalls,
       ForceCalls, ShutCalls
  <2>5. f.fn \notin Later(Ops) \cup StartCalls \cup OpenCalls
    BY <1>3, <1>4 DEF SoundQueued, Owning, Later, Ops, AfterTest, StartCalls, OpenCalls,
       Raw
  <2> QED
    BY <1>3, <2>2, <2>3, <2>4, <2>5 DEF Sound
<1>8. calls'[l] = <<f>>
  BY <1>1, <1>6 DEF ServerSound, ThreadsInv, CallsTyped
<1>9. SoundStack(l)'
  <2>1. <<>> \in Seq(Resting(l)')
    BY EmptySeq
  <2>2. calls'[l] = <<f>> \o <<>>
    BY <1>8
  <2> DEFINE t == <<>>
  <2>3. t \in Seq(Resting(l)') /\ calls'[l] = <<f>> \o t
    BY <2>1, <2>2
  <2> HIDE DEF t
  <2> QED
    BY <1>7, <2>3, StackOfResting
<1>10. SoundQueues'
  BY <1>6, QueuesSame DEF ServerSound, SoundInv, SoundWork, Past
<1>11. SoundList(l)'
  <2>1. SoundList(l)
    BY DEF ServerSound, SoundInv, SoundWork, SoundLists
  <2>2. \A d \in Conns : Listening(d)' <=> Listening(d)
    BY <1>6 DEF Listening, Open
  <2> QED
    BY <1>6, <2>1, <2>2 DEF SoundList
<1>12. Agenda(l)' = Agenda(l)
  <2> DEFINE b == SubSeq(functors[l], running[l] + 2, Len(functors[l]))
             q == queue_functors_[l]
  <2>1. Batch(l) = <<f>> \o b /\ b \in Seq(AnyCall) /\ Batch(l) \in Seq(AnyCall)
    BY <1>1, <1>2, FirstOfRest DEF Batch
  <2>2. Batch(l)' = b
    <3>1. running'[l] = running[l] + 1 /\ functors' = functors
      BY <1>6 DEF ServerSound, ThreadsInv, LoopsTyped
    <3>2. running[l] + 1 + 1 = running[l] + 2
      BY <1>1
    <3> QED
      BY <3>1, <3>2 DEF Batch
  <2> HIDE DEF b
  <2>3. Agenda(l) = (<<f>> \o b) \o q
    <3>1. <<>> \o ((<<f>> \o b) \o q) = (<<f>> \o b) \o q
      <4> DEFINE z == (<<f>> \o b) \o q
      <4>1. z \in Seq(AnyCall)
        BY <1>1, <2>1, ConcatProperties
      <4> HIDE DEF z
      <4>2. <<>> \o z = z
        BY <4>1
      <4> QED
        BY <4>2 DEF z
    <3> QED
      BY <1>1, <2>1, <3>1 DEF Agenda, Rest
  <2>4. Agenda(l)' = <<f>> \o (b \o q)
    BY <1>6, <1>8, <2>2 DEF Agenda, Rest
  <2>5. (<<f>> \o b) \o q = <<f>> \o (b \o q)
    <3>1. <<f>> \in Seq(AnyCall) /\ q \in Seq(AnyCall)
      BY <1>1, <1>3
    <3> DEFINE u == <<f>>
    <3> HIDE DEF q, u
    <3>2. u \in Seq(AnyCall) /\ q \in Seq(AnyCall)
      BY <3>1 DEF u
    <3>3. (u \o b) \o q = u \o (b \o q)
      BY <2>1, <3>2, ConcatAssociative, SMTT(30)
    <3> QED
      BY <3>3 DEF u
  <2> QED
    BY <2>3, <2>4, <2>5
<1>13. \A m \in AllLoops : Gone(m)' <=> Gone(m)
  BY <1>6 DEF Gone
<1>14. SoundWork'
  <2> DEFINE s == <<f>>
  <2>1. calls' = [calls EXCEPT ![l] = s] /\ UNCHANGED server
    BY <1>6 DEF serverVars
  <2> HIDE DEF s
  <2> QED
    BY <1>1, <1>6, <1>9, <1>10, <1>11, <2>1, LoopWork
<1>15. SoundConns'
  <2>1. \A m \in AllLoops : m # l => running'[m] = running[m]
    BY <1>6 DEF ServerSound, ThreadsInv, LoopsTyped
  <2>2. UNCHANGED server
    BY DEF serverVars
  <2> QED
    BY <1>6, <1>12, <1>13, <2>1, <2>2, LeftAlike, LoopConns
<1> QED
  BY <1>6, <1>14, <1>15 DEF SoundInv
\* Nothing of what is ahead on another loop changes what is ahead of a connection.
LEMMA LifeSame ==
  ASSUME NEW c, NEW l, SoundLife(c, l), UNCHANGED <<conn, connections_>>, Ending' <=> Ending,
         Agenda(l)' = Agenda(l), Agenda(Base)' = Agenda(Base), Gone(l)' <=> Gone(l)
  PROVE  SoundLife(c, l)'
<1>1. Down(c)' <=> Down(c)
  BY DEF Down
<1> QED
  BY <1>1 DEF SoundLife

\* What a loop has ahead once its batch is done is its queue.
LEMMA BatchDone ==
  ASSUME ThreadsInv, NEW l \in AllLoops, calls[l] = <<>>,
         running[l] = Len(functors[l])
  PROVE  Agenda(l) = queue_functors_[l]
<1>1. Len(functors[l]) \in Nat
  BY LenProperties DEF ThreadsInv, LoopsTyped
<1> DEFINE n == Len(functors[l])
           F == functors[l]
           q == queue_functors_[l]
<1>2. n \in Int /\ n + 1 \in Int /\ n < n + 1 /\ q \in Seq(AnyCall)
  BY <1>1 DEF ThreadsInv, QueuesTyped
<1>3. Batch(l) = SubSeq(F, n + 1, n)
  BY DEF Batch
<1>4. Agenda(l) = <<>> \o (Batch(l) \o q)
  BY DEF Agenda, Rest
<1> HIDE DEF n, F, q
<1>5. SubSeq(F, n + 1, n) = <<>>
  BY <1>2, SubSeqEmpty
<1>6. <<>> \o q = q
  BY <1>2
<1> QED
  BY <1>3, <1>4, <1>5, <1>6 DEF q

\* The batch is destroyed; a loop of the pool may end here, and its queue with it.
LEMMA DoneSound ==
  ASSUME WellUsed, ServerSound, NEW l \in AllLoops, FunctorsDone(l), UNCHANGED serverVars
  PROVE  SoundInv' /\ aborted' = aborted
<1>1. /\ phase[l] = "functors" /\ calls[l] = <<>> /\ l \in Threads
      /\ running[l] = Len(functors[l])
      /\ UNCHANGED <<conn, kept, connections_, server, quit_flag_, calls, current,
                     active_channels_, aborted>>
  BY DEF FunctorsDone, Idle, Threads, serverVars
<1>2. /\ functors' = [functors EXCEPT ![l] = <<>>]
      /\ running' = [running EXCEPT ![l] = 0]
      /\ phase' = [phase EXCEPT ![l] = IF quit_flag_[l] THEN "exited" ELSE "poll"]
      /\ queue_functors_' = IF quit_flag_[l] /\ l # Base
                            THEN [queue_functors_ EXCEPT ![l] = <<>>] ELSE queue_functors_
  BY DEF FunctorsDone
<1> DEFINE q == queue_functors_[l]
           s == <<>>
<1>3. /\ phase'[l] = (IF quit_flag_[l] THEN "exited" ELSE "poll") /\ functors'[l] = s
      /\ running'[l] = 0 /\ s = <<>> /\ Len(s) = 0 /\ q \in Seq(AnyCall)
      /\ queue_functors_'[l] = IF quit_flag_[l] /\ l # Base THEN s ELSE q
  BY <1>2 DEF ServerSound, ThreadsInv, LoopsTyped, QueuesTyped
<1>4. /\ calls' = [calls EXCEPT ![l] = s]
      /\ \A m \in AllLoops : m # l =>
           /\ phase'[m] = phase[m] /\ current'[m] = current[m]
           /\ active_channels_'[m] = active_channels_[m]
           /\ queue_functors_'[m] = queue_functors_[m]
           /\ functors'[m] = functors[m] /\ running'[m] = running[m]
  BY <1>1, <1>2, <1>3 DEF ServerSound, ThreadsInv, CallsTyped, LoopsTyped, QueuesTyped
<1>5. SoundList(l)'
  <2>1. SoundList(l)
    BY DEF ServerSound, SoundInv, SoundWork, SoundLists
  <2>2. \A d \in Conns : Listening(d)' <=> Listening(d)
    BY <1>1 DEF Listening, Open
  <2> QED
    BY <1>1, <2>1, <2>2 DEF SoundList
<1>6. SoundQueues'
  <2> SUFFICES ASSUME NEW m \in AllLoops
               PROVE  /\ queue_functors_'[m] \in Seq(SoundQueued(m)')
                      /\ functors'[m] \in Seq(SoundQueued(m)')
    BY DEF SoundQueues
  <2>1. SoundQueued(m) \subseteq SoundQueued(m)'
    BY <1>1, QueueMore DEF Past
  <2>2. queue_functors_[m] \in Seq(SoundQueued(m)) /\ functors[m] \in Seq(SoundQueued(m))
    BY DEF ServerSound, SoundInv, SoundWork, SoundQueues
  <2>3. /\ queue_functors_[m] \in Seq(SoundQueued(m)')
        /\ functors[m] \in Seq(SoundQueued(m)')
    BY <2>1, <2>2, SeqGrows
  <2>4. <<>> \in Seq(SoundQueued(m)')
    BY EmptySeq
  <2> QED
    BY <1>3, <1>4, <2>3, <2>4
<1>7. Agenda(l) = q
  BY <1>1, BatchDone DEF ServerSound
<1>8. Agenda(l)' = queue_functors_'[l]
  <2>1. Batch(l)' = <<>>
    <3>1. SubSeq(<<>>, 1, 0) = <<>>
      OBVIOUS
    <3> QED
      BY <1>3, <3>1 DEF Batch
  <2>2. calls'[l] = <<>>
    BY <1>1
  <2>3. queue_functors_'[l] \in Seq(AnyCall)
    BY <1>3
  <2> HIDE DEF q, s
  <2>4. <<>> \o (<<>> \o queue_functors_'[l]) = queue_functors_'[l]
    BY <2>3
  <2> QED
    BY <2>1, <2>2, <2>4 DEF Agenda, Rest
<1> HIDE DEF s
<1>9. SoundWork'
  BY <1>1, <1>3, <1>4, <1>5, <1>6, LoopWork
<1>10. CASE ~(quit_flag_[l] /\ l # Base)
  <2>1. \A m \in AllLoops : Gone(m)' <=> Gone(m)
    BY <1>1, <1>3, <1>4, <1>10 DEF Gone
  <2>2. Agenda(l)' = Agenda(l)
    BY <1>3, <1>7, <1>8, <1>10
  <2>3. SoundConns'
    BY <1>1, <1>4, <2>1, <2>2, LeftAlike, LoopConns
  <2> QED
    BY <1>1, <1>9, <2>3 DEF SoundInv
<1>11. CASE quit_flag_[l] /\ l # Base
  <2>1. Agenda(l)' = <<>> /\ Gone(l)'
    BY <1>3, <1>8, <1>11 DEF Gone
  <2>2. \A m \in AllLoops : m # l => Agenda(m)' = Agenda(m) /\ (Gone(m)' <=> Gone(m))
    BY <1>1, <1>4 DEF Agenda, Rest, Batch, Gone
  <2>3. Base \in AllLoops /\ Agenda(Base)' = Agenda(Base) /\ (Ending' <=> Ending)
    BY <1>1, <1>11, <2>2 DEF AllLoops, Ending
  <2>4. ASSUME NEW d \in Own(l) PROVE SoundLife(d, l)'
    <3>1. SoundLife(d, l) /\ ~Has(Agenda(l), Unregister(d))
      BY <1>1, NoRemoval DEF ServerSound, SoundInv, SoundConns
    <3>2. Down(d)' <=> Down(d)
      BY <1>1 DEF Down
    <3>3. \A T : ~Has(Agenda(l)', T) /\ Once(Agenda(l)', T)
      BY <2>1, Alone
    <3>4. Ordered(Agenda(l)', Establish(d), Destroy(d))
      BY <3>3, Absent
    <3> QED
      BY <1>1, <2>1, <2>3, <3>1, <3>2, <3>3, <3>4 DEF SoundLife
  <2>5. ASSUME NEW m \in AllLoops, NEW d \in Own(m), m # l PROVE SoundLife(d, m)'
    <3>1. SoundLife(d, m) /\ Agenda(m)' = Agenda(m) /\ (Gone(m)' <=> Gone(m))
      BY <2>2, <2>5 DEF ServerSound, SoundInv, SoundConns
    <3> QED
      BY <1>1, <2>3, <3>1, LifeSame
  <2>6. \A m \in AllLoops : \A d \in Own(m)' : SoundLife(d, m)'
    BY <1>1, <2>4, <2>5 DEF Own, Known, Created
  <2>7. \A d \in Conns : SoundChannel(d)' /\ (Past(d)' <=> Past(d))
    BY <1>1 DEF ServerSound, SoundInv, SoundConns, SoundChannel, Past, Open, Down
  <2>8. kept' \subseteq Conns
    BY <1>1 DEF ServerSound, ThreadsInv, ConnsTyped, Known
  <2>9. SoundConns'
    BY <1>1, <2>6, <2>7, <2>8 DEF ServerSound, SoundInv, SoundConns
  <2> QED
    BY <1>1, <1>9, <2>9 DEF SoundInv
<1> QED
  BY <1>10, <1>11
\* The loop begins with handlers that concern the life of no connection.
LEMMA DispatchSound ==
  ASSUME ServerSound, NEW l \in AllLoops, Handling(l), NEW s, s \in Seq(AnyCall),
         Dispatches(l, s), s # <<>> => SoundStack(l)', UNCHANGED serverVars,
         \A i \in 1..Len(s) : s[i].fn \notin TokenFns
  PROVE  SoundInv' /\ aborted' = aborted
<1>1. /\ phase[l] = "events" /\ calls[l] = <<>> /\ l \in Threads
      /\ UNCHANGED <<conn, kept, connections_, server, quit_flag_, phase, queue_functors_,
                     functors, running, active_channels_, aborted>>
      /\ calls' = [calls EXCEPT ![l] = s]
      /\ current' = [current EXCEPT ![l] = @ + 1]
  BY DEF Handling, Dispatches, Idle, Threads, serverVars
<1>2. calls'[l] = s /\ current'[l] = current[l] + 1 /\ current[l] \in Nat
  BY <1>1 DEF ServerSound, ThreadsInv, CallsTyped, LoopsTyped
<1>3. \A m \in AllLoops : m # l => /\ phase'[m] = phase[m] /\ current'[m] = current[m]
                                  /\ active_channels_'[m] = active_channels_[m]
  BY <1>1 DEF ServerSound, ThreadsInv, LoopsTyped
<1>4. SoundList(l)'
  <2>1. SoundList(l) /\ active_channels_'[l] = active_channels_[l]
    BY <1>1 DEF ServerSound, SoundInv, SoundWork, SoundLists
  <2>2. \A d \in Conns : Listening(d)' <=> Listening(d)
    BY <1>1 DEF Listening, Open
  <2>3. \A i \in 1..Len(active_channels_[l]) : i > current'[l] => i > current[l]
    <3>1. Len(active_channels_[l]) \in Nat
      BY LenProperties DEF ServerSound, ThreadsInv, LoopsTyped
    <3> QED
      BY <1>2, <3>1
  <2> QED
    BY <2>1, <2>2, <2>3 DEF SoundList
<1>5. SoundQueues'
  BY <1>1, QueuesSame DEF ServerSound, SoundInv, SoundWork, Past
<1>6. SoundWork'
  BY <1>1, <1>3, <1>4, <1>5, LoopWork
<1>7. ASSUME NEW d \in Known PROVE Alike(d, l)
  <2>1. Rest(l) \in Seq(AnyCall) /\ Agenda(l) = Rest(l) /\ Agenda(l)' = s \o Rest(l)
    <3>1. Rest(l)' = Rest(l)
      BY <1>1 DEF Rest, Batch
    <3> QED
      BY <1>1, <1>2, <3>1, AgendaTyped, NoRemoval DEF Agenda, ServerSound
  <2>2. \A T \in Marks(d) : ~Has(s, T) /\ Once(s, T)
    <3>1. ~Has(s, Tokens(d))
      BY PlainSequence
    <3>2. \A T \in Marks(d) : ~Has(s, T)
      BY <3>1, MarksAreTokens DEF Has
    <3> QED
      BY <3>2, Absent
  <2>3. Establish(d) \in Marks(d) /\ Destroy(d) \in Marks(d)
    BY MarksAreTokens
  <2>4. Ordered(s, Establish(d), Destroy(d))
    BY <2>2, <2>3, Absent
  <2>5. /\ \A T \in Marks(d) : /\ Has(s \o Rest(l), T) <=> Has(Rest(l), T)
                               /\ Once(s \o Rest(l), T) <=> Once(Rest(l), T)
        /\ Ordered(s \o Rest(l), Establish(d), Destroy(d))
             <=> Ordered(Rest(l), Establish(d), Destroy(d))
    BY <2>1, <2>2, <2>3, <2>4, Joined
  <2> QED
    BY <2>1, <2>5 DEF Alike
<1>8. \A m \in AllLoops : Gone(m)' <=> Gone(m)
  BY <1>1 DEF Gone
<1>9. SoundConns'
  BY <1>1, <1>7, <1>8, LoopConns
<1> QED
  BY <1>1, <1>6, <1>9 DEF SoundInv

\* The entry that is handled next.
LEMMA NextReport ==
  ASSUME ThreadsInv, NEW l \in AllLoops, Handling(l), NEW s, Dispatches(l, s)
  PROVE  /\ NextActive(l) \in MayReport(l)
         /\ current[l] + 1 \in 1..Len(active_channels_[l]) /\ current[l] + 1 > current[l]
         /\ \A c : c = NextActive(l).c => MayRemove(l, c)'
<1>1. Len(active_channels_[l]) \in Nat /\ current[l] \in Nat
  BY LenProperties DEF ThreadsInv, LoopsTyped
<1>2. current[l] + 1 \in 1..Len(active_channels_[l]) /\ current[l] + 1 > current[l]
  BY <1>1 DEF Handling
<1>3. NextActive(l) \in MayReport(l)
  BY <1>2, ElementOfSeq DEF NextActive, ThreadsInv, LoopsTyped
<1>4. current'[l] = current[l] + 1 /\ active_channels_' = active_channels_
  BY DEF Dispatches, ThreadsInv, LoopsTyped
<1> QED
  BY <1>1, <1>2, <1>3, <1>4 DEF MayRemove, NextActive
\* The Acceptor's channel.
LEMMA AcceptSound ==
  ASSUME WellUsed, ServerSound, NEW l \in AllLoops, HandleAccept(l), UNCHANGED serverVars
  PROVE  SoundInv' /\ aborted' = aborted
<1> DEFINE k == Call("new_connection", Acceptor)
           s == <<k>>
<1>1. Handling(l) /\ NextActive(l).c = Acceptor /\ Dispatches(l, s) /\ l \in Threads
  BY DEF HandleAccept, Threads
<1>2. MayRemove(l, Acceptor)'
  BY <1>1, NextReport DEF ServerSound
<1>3. ~(l = Base /\ Ending')
  BY <1>1 DEF Handling, Ending, serverVars, ServerSound, SoundInv, SoundWork, SoundEnd
<1>4. k \in AnyCall /\ k.fn \notin TokenFns
  BY DEF AnyCall, Call, TokenFns
<1>5. k \in Sound(l)'
  <2>1. /\ Used("new_connection") /\ "new_connection" \in EarlyCalls
        /\ "new_connection" \notin Later(Ops) \cup StartCalls \cup OpenCalls
    BY DEF Used, SendCalls, StopCalls, StartCalls, ForceCalls, ShutCalls, EarlyCalls,
       OpenCalls, Later, Ops, AfterTest
  <2> QED
    BY <1>2, <1>3, <1>4, <2>1, SoundCallNext
<1> HIDE DEF k
<1>6. calls'[l] = s
  BY <1>1 DEF Dispatches, ServerSound, ThreadsInv, CallsTyped
<1>7. SoundStack(l)'
  <2> DEFINE t == <<>>
  <2>1. t \in Seq(Resting(l)')
    BY EmptySeq
  <2>2. calls'[l] = <<k>> \o t
    BY <1>6
  <2> HIDE DEF t
  <2> QED
    BY <1>5, <2>1, <2>2, StackOfResting
<1>8. s \in Seq(AnyCall) /\ \A i \in 1..Len(s) : s[i].fn \notin TokenFns
  BY <1>4
<1> HIDE DEF s
<1> QED
  BY <1>1, <1>7, <1>8, DispatchSound

\* Short sequences in a row.
LEMMA InARow ==
  ASSUME NEW S, NEW a \in S, NEW b \in S
  PROVE  <<a>> \o <<b>> = <<a, b>> /\ \A c \in S : <<a, b>> \o <<c>> = <<a, b, c>>
<1>1. ASSUME NEW s \in Seq(S), NEW t \in Seq(S), NEW u \in Seq(S),
             Len(u) = Len(s) + Len(t),
             \A i \in 1..Len(u) : u[i] = IF i <= Len(s) THEN s[i] ELSE t[i - Len(s)]
      PROVE  s \o t = u
  <2>1. /\ s \o t \in Seq(S) /\ Len(s \o t) = Len(s) + Len(t)
        /\ \A i \in 1..(Len(s) + Len(t)) :
             (s \o t)[i] = IF i <= Len(s) THEN s[i] ELSE t[i - Len(s)]
    BY ConcatProperties, Zenon
  <2> DEFINE st == s \o t
  <2>2. st \in Seq(S) /\ Len(st) = Len(u) /\ \A i \in 1..Len(st) : st[i] = u[i]
    BY <1>1, <2>1
  <2> HIDE DEF st
  <2>3. st = u
    BY <2>2, SeqEqual
  <2> QED
    BY <2>3 DEF st
<1>2. <<a>> \o <<b>> = <<a, b>>
  <2> DEFINE s == <<a>>
             t == <<b>>
             u == <<a, b>>
  <2>1. /\ s \in Seq(S) /\ t \in Seq(S) /\ u \in Seq(S) /\ Len(s) = 1 /\ Len(t) = 1
        /\ Len(u) = 2 /\ u[1] = s[1] /\ u[2] = t[1]
    OBVIOUS
  <2> HIDE DEF s, t, u
  <2>2. \A i \in 1..Len(u) : u[i] = IF i <= Len(s) THEN s[i] ELSE t[i - Len(s)]
    BY <2>1
  <2>3. Len(u) = Len(s) + Len(t)
    BY <2>1
  <2>4. s \in Seq(S) /\ t \in Seq(S) /\ u \in Seq(S)
    BY <2>1
  <2>5. s \o t = u
    BY <1>1, <2>2, <2>3, <2>4, Zenon
  <2> QED
    BY <2>5 DEF s, t, u
<1>3. ASSUME NEW c \in S PROVE <<a, b>> \o <<c>> = <<a, b, c>>
  <2> DEFINE s == <<a, b>>
             t == <<c>>
             u == <<a, b, c>>
  <2>1. /\ s \in Seq(S) /\ t \in Seq(S) /\ u \in Seq(S) /\ Len(s) = 2 /\ Len(t) = 1
        /\ Len(u) = 3 /\ u[1] = s[1] /\ u[2] = s[2] /\ u[3] = t[1]
    BY <1>3
  <2> HIDE DEF s, t, u
  <2>2. \A i \in 1..Len(u) : u[i] = IF i <= Len(s) THEN s[i] ELSE t[i - Len(s)]
    BY <2>1
  <2>3. Len(u) = Len(s) + Len(t)
    BY <2>1
  <2>4. s \in Seq(S) /\ t \in Seq(S) /\ u \in Seq(S)
    BY <2>1
  <2>5. s \o t = u
    BY <1>1, <2>2, <2>3, <2>4, Zenon
  <2> QED
    BY <2>5 DEF s, t, u
<1> QED
  BY <1>2, <1>3

\* A connection that hung up and is read is handled by handle_read.
LEMMA HandlersOf ==
  ASSUME NEW active, "HUP" \in active => "IN" \in active
  PROVE  Dispatch(active) \in
           {<<>>, <<"handle_error">>, <<"handle_read">>, <<"handle_write">>,
            <<"handle_error", "handle_read">>, <<"handle_error", "handle_write">>,
            <<"handle_read", "handle_write">>,
            <<"handle_error", "handle_read", "handle_write">>}
<1> DEFINE S == {"handle_error", "handle_read", "handle_write"}
           none == <<>>
           e == IF "ERR" \in active THEN <<"handle_error">> ELSE none
           r == IF {"IN", "HUP"} \cap active # {} THEN <<"handle_read">> ELSE none
           w == IF "OUT" \in active THEN <<"handle_write">> ELSE none
<1>1. Dispatch(active) = none \o e \o r \o w
  BY DEF Dispatch
<1>2. /\ none \in Seq(S) /\ e \in Seq(S) /\ r \in Seq(S) /\ w \in Seq(S)
      /\ none = <<>>
  BY EmptySeq, SMTT(30)
<1>3. (e = none \/ e = <<"handle_error">>) /\ (r = none \/ r = <<"handle_read">>)
      /\ (w = none \/ w = <<"handle_write">>)
  OBVIOUS
<1>4. /\ <<"handle_error">> \o <<"handle_read">> = <<"handle_error", "handle_read">>
      /\ <<"handle_error">> \o <<"handle_write">> = <<"handle_error", "handle_write">>
      /\ <<"handle_read">> \o <<"handle_write">> = <<"handle_read", "handle_write">>
      /\ <<"handle_error", "handle_read">> \o <<"handle_write">> =
           <<"handle_error", "handle_read", "handle_write">>
  <2>1. "handle_error" \in S /\ "handle_read" \in S /\ "handle_write" \in S
    OBVIOUS
  <2> HIDE DEF S
  <2> QED
    BY <2>1, InARow
<1>5. none \o e = e /\ e \o none = e /\ r \o none = r /\ none \o r = r /\ none \o w = w
  <2> HIDE DEF S, e, r, w
  <2> QED
    BY <1>2, ConcatEmptySeq
<1>6. (e \o r) \o none = e \o r
  <2> HIDE DEF S, e, r
  <2> QED
    BY <1>2, ConcatProperties, ConcatEmptySeq
<1> HIDE DEF S, none, e, r, w
<1>7. Dispatch(active) = (e \o r) \o w
  BY <1>1, <1>5
<1>8. CASE w = none
  BY <1>2, <1>3, <1>4, <1>5, <1>6, <1>7, <1>8
<1>9. CASE w # none
  BY <1>2, <1>3, <1>4, <1>5, <1>6, <1>7, <1>9
<1> QED
  BY <1>8, <1>9

\* handle_event of a connection that the list still names: it lives and is open.
LEMMA EventSound ==
  ASSUME WellUsed, ServerSound, NEW l \in AllLoops, HandleEvent(l), UNCHANGED serverVars
  PROVE  SoundInv' /\ aborted' = aborted
<1> DEFINE handlers == Dispatch(NextActive(l).events)
<1>1. PICK c \in Conns : c = NextActive(l).c
  BY DEF HandleEvent
<1>2. Handling(l) /\ l \in Threads /\ phase[l] = "events"
  BY DEF HandleEvent, Handling, Threads
<1>3. current[l] + 1 \in 1..Len(active_channels_[l]) /\ current[l] + 1 > current[l]
  <2>1. Len(active_channels_[l]) \in Nat /\ current[l] \in Nat
    BY LenProperties DEF ServerSound, ThreadsInv, LoopsTyped
  <2> QED
    BY <1>2, <2>1 DEF Handling
<1>4. Listening(c) /\ ("HUP" \in NextActive(l).events => "IN" \in NextActive(l).events)
  BY <1>1, <1>3 DEF NextActive, ServerSound, SoundInv, SoundWork, SoundLists, SoundList
<1>5. c \in Own(l)
  <2>1. NextActive(l) \in MayReport(l)
    BY <1>3, ElementOfSeq DEF NextActive, ServerSound, ThreadsInv, LoopsTyped
  <2> QED
    BY <1>1, <2>1, AcceptorAssumption DEF MayReport
<1>6. Alive(c)
  <2>1. ~Gone(l) /\ ~Down(c)
    BY <1>2, <1>4 DEF Gone, Down, Listening, Open
  <2> QED
    BY <1>5, <2>1, LivesOn
<1> DEFINE s == [i \in 1..Len(handlers) |-> Call(handlers[i], c)]
<1>7. Dispatches(l, s)
  BY <1>1, <1>6 DEF HandleEvent
<1>8. calls'[l] = s
  BY <1>2, <1>7 DEF Dispatches, ServerSound, ThreadsInv, CallsTyped
<1> DEFINE Kinds == {"handle_error", "handle_read", "handle_write"}
           E == Call("handle_error", c)
           R == Call("handle_read", c)
           W == Call("handle_write", c)
<1>9. \A fn \in Kinds : Call(fn, c) \in Sound(l)' /\ Call(fn, c) \in AnyCall
                        /\ fn \notin TokenFns
  <2>1. MayRemove(l, c)'
    BY <1>1, <1>2, <1>7, NextReport DEF ServerSound
  <2>2. Past(c)' /\ Listening(c)'
    BY <1>4, <1>7 DEF Dispatches, Listening, Past, Open
  <2>3. ~(l = Base /\ Ending')
    BY <1>2 DEF Ending, serverVars, ServerSound, SoundInv, SoundWork, SoundEnd
  <2>4. \A fn \in Kinds : /\ Call(fn, c) \in AnyCall /\ Used(fn)
                          /\ fn \notin TokenFns \cup StartCalls \cup Later(Ops)
    BY DEF AnyCall, OwnCalls, Call, Used, SendCalls, StopCalls, StartCalls, ForceCalls,
       ShutCalls, OpenCalls, Later, Ops,
     AfterTest, TokenFns
  <2> QED
    BY <2>1, <2>2, <2>3, <2>4, SoundCallNext
<1>10. E \in Sound(l)' /\ R \in Sound(l)' /\ W \in Sound(l)' /\ W \in Resting(l)'
  BY <1>9 DEF Resting, WaitCalls, Call
<1>11. s \in {<<>>, <<E>>, <<R>>, <<W>>, <<E, R>>, <<E, W>>, <<R, W>>, <<E, R, W>>}
  <2> HIDE DEF E, R, W
  <2>1. handlers \in
           {<<>>, <<"handle_error">>, <<"handle_read">>, <<"handle_write">>,
            <<"handle_error", "handle_read">>, <<"handle_error", "handle_write">>,
            <<"handle_read", "handle_write">>,
            <<"handle_error", "handle_read", "handle_write">>}
    BY <1>4, HandlersOf
  <2> HIDE DEF handlers
  <2>2. CASE handlers = <<>>
    BY <2>2
  <2>3. CASE handlers = <<"handle_error">>
    BY <2>3 DEF E
  <2>8. CASE handlers = <<"handle_read">>
    BY <2>8 DEF R
  <2>9. CASE handlers = <<"handle_write">>
    BY <2>9 DEF W
  <2>4. CASE handlers = <<"handle_error", "handle_read">>
    BY <2>4 DEF E, R
  <2>5. CASE handlers = <<"handle_error", "handle_write">>
    BY <2>5 DEF E, W
  <2>6. CASE handlers = <<"handle_read", "handle_write">>
    BY <2>6 DEF R, W
  <2>7. CASE handlers = <<"handle_error", "handle_read", "handle_write">>
    BY <2>7 DEF E, R, W
  <2> QED
    BY <2>1, <2>2, <2>3, <2>4, <2>5, <2>6, <2>7, <2>8, <2>9
<1>12. s \in Seq(AnyCall) /\ \A i \in 1..Len(s) : s[i].fn \notin TokenFns
  <2>1. E \in AnyCall /\ R \in AnyCall /\ W \in AnyCall
    BY <1>9
  <2>2. E.fn \notin TokenFns /\ R.fn \notin TokenFns /\ W.fn \notin TokenFns
    BY <1>9 DEF Call
  <2> HIDE DEF E, R, W, s
  <2>3. CASE s = <<>>
    BY <2>3
  <2>4. \A k \in {E, R, W} : s = <<k>> =>
          s \in Seq(AnyCall) /\ \A i \in 1..Len(s) : s[i].fn \notin TokenFns
    BY <2>1, <2>2
  <2>5. CASE s = <<E, R>>
    BY <2>1, <2>2, <2>5
  <2>6. CASE s = <<E, W>>
    BY <2>1, <2>2, <2>6
  <2>7. CASE s = <<R, W>>
    BY <2>1, <2>2, <2>7
  <2>8. CASE s = <<E, R, W>>
    BY <2>1, <2>2, <2>8
  <2> QED
    BY <1>11, <2>3, <2>4, <2>5, <2>6, <2>7, <2>8
<1>13. s # <<>> => SoundStack(l)'
  <2>1. E.fn = "handle_error" /\ R.fn = "handle_read"
    BY DEF Call
  <2> DEFINE none == <<>>
             one == <<W>>
  <2>2. none \in Seq(Resting(l)') /\ one \in Seq(Resting(l)')
    <3> HIDE DEF W
    <3> QED
      BY <1>10, EmptySeq
  <2> HIDE DEF E, R, W, s
  <2>3. CASE s \in {<<E>>, <<R>>, <<W>>}
    <3>1. \E k \in Sound(l)' : s = <<k>> \o none
      BY <1>10, <2>3
    <3> HIDE DEF none
    <3> QED
      BY <1>8, <2>2, <3>1, StackOfResting
  <2>4. CASE s \in {<<E, W>>, <<R, W>>}
    <3>1. \E k \in Sound(l)' : s = <<k>> \o one
      BY <1>10, <2>4
    <3> HIDE DEF one
    <3> QED
      BY <1>8, <2>2, <3>1, StackOfResting
  <2>5. CASE s \in {<<E, R>>, <<E, R, W>>}
    <3>1. /\ Head(s) = E /\ Tail(s) # <<>> /\ Head(Tail(s)) = R
          /\ Tail(Tail(s)) = none \/ Tail(Tail(s)) = one
      <4>1. CASE s = <<E, R>>
        BY <4>1
      <4>2. CASE s = <<E, R, W>>
        BY <4>2
      <4> QED
        BY <2>5, <4>1, <4>2
    <3> HIDE DEF none, one
    <3> QED
      BY <1>8, <1>10, <2>1, <2>2, <3>1 DEF SoundStack
  <2> QED
    BY <1>11, <2>3, <2>4, <2>5
<1> HIDE DEF s
<1> QED
  BY <1>2, <1>7, <1>12, <1>13, DispatchSound
-----------------------------------------------------------------------------
(* The user's threads, the peers, and the end of the server.                 *)

\* A step that leaves the connections and what is ahead of the loops.
LEMMA AroundSound ==
  ASSUME ServerSound, UNCHANGED <<conn, connections_, phase, active_channels_, current,
                                  functors, running, queue_functors_>>,
         kept' \subseteq kept, kept' = kept \/ CrossOps = {}, Ending' <=> Ending,
         \A l \in AllLoops : calls'[l] = calls[l], SoundCalls', SoundEnd'
  PROVE  SoundInv'
<1>1. SoundQueues'
  BY QueuesSame DEF ServerSound, SoundInv, SoundWork, Past
<1>2. SoundLists'
  <2> SUFFICES ASSUME NEW l \in AllLoops PROVE SoundList(l)'
    BY DEF SoundLists
  <2>1. SoundList(l)
    BY DEF ServerSound, SoundInv, SoundWork, SoundLists
  <2>2. \A d \in Conns : Listening(d)' <=> Listening(d)
    BY DEF Listening, Open
  <2> QED
    BY <2>1, <2>2 DEF SoundList
<1>3. \A d \in Conns : SoundChannel(d)' /\ (Past(d)' <=> Past(d))
  BY DEF ServerSound, SoundInv, SoundConns, SoundChannel, Past, Open, Down
<1>4. \A l \in AllLoops : \A d \in Own(l)' : SoundLife(d, l)'
  <2> SUFFICES ASSUME NEW l \in AllLoops, NEW d \in Own(l)' PROVE SoundLife(d, l)'
    OBVIOUS
  <2>1. d \in Own(l) /\ Base \in AllLoops
    BY DEF Own, Known, Created, AllLoops
  <2>2. /\ SoundLife(d, l) /\ Agenda(l)' = Agenda(l) /\ Agenda(Base)' = Agenda(Base)
        /\ Gone(l)' <=> Gone(l)
    BY <2>1 DEF ServerSound, SoundInv, SoundConns, Agenda, Rest, Batch, Gone
  <2> QED
    BY <2>2, LifeSame
<1>5. \A d \in kept' : Past(d)'
  BY <1>3 DEF ServerSound, SoundInv, SoundConns, ThreadsInv, ConnsTyped, Known
<1> QED
  BY <1>1, <1>2, <1>3, <1>4, <1>5 DEF SoundInv, SoundWork, SoundConns

\* What the threads are doing stays sound while the user drops what it kept.
LEMMA CallsQuiet ==
  ASSUME WellUsed, ServerSound,
         UNCHANGED <<conn, phase, active_channels_, current, calls>>,
         kept' = kept \/ CrossOps = {}, Ending' <=> Ending
  PROVE  SoundCalls'
<1>1. Base \in Threads /\ Local(Base) /\ Growing
  BY DEF Threads, AllLoops, Local, Growing, Created
<1>2. kept \subseteq kept' \/ CrossOps = {}
  OBVIOUS
<1>3. \A c \in Conns : Past(c) => Past(c)'
  BY DEF Past
<1>4. \A y \in Threads : Sound(y) \cap MayCall(y) \subseteq Sound(y)'
  BY <1>1, <1>2, <1>3, SoundMore DEF ServerSound
<1> QED
  BY <1>4, StackKept DEF SoundCalls, ServerSound, ThreadsInv, SoundInv, SoundWork

\* The user drops a connection, or a peer does something.
LEMMA OutsideSound ==
  ASSUME WellUsed, ServerSound, NEW c \in Conns,
         UserDrops(c) \/ PeerSends(c) \/ PeerFinishes(c) \/ PeerResets(c),
         UNCHANGED serverVars
  PROVE  SoundInv' /\ aborted' = aborted
<1>1. /\ UNCHANGED <<conn, connections_, loopVars, queue_functors_, calls, server, aborted>>
      /\ kept' \subseteq kept /\ (kept' = kept \/ CrossOps = {})
  BY DEF WellUsed, UserDrops, PeerSends, PeerFinishes, PeerResets, PeerActs, serverVars
<1>2. UNCHANGED <<phase, active_channels_, current, functors, running, quit_flag_>>
  BY <1>1 DEF loopVars
<1>3. Ending' <=> Ending
  BY <1>1 DEF Ending
<1>4. SoundCalls'
  BY <1>1, <1>2, <1>3, CallsQuiet
<1>5. SoundEnd'
  BY <1>1, <1>2, <1>3 DEF ServerSound, SoundInv, SoundWork, SoundEnd
<1>6. SoundInv'
  BY <1>1, <1>2, <1>3, <1>4, <1>5, AroundSound
<1> QED
  BY <1>1, <1>6

\* A thread without a loop calls something on a connection that is kept.
LEMMA ThreadCallsSound ==
  ASSUME WellUsed, ServerSound, NEW u \in Users, NEW c \in Conns, NEW op \in Ops,
         ThreadCalls(u, c, op), UNCHANGED serverVars
  PROVE  SoundInv' /\ aborted' = aborted
<1> DEFINE k == Call(op, c)
           s == <<k>>
<1>1. /\ UNCHANGED <<conn, connections_, kept, loopVars, queue_functors_, server, aborted>>
      /\ calls' = [calls EXCEPT ![u] = s] /\ c \in kept /\ op \in ThreadOps
  BY DEF ThreadCalls, serverVars
<1>2. u \in Threads /\ u \notin AllLoops /\ Base \in AllLoops
  BY ConfigAssumption DEF Threads, AllLoops
<1>3. UNCHANGED <<phase, active_channels_, current, functors, running, quit_flag_>>
  BY <1>1 DEF loopVars
<1>4. Ending' <=> Ending
  BY <1>1 DEF Ending
<1>5. calls'[u] = s /\ \A y \in Threads : y # u => calls'[y] = calls[y]
  BY <1>1, <1>2 DEF ServerSound, ThreadsInv, CallsTyped
<1>6. k \in Sound(u)'
  <2>1. Past(c)'
    BY <1>1 DEF ServerSound, SoundInv, SoundConns, Past
  <2>2. op \in {"send", "stop_read"} /\ op \in UserOps
    BY <1>1 DEF WellUsed, UserOps
  <2>3. Used(op)
    BY <2>2 DEF Used, SendCalls, StopCalls, StartCalls, ForceCalls, ShutCalls
  <2>4. k \in AnyCall /\ op \notin StartCalls \cup OpenCalls
    BY <2>2 DEF AnyCall, Call, StartCalls, OpenCalls, Later, Ops
  <2> QED
    BY <1>1, <1>2, <2>1, <2>3, <2>4, SoundCallNext
<1> HIDE DEF k
<1>7. SoundStack(u)'
  <2> DEFINE t == <<>>
  <2>1. t \in Seq(Resting(u)') /\ calls'[u] = <<k>> \o t
    BY <1>5, EmptySeq
  <2> HIDE DEF t
  <2> QED
    BY <1>6, <2>1, StackOfResting
<1> HIDE DEF s
<1>8. \A y \in Threads : y # u => SoundStack(y)'
  BY <1>1, <1>2, <1>3, <1>4, OthersKept DEF ServerSound, SoundInv, SoundWork
<1>9. SoundCalls'
  BY <1>7, <1>8 DEF SoundCalls
<1>10. \A l \in AllLoops : calls'[l] = calls[l]
  BY <1>2, <1>5 DEF Threads
<1>11. SoundEnd'
  BY <1>1, <1>3, <1>4, <1>10 DEF ServerSound, SoundInv, SoundWork, SoundEnd
<1>12. SoundInv'
  BY <1>1, <1>3, <1>4, <1>9, <1>10, <1>11, AroundSound
<1> QED
  BY <1>1, <1>12

\* start(), the end of the base loop and the end of the pool.
LEMMA QuitSound ==
  ASSUME WellUsed, ServerSound, Start \/ QuitBase \/ StopPool
  PROVE  SoundInv' /\ aborted' = aborted
<1>1. /\ UNCHANGED <<conn, connections_, kept, queue_functors_, calls, phase,
                     active_channels_, current, functors, running, aborted>>
  BY DEF Start, QuitBase, StopPool, connVars, loopVars, serverVars
<1>2. Base \in AllLoops /\ \A i \in 1..Len(loops_) : loops_[i] # Base
  BY ConfigAssumption DEF AllLoops, IoLoops
<1>3. Ending' <=> Ending
  BY DEF Start, QuitBase, StopPool, serverVars, Ending
<1>4. /\ quit_flag_'[Base] => ServerDies
      /\ quit_flag_[Base] => quit_flag_'[Base]
  <2>1. quit_flag_[Base] => ServerDies
    BY DEF ServerSound, SoundInv, SoundWork, SoundEnd
  <2>2. CASE Start
    BY <2>1, <2>2 DEF Start, connVars, loopVars
  <2>3. CASE QuitBase
    BY <1>2, <2>1, <2>3 DEF QuitBase, ServerSound, ThreadsInv, LoopsTyped
  <2>4. CASE StopPool
    <3>1. quit_flag_'[Base] = quit_flag_[Base]
      BY <1>2, <2>4 DEF StopPool, ServerSound, ThreadsInv, LoopsTyped
    <3> QED
      BY <2>1, <3>1
  <2> QED
    BY <2>2, <2>3, <2>4
<1>5. SoundEnd'
  BY <1>1, <1>3, <1>4 DEF ServerSound, SoundInv, SoundWork, SoundEnd
<1>6. SoundCalls'
  BY <1>1, <1>3, CallsQuiet
<1>7. SoundInv'
  BY <1>1, <1>3, <1>5, <1>6, AroundSound
<1> QED
  BY <1>1, <1>7
\* ~TcpServer goes through its map.
LEMMA DestroySound ==
  ASSUME WellUsed, ServerSound, DestroyServer
  PROVE  SoundInv' /\ aborted' = aborted
<1>1. /\ server = "up" /\ phase[Base] = "exited" /\ server' = "dying"
      /\ UNCHANGED <<conn, connections_, kept, loopVars, queue_functors_, aborted>>
  BY DEF DestroyServer
<1>2. PICK list \in SetToSeqs(connections_) :
        calls' = [calls EXCEPT ![Base] = [i \in 1..Len(list) |-> Call("release", list[i])]]
  BY DEF DestroyServer
<1>3. Base \in AllLoops /\ Base \in Threads /\ ~Ending /\ Ending'
  BY <1>1 DEF AllLoops, Threads, Ending
<1>4. UNCHANGED <<phase, active_channels_, current, functors, running, quit_flag_>>
  BY <1>1 DEF loopVars
<1>5. calls[Base] = <<>>
  BY <1>1, <1>3 DEF ServerSound, SoundInv, SoundWork, SoundEnd
<1> DEFINE s == [i \in 1..Len(list) |-> Call("release", list[i])]
<1>6. calls'[Base] = s /\ \A y \in Threads : y # Base => calls'[y] = calls[y]
  BY <1>2, <1>3 DEF ServerSound, ThreadsInv, CallsTyped
<1>7. /\ list \in Seq(connections_) /\ Len(list) \in Nat
      /\ \A i, j \in 1..Len(list) : i # j => list[i] # list[j]
      /\ \A i \in 1..Len(list) : list[i] \in connections_
  <2>1. IsFiniteSet(connections_)
    BY ConfigAssumption, FS_Subset DEF ServerSound, ThreadsInv, ConnsTyped, Known
  <2> QED
    BY <2>1, Listing, LenProperties, ElementOfSeq
<1>8. /\ Len(s) = Len(list)
      /\ \A i \in 1..Len(s) : s[i] = Call("release", list[i]) /\ list[i] \in connections_
  BY <1>7
<1>9. \A c \in connections_ : Call("release", c) \in Resting(Base)'
                              /\ Call("release", c) \in AnyCall
  <2> SUFFICES ASSUME NEW c \in connections_
               PROVE  Call("release", c) \in Resting(Base)'
                      /\ Call("release", c) \in AnyCall
    OBVIOUS
  <2>1. c \in Conns
    BY DEF ServerSound, ThreadsInv, ConnsTyped, Known
  <2>2. Call("release", c) \in AnyCall
    BY <2>1 DEF AnyCall, BaseCalls, Call
  <2>3. MayRemove(Base, c)'
    BY <1>1, <1>4 DEF MayRemove
  <2>4. /\ "release" \in EarlyCalls /\ "release" \in EndCalls /\ Used("release")
        /\ "release" \notin StartCalls \cup Later(Ops) \cup OpenCalls
    BY DEF EarlyCalls, EndCalls, Used, SendCalls, StopCalls, StartCalls, ForceCalls,
       ShutCalls, OpenCalls, Later, Ops,
     AfterTest
  <2>5. Call("release", c) \in Sound(Base)'
    BY <2>2, <2>3, <2>4, SoundCallNext
  <2> QED
    BY <2>2, <2>5 DEF Resting, WaitCalls, Call
<1>10. s \in Seq(Resting(Base)') /\ s \in Seq(AnyCall)
  BY <1>7, <1>9
<1> HIDE DEF s
<1>11. SoundStack(Base)'
  BY <1>6, <1>10, StackOfResting
<1>12. \A y \in Threads : y # Base => SoundStack(y)'
  BY <1>1, <1>2, <1>3, <1>4, OthersKept DEF ServerSound, SoundInv, SoundWork
<1>13. SoundCalls'
  BY <1>11, <1>12 DEF SoundCalls
<1>14. SoundQueues'
  BY <1>1, <1>4, QueuesSame DEF ServerSound, SoundInv, SoundWork, Past
<1>15. SoundLists'
  <2> SUFFICES ASSUME NEW l \in AllLoops PROVE SoundList(l)'
    BY DEF SoundLists
  <2>1. SoundList(l)
    BY DEF ServerSound, SoundInv, SoundWork, SoundLists
  <2>2. \A d \in Conns : Listening(d)' <=> Listening(d)
    BY <1>1 DEF Listening, Open
  <2> QED
    BY <1>4, <2>1, <2>2 DEF SoundList
<1>16. SoundEnd'
  <2>1. \A l \in AllLoops : l # Base => calls'[l] = calls[l]
    BY <1>6 DEF Threads
  <2> QED
    BY <1>1, <1>3, <1>4, <2>1 DEF ServerSound, SoundInv, SoundWork, SoundEnd
<1>17. \A d \in Conns : SoundChannel(d)' /\ (Past(d)' <=> Past(d)) /\ (Down(d)' <=> Down(d))
  BY <1>1 DEF ServerSound, SoundInv, SoundConns, SoundChannel, Past, Open, Down
<1>18. ASSUME NEW c \in Conns, NEW l \in AllLoops, NEW T \in Marks(c)
       PROVE  /\ T # Drop(c) => /\ Has(Agenda(l)', T) <=> Has(Agenda(l), T)
                                /\ Once(Agenda(l)', T) <=> Once(Agenda(l), T)
              /\ Ordered(Agenda(l), Establish(c), Destroy(c)) =>
                   Ordered(Agenda(l)', Establish(c), Destroy(c))
              /\ l = Base /\ T = Drop(c) =>
                   /\ Has(Agenda(l)', T) => c \in connections_
                   /\ Once(Agenda(l)', T)
  <2>1. CASE l # Base
    <3>1. calls'[l] = calls[l]
      BY <1>6, <2>1 DEF Threads
    <3>2. Agenda(l)' = Agenda(l)
      BY <1>1, <1>4, <3>1 DEF Agenda, Rest, Batch
    <3> QED
      BY <2>1, <3>2
  <2>2. CASE l = Base
    <3>1. Rest(Base) \in Seq(AnyCall) /\ Agenda(Base) = Rest(Base)
      BY <1>3, <1>5, AgendaTyped, NoRemoval DEF ServerSound
    <3>2. Agenda(Base)' = s \o Rest(Base)
      BY <1>1, <1>4, <1>6 DEF Agenda, Rest, Batch
    <3>3. \A M \in Marks(c) : M # Drop(c) => ~Has(s, M) /\ Once(s, M)
      <4>1. \A d : \A M \in Marks(c) : M # Drop(c) => Call("release", d) \notin M
        BY DEF Marks, Establish, Unregister, Destroy, Report, Erase, Drop, Call
      <4>2. \A M \in Marks(c) : M # Drop(c) => ~Has(s, M)
        BY <1>8, <4>1 DEF Has
      <4> QED
        BY <4>2, Absent
    <3>4. Establish(c) \in Marks(c) /\ Destroy(c) \in Marks(c)
          /\ Establish(c) # Drop(c) /\ Destroy(c) # Drop(c)
      <4>1. Call("release", c) \in Drop(c) /\ Call("release", c) \notin Establish(c)
            /\ Call("release", c) \notin Destroy(c)
        BY TokenOf
      <4> QED
        BY <4>1, MarksAreTokens
    <3>5. Ordered(s, Establish(c), Destroy(c))
      BY <3>3, <3>4, Absent
    <3>6. ~Has(Rest(Base), Drop(c)) /\ Once(Rest(Base), Drop(c))
      BY <1>3, <3>1, NoDrops, Absent
    <3>9. \A i \in 1..Len(s) : s[i] \in Drop(c) => list[i] = c
      <4>1. \A d : Call("release", d) \in Drop(c) => d = c
        BY DEF Drop, Call
      <4> QED
        BY <1>8, <4>1
    <3>7. Has(s, Drop(c)) => c \in connections_
      BY <1>8, <3>9 DEF Has
    <3>8. Once(s, Drop(c))
      BY <1>7, <1>8, <3>9 DEF Once
    <3> QED
      BY <1>10, <2>2, <3>1, <3>2, <3>3, <3>4, <3>5, <3>6, <3>7, <3>8, Joined
  <2> QED
    BY <2>1, <2>2
<1>19. ASSUME NEW l \in AllLoops, NEW c \in Own(l)' PROVE SoundLife(c, l)'
  <2>1. c \in Own(l) /\ c \in Conns
    BY <1>1 DEF Own, Known, Created
  <2>2. SoundLife(c, l)
    BY <2>1 DEF ServerSound, SoundInv, SoundConns
  <2>3. \A T \in {Establish(c), Unregister(c), Destroy(c), Report(c), Erase(c)} :
          T \in Marks(c) /\ T # Drop(c)
    <3>1. Call("release", c) \in Drop(c)
      BY TokenOf
    <3>2. /\ Call("release", c) \notin Establish(c) /\ Call("release", c) \notin Unregister(c)
          /\ Call("release", c) \notin Destroy(c) /\ Call("release", c) \notin Report(c)
          /\ Call("release", c) \notin Erase(c)
      BY TokenOf
    <3> QED
      BY <3>1, <3>2, MarksAreTokens
  <2>4. Drop(c) \in Marks(c)
    BY MarksAreTokens
  <2>5. /\ \A T \in {Establish(c), Unregister(c), Destroy(c), Report(c), Erase(c)} :
             /\ Has(Agenda(l)', T) <=> Has(Agenda(l), T)
             /\ Once(Agenda(l)', T) <=> Once(Agenda(l), T)
             /\ Has(Agenda(Base)', T) <=> Has(Agenda(Base), T)
             /\ Once(Agenda(Base)', T) <=> Once(Agenda(Base), T)
        /\ Has(Agenda(Base)', Drop(c)) => c \in connections_
        /\ Once(Agenda(Base)', Drop(c))
        /\ Ordered(Agenda(l), Establish(c), Destroy(c)) =>
             Ordered(Agenda(l)', Establish(c), Destroy(c))
    BY <1>3, <1>18, <2>1, <2>3, <2>4
  <2>6. (Gone(l)' <=> Gone(l)) /\ (Down(c)' <=> Down(c))
    BY <1>4, <1>17, <2>1 DEF Gone
  <2> QED
    BY <1>1, <1>3, <2>2, <2>5, <2>6 DEF SoundLife
<1>20. \A d \in kept' : Past(d)'
  BY <1>1, <1>17 DEF ServerSound, SoundInv, SoundConns, ThreadsInv, ConnsTyped, Known
<1> QED
  BY <1>1, <1>13, <1>14, <1>15, <1>16, <1>17, <1>19, <1>20 DEF SoundInv, SoundWork, SoundConns
-----------------------------------------------------------------------------
(* Every step keeps the invariant, and none of them aborts.                  *)

\* A new server is sound.
LEMMA InitSound == Init => SoundInv /\ aborted = "no"
<1> SUFFICES ASSUME Init PROVE SoundInv /\ aborted = "no"
  OBVIOUS
<1>1. /\ calls = [x \in Threads |-> <<>>] /\ conn = [c \in Conns |-> NewConn]
      /\ queue_functors_ = [l \in AllLoops |-> <<>>] /\ functors = [l \in AllLoops |-> <<>>]
      /\ active_channels_ = [l \in AllLoops |-> <<>>] /\ phase = [l \in AllLoops |-> "poll"]
      /\ quit_flag_ = [l \in AllLoops |-> FALSE] /\ kept = {} /\ server = "new"
      /\ aborted = "no"
  BY DEF Init, ConnInit
<1>2. SoundCalls
  BY <1>1 DEF SoundCalls, SoundStack
<1>3. SoundQueues
  BY <1>1, EmptySeq DEF SoundQueues
<1>4. SoundLists
  <2> DEFINE s == <<>>
  <2>1. Len(s) = 0 /\ \A l \in AllLoops : active_channels_[l] = s
    BY <1>1
  <2> HIDE DEF s
  <2> QED
    BY <2>1 DEF SoundLists, SoundList
<1>5. SoundEnd
  BY <1>1 DEF SoundEnd, Ending, AllLoops
<1>6. SoundConns
  <2>1. \A c \in Conns : SoundChannel(c) /\ ~Created(c)
    BY <1>1 DEF SoundChannel, NewConn, NewChannel, Past, Open, Down, Created
  <2> QED
    BY <1>1, <2>1 DEF SoundConns, Own, Known
<1> QED
  BY <1>1, <1>2, <1>3, <1>4, <1>5, <1>6 DEF SoundInv, SoundWork

\* What a thread goes on with.
LEMMA ContinueSound ==
  ASSUME WellUsed, ServerSound, NEW x \in Threads, Continue(x)
  PROVE  SoundInv' /\ aborted' = aborted
<1>1. ClosesOnOwnThread /\ ThreadsInv
  BY WellClosed DEF ServerSound
<1>2. Local(x)
  BY <1>1, LocalStep
<1>3. CASE ConnStep(x) /\ UNCHANGED serverVars
  <2>1. PICK c \in Conns :
          \/ ConnectEstablished(x, c) \/ HandleRead(x, c) \/ HandleError(x, c)
          \/ HandleWrite(x, c) \/ HandleWritten(x, c) \/ HandleClose(x, c)
          \/ ConnectDestroyed(x, c) \/ RemoveChannel(x, c) \/ SendInLoop(x, c)
          \/ QueueOutputCallback(x, c) \/ OutputCallback(x, c) \/ ShutdownInLoop(x, c)
          \/ ForceCloseInLoop(x, c) \/ StartReadInLoop(x, c) \/ StopReadInLoop(x, c)
          \/ TestState(x, c) \/ Post(x, c) \/ UserReturns(x, c)
    BY <1>3 DEF ConnStep
  <2>2. CASE \/ ConnectEstablished(x, c) \/ HandleClose(x, c) \/ ConnectDestroyed(x, c)
             \/ RemoveChannel(x, c)
    BY <1>2, <1>3, <2>2, EstablishedSound, ClosedSound, DestroyedSound, RemovedSound
  <2>3. CASE \/ HandleRead(x, c) \/ HandleError(x, c) \/ HandleWrite(x, c)
             \/ HandleWritten(x, c) \/ SendInLoop(x, c) \/ QueueOutputCallback(x, c)
             \/ OutputCallback(x, c) \/ ShutdownInLoop(x, c) \/ ForceCloseInLoop(x, c)
             \/ StartReadInLoop(x, c) \/ StopReadInLoop(x, c) \/ TestState(x, c)
             \/ Post(x, c) \/ UserReturns(x, c)
    <3>1. SoundInv'
      BY <1>2, <1>3, <2>3, PlainStepSound
    <3>2. aborted' = aborted
      BY <2>3 DEF HandleRead, HandleError, HandleWrite, HandleWritten, SendInLoop,
         QueueOutputCallback, OutputCallback, ShutdownInLoop, ForceCloseInLoop, StartReadInLoop, StopReadInLoop, TestState, Post, UserReturns
    <3> QED
      BY <3>1, <3>2
  <2> QED
    BY <2>1, <2>2, <2>3
<1>4. CASE NewConnection(x)
  BY <1>4, CreatedSound
<1>5. ASSUME NEW c \in Conns,
             RemoveConnection(x, c) \/ RemoveConnectionInLoop(x, c) \/ Release(x, c)
      PROVE  SoundInv' /\ aborted' = aborted
  BY <1>5, ReportedSound, ErasedSound, ReleasedSound
<1> QED
  BY <1>3, <1>4, <1>5 DEF Continue

\* Every step of a well used server is sound and fails no assertion.
LEMMA NextSound ==
  ASSUME WellUsed, ServerSound, [Next]_vars
  PROVE  SoundInv' /\ aborted' = aborted
<1>1. ASSUME NEW x \in Threads, Continue(x) PROVE SoundInv' /\ aborted' = aborted
  BY <1>1, ContinueSound
<1>2. ASSUME NEW l \in AllLoops, Loop(l) PROVE SoundInv' /\ aborted' = aborted
  BY <1>2, PollSound, AcceptSound, EventSound, SwapSound, RunFunctorSound, DoneSound
     DEF Loop, LoopStep
<1>3. CASE (UserStep \/ PeerStep) /\ UNCHANGED serverVars
  <2>1. ASSUME NEW x \in Threads, NEW c \in Conns, NEW d \in Conns, NEW op \in Ops,
               UserCalls(x, c, d, op)
        PROVE  SoundInv' /\ aborted' = aborted
    BY <1>3, <2>1, UserCallsSound DEF UserCalls
  <2>2. ASSUME NEW u \in Users, NEW c \in Conns, NEW op \in Ops, ThreadCalls(u, c, op)
        PROVE  SoundInv' /\ aborted' = aborted
    BY <1>3, <2>2, ThreadCallsSound
  <2>3. ASSUME NEW c \in Conns,
               UserDrops(c) \/ PeerSends(c) \/ PeerFinishes(c) \/ PeerResets(c)
        PROVE  SoundInv' /\ aborted' = aborted
    BY <1>3, <2>3, OutsideSound
  <2> QED
    BY <1>3, <2>1, <2>2, <2>3 DEF UserStep, PeerStep
<1>4. CASE ServerStep
  BY <1>4, QuitSound, DestroySound DEF ServerStep
<1>5. CASE UNCHANGED vars
  <2>1. /\ UNCHANGED <<conn, connections_, kept, queue_functors_, calls, phase, quit_flag_,
                       active_channels_, current, functors, running, aborted, server>>
    BY <1>5 DEF vars, connVars, loopVars, serverVars
  <2>2. Ending' <=> Ending
    BY <2>1 DEF Ending
  <2>3. SoundEnd'
    BY <2>1, <2>2 DEF ServerSound, SoundInv, SoundWork, SoundEnd
  <2>4. SoundCalls'
    BY <2>1, <2>2, CallsQuiet
  <2>5. SoundInv'
    BY <2>1, <2>2, <2>3, <2>4, AroundSound
  <2> QED
    BY <2>1, <2>5
<1> QED
  BY <1>1, <1>2, <1>3, <1>4, <1>5 DEF Next

\* No output callback waits and no connection is up at the start.
LEMMA InitNotice == Init => NoticeInv
<1> SUFFICES ASSUME Init PROVE NoticeInv
  OBVIOUS
<1>1. \A c \in Conns : ~Past(c)
  BY DEF Init, ConnInit, NewConn, Past
<1>2. ASSUME NEW l \in AllLoops, NEW c \in Conns PROVE Noticed(Rest(l), c)
  <2>1. functors[l] = <<>> /\ running[l] = 0 /\ queue_functors_[l] = <<>>
    BY DEF Init, ConnInit
  <2>2. SubSeq(<<>>, 1, 0) = <<>> /\ <<>> \o <<>> = <<>>
    OBVIOUS
  <2>3. Rest(l) = <<>>
    BY <2>1, <2>2 DEF Rest, Batch
  <2> QED
    BY <2>3 DEF Noticed, Has
<1> QED
  BY <1>1, <1>2 DEF NoticeInv, KeptInv, NoticesInv

\* A step that changes neither the state of a connection nor what is kept.
LEMMA SameKept ==
  ASSUME KeptInv, \A c \in Conns : Past(c)' => Past(c), kept \subseteq kept' \/ DropsRefs
  PROVE  KeptInv'
  BY DEF KeptInv

\* A program whose connections stay kept keeps every one that is up.
LEMMA NextKept ==
  ASSUME WellUsed, ServerSound, [Next]_vars
  PROVE  KeptInv'
<1>1. KeptInv /\ conn \in [Conns -> [state : States, loop : AllLoops, channel : Channels,
                                     output : BOOLEAN]]
  BY DEF ServerSound, NoticeInv, ThreadsInv, ConnsTyped
<1>2. ASSUME NEW x \in Threads, Continue(x) PROVE KeptInv'
  <2>1. ASSUME NEW c \in Conns, ConnectEstablished(x, c) PROVE KeptInv'
    <3>1. CASE conn' = conn /\ kept' = kept
      BY <1>1, <3>1, SameKept DEF Past
    <3>2. CASE /\ conn' = [conn EXCEPT ![c].state = "CONNECTED",
                                       ![c].channel = Enable(@, "read")]
               /\ kept' = IF KeepsRefs THEN kept \cup {c} ELSE kept
      <4>1. \A d \in Conns : d # c => conn'[d] = conn[d]
        BY <1>1, <3>2
      <4> QED
        BY <1>1, <3>2, <4>1 DEF KeptInv, Past
    <3> QED
      BY <2>1, <3>1, <3>2 DEF ConnectEstablished, Abort
  <2>2. ASSUME NEW c \in Conns, Post(x, c) PROVE KeptInv'
    <3>1. PICK p \in DOMAIN PostedBy :
            /\ Executing(x, p, c)
            /\ conn' = IF p \in {"post_shutdown", "post_force_close"}
                       THEN [conn EXCEPT ![c].state = "DISCONNECTING"] ELSE conn
            /\ kept' = kept
      BY <2>2 DEF Post
    <3>2. p \notin EarlyCalls
      BY DEF PostedBy, EarlyCalls
    <3>3. Past(c)
      BY <3>1, <3>2, UnderWay, SoundCall
    <3>4. \A d \in Conns : d # c => conn'[d] = conn[d]
      BY <1>1, <3>1
    <3> QED
      BY <1>1, <3>1, <3>3, <3>4, SameKept DEF Past
  <2>3. ASSUME NEW c \in Conns, HandleClose(x, c) \/ ConnectDestroyed(x, c) PROVE KeptInv'
    <3>1. kept' = kept
      BY <2>3 DEF HandleClose, ConnectDestroyed, Abort
    <3>2. CASE conn' = conn
      BY <1>1, <3>1, <3>2, SameKept DEF Past
    <3>3. CASE Past(c) /\ TakeDown(c)
      <4>1. \A d \in Conns : d # c => conn'[d] = conn[d]
        BY <1>1, <3>3 DEF TakeDown
      <4> QED
        BY <1>1, <3>1, <3>3, <4>1, SameKept DEF Past
    <3> QED
      BY <2>3, <3>2, <3>3 DEF HandleClose, ConnectDestroyed, Abort, Open, Past
  <2>4. ASSUME NEW c \in Conns,
               \/ HandleWrite(x, c) \/ SendInLoop(x, c) \/ RemoveChannel(x, c)
               \/ StartReadInLoop(x, c) \/ StopReadInLoop(x, c)
        PROVE  KeptInv'
    <3>1. kept' = kept
      BY <2>4 DEF HandleWrite, SendInLoop, RemoveChannel, StartReadInLoop, StopReadInLoop,
         Abort
    <3>2. \A d \in Conns : conn'[d].state = conn[d].state
      BY <1>1, <2>4 DEF HandleWrite, SendInLoop, RemoveChannel, StartReadInLoop,
         StopReadInLoop, Abort
    <3> QED
      BY <1>1, <3>1, <3>2, SameKept DEF Past
  <2>5. ASSUME NEW c \in Conns,
               \/ HandleRead(x, c) \/ HandleError(x, c) \/ HandleWritten(x, c)
               \/ QueueOutputCallback(x, c) \/ OutputCallback(x, c) \/ ShutdownInLoop(x, c)
               \/ ForceCloseInLoop(x, c) \/ TestState(x, c) \/ UserReturns(x, c)
               \/ RemoveConnection(x, c) \/ RemoveConnectionInLoop(x, c) \/ Release(x, c)
        PROVE  KeptInv'
    <3>1. conn' = conn /\ kept' = kept
      BY <2>5 DEF HandleRead, HandleError, HandleWritten, QueueOutputCallback,
         OutputCallback, ShutdownInLoop, ForceCloseInLoop, TestState, UserReturns,
         RemoveConnection, RemoveConnectionInLoop, Release, Abort
    <3> QED
      BY <1>1, <3>1, SameKept DEF Past
  <2>6. CASE NewConnection(x)
    <3>1. PICK c \in Fresh : conn' = [conn EXCEPT ![c].state = "CONNECTING", ![c].loop = NextLoop]
      BY <2>6 DEF NewConnection
    <3>2. kept' = kept
      BY <2>6 DEF NewConnection
    <3>3. c \in Conns
      BY DEF Fresh
    <3>4. conn'[c].state = "CONNECTING" /\ \A d \in Conns : d # c => conn'[d] = conn[d]
      BY <1>1, <3>1, <3>3
    <3> QED
      BY <1>1, <3>2, <3>4, SameKept DEF Past
  <2> QED
    BY <1>2, <2>1, <2>2, <2>3, <2>4, <2>5, <2>6 DEF Continue, ConnStep
<1>3. ASSUME NEW l \in AllLoops, Loop(l) PROVE KeptInv'
  <2>1. conn' = conn /\ kept' = kept
    BY <1>3 DEF Loop, LoopStep, PollAccepting, Poll, HandleAccept, HandleEvent, Dispatches,
       SwapQueue, RunFunctor, FunctorsDone, Abort
  <2> QED
    BY <1>1, <2>1, SameKept DEF Past
<1>4. CASE UserStep \/ PeerStep
  <2>1. conn' = conn /\ (kept' = kept \/ DropsRefs)
    BY <1>4 DEF UserStep, PeerStep, UserCalls, ThreadCalls, UserDrops, PeerSends,
       PeerFinishes, PeerResets, PeerActs
  <2> QED
    BY <1>1, <2>1, SameKept DEF Past
<1>5. CASE ServerStep \/ UNCHANGED vars
  <2>1. conn' = conn /\ kept' = kept
    BY <1>5 DEF ServerStep, Start, QuitBase, DestroyServer, StopPool, vars, connVars
  <2> QED
    BY <1>1, <2>1, SameKept DEF Past
<1> QED
  BY <1>2, <1>3, <1>4, <1>5 DEF Next

\* What is left to do on every loop stays, and the map only grows.
LEMMA NoticesStay ==
  ASSUME NoticesInv, connections_ \subseteq connections_',
         \A l \in AllLoops : Rest(l)' = Rest(l)
  PROVE  NoticesInv'
  BY DEF NoticesInv, Noticed

\* No queue changes, and the map only grows.
LEMMA NoticesSame ==
  ASSUME NoticesInv, connections_ \subseteq connections_',
         UNCHANGED <<queue_functors_, functors, running>>
  PROVE  NoticesInv'
<1>1. \A l \in AllLoops : Rest(l)' = Rest(l)
  BY DEF Rest, Batch
<1> QED
  BY <1>1, NoticesStay

\* A functor is queued: the callback of a connection in the map; or another, and then the
\* map keeps the connection, or it is the end of the connection.
LEMMA NoticesPosted ==
  ASSUME ThreadsInv, NoticesInv, NEW l \in AllLoops, NEW f \in AnyCall,
         UNCHANGED <<functors, running>>,
         queue_functors_' = [queue_functors_ EXCEPT ![l] = Append(@, f)],
         \A c \in Conns :
           \/ c \in connections_'
           \/ /\ f \notin Notice(c)
              /\ \/ c \notin connections_
                 \/ /\ f \in Leaving(c) /\ ~Has(Rest(l), Leaving(c))
                    /\ \A m \in AllLoops : m # l => ~Has(Rest(m), Notice(c))
  PROVE  NoticesInv'
<1> SUFFICES ASSUME loops_ # <<>>, ~ServerDies, NEW m \in AllLoops, NEW c \in Conns,
                    Has(Rest(m)', Notice(c)), c \notin connections_'
             PROVE  Has(Rest(m)', Leaving(c)) /\ Ordered(Rest(m)', Notice(c), Leaving(c))
  BY DEF NoticesInv, Noticed, Notice, Leaving
<1>1. Noticed(Rest(m), c) /\ f \notin Notice(c)
  BY DEF NoticesInv
<1>2. /\ queue_functors_'[l] = Append(queue_functors_[l], f)
      /\ m # l => queue_functors_'[m] = queue_functors_[m]
  BY DEF ThreadsInv, QueuesTyped
<1>3. CASE m # l
  <2>1. Rest(m)' = Rest(m)
    BY <1>2, <1>3 DEF Rest, Batch
  <2> QED
    BY <1>1, <1>3, <2>1 DEF Noticed
<1>4. CASE m = l
  <2> DEFINE r == Rest(l)
             u == <<f>>
             N == Notice(c)
             W == Leaving(c)
  <2>1. Rest(m)' = r \o u
    BY <1>2, <1>4, RestPosted
  <2>2. r \in Seq(AnyCall) /\ u \in Seq(AnyCall)
    BY AgendaTyped
  <2>3. ~Has(u, N) /\ (Has(u, W) <=> f \in W)
    BY <1>1, Alone
  <2>4. \/ c \notin connections_ /\ (Has(r, N) => Has(r, W) /\ Ordered(r, N, W))
        \/ f \in W /\ ~Has(r, W)
    BY <1>1, <1>4 DEF Noticed
  <2> HIDE DEF r, u, N, W
  <2>5. /\ \A T : Has(r \o u, T) <=> Has(r, T) \/ Has(u, T)
        /\ \A A, B : Ordered(r \o u, A, B) <=>
             /\ Ordered(r, A, B) /\ Ordered(u, A, B)
             /\ ~(Has(r, B) /\ Has(u, A))
    BY <2>2, Joined
  <2>6. Has(r, N)
    BY <2>1, <2>3, <2>5 DEF N
  <2>7. Has(r \o u, W) /\ Ordered(r, N, W)
    BY <2>3, <2>4, <2>5, <2>6, Absent
  <2>8. Ordered(u, N, W)
    BY <2>3, Absent
  <2>9. Ordered(r \o u, N, W)
    BY <2>3, <2>5, <2>7, <2>8
  <2> QED
    BY <2>1, <2>7, <2>9 DEF N, W
<1> QED
  BY <1>3, <1>4

\* run_in_loop of another functor, while the map only grows.
LEMMA NoticesRun ==
  ASSUME ThreadsInv, NoticesInv, connections_ \subseteq connections_', NEW x,
         NEW l \in AllLoops, NEW f \in AnyCall, f.fn # "output_callback",
         RunInLoop(x, l, f), UNCHANGED <<functors, running>>
  PROVE  NoticesInv'
<1>1. \A c \in Conns : f \notin Notice(c)
  BY DEF Notice, Call
<1>2. CASE UNCHANGED queue_functors_
  BY <1>2, NoticesSame
<1>3. CASE queue_functors_' = [queue_functors_ EXCEPT ![l] = Append(@, f)]
  BY <1>1, <1>3, NoticesPosted
<1> QED
  BY <1>2, <1>3 DEF RunInLoop, Return

\* Only the loop of a connection has its callbacks to run.
LEMMA NoticesOwn ==
  ASSUME ThreadsInv, NEW l \in AllLoops, NEW c, Has(Rest(l), Notice(c))
  PROVE  c \in Own(l)
<1>1. PICK i \in 1..Len(Rest(l)) : Rest(l)[i] = Call("output_callback", c)
  BY DEF Has, Notice
<1>2. Rest(l)[i] \in MayQueue(l)
  BY AgendaTyped, ElementOfSeq
<1> QED
  BY <1>1, <1>2 DEF MayQueue, Call

\* A server that does not die is never ending.
LEMMA NeverDying ==
  ASSUME ServerSound, ~ServerDies
  PROVE  ~Ending
  BY DEF ServerSound, SoundInv, SoundWork, SoundEnd

\* A thread goes on: a callback is queued while the connection is in the map, and before
\* the end of the connection.
LEMMA ContinueNotices ==
  ASSUME WellUsed, ServerSound, NEW x \in Threads, Continue(x)
  PROVE  NoticesInv'
<1> SUFFICES ASSUME loops_ # <<>>, ~ServerDies PROVE NoticesInv'
  BY DEF NoticesInv
<1>1. /\ NoticesInv /\ ThreadsInv /\ ~Ending /\ Base \in AllLoops
      /\ \A c \in Known : conn[c].loop \in AllLoops /\ conn[c].loop # Base
  BY NeverDying DEF ServerSound, NoticeInv, ThreadsInv, ConnsTyped, AllLoops, Known
<1>2. ASSUME NEW c \in Conns, QueueOutputCallback(x, c) PROVE NoticesInv'
  <2> DEFINE fn == "queue_output_callback"
             f == Call("output_callback", c)
  <2>1. /\ Executing(x, fn, c) /\ UNCHANGED <<connections_, functors, running>>
        /\ queue_functors_' = [queue_functors_ EXCEPT ![x] = Append(@, f)]
    BY <1>2 DEF QueueOutputCallback, ReturnQueueing, loopVars
  <2>2. fn \in OwnCalls
    BY DEF OwnCalls
  <2>3. x \in AllLoops
    BY <2>1, <2>2, OnOwnThread, OwnerIsLoop DEF ServerSound, ThreadsInv
  <2>4. c \in connections_
    <3>1. Open(c)
      BY <2>1, UnderWay, SoundCall DEF OpenCalls, Listening
    <3> QED
      BY <1>1, <3>1 DEF Open, ServerSound, SettledInv, MapHeld
  <2>5. f \in AnyCall /\ \A d \in Conns : d # c => f \notin Notice(d) /\ f \notin Leaving(d)
    BY DEF AnyCall, OwnCalls, ConnFunctors, Raw, Call, Notice, Leaving
  <2> HIDE DEF f
  <2>6. \A d \in Conns : d \in connections_' \/ (f \notin Notice(d) /\ d \notin connections_)
    BY <2>1, <2>4, <2>5
  <2> QED
    BY <1>1, <2>1, <2>3, <2>5, <2>6, NoticesPosted
<1>3. ASSUME NEW c \in Conns, Post(x, c) PROVE NoticesInv'
  <2>1. PICK p \in DOMAIN PostedBy :
          /\ Executing(x, p, c) /\ RunInLoop(x, conn[c].loop, Call(PostedBy[p], c))
          /\ UNCHANGED <<connections_, functors, running>>
    BY <1>3 DEF Post, loopVars
  <2>2. /\ Call(PostedBy[p], c) \in AnyCall /\ Call(PostedBy[p], c).fn # "output_callback"
        /\ p \notin EarlyCalls
    BY DEF PostedBy, AnyCall, OwnCalls, ConnFunctors, Raw, Call, EarlyCalls
  <2>3. c \in Known
    <3>1. Past(c)
      BY <2>1, <2>2, UnderWay, SoundCall
    <3> QED
      BY <3>1 DEF Past, Known, Created
  <2> QED
    BY <1>1, <2>1, <2>2, <2>3, NoticesRun
<1>4. ASSUME NEW c \in Conns, RemoveConnection(x, c) PROVE NoticesInv'
  <2>1. /\ RunInLoop(x, Base, Call("remove_connection_in_loop", c))
        /\ UNCHANGED <<connections_, functors, running>>
    BY <1>4 DEF RemoveConnection, loopVars
  <2>2. /\ Call("remove_connection_in_loop", c) \in AnyCall
        /\ Call("remove_connection_in_loop", c).fn # "output_callback"
    BY DEF AnyCall, BaseCalls, Call
  <2> QED
    BY <1>1, <2>1, <2>2, NoticesRun
<1>5. CASE NewConnection(x)
  <2>1. PICK c \in Fresh :
          /\ connections_' = connections_ \cup {c}
          /\ RunInLoop(x, NextLoop, Call("connect_established", c))
    BY <1>5 DEF NewConnection
  <2>2. /\ Call("connect_established", c) \in AnyCall
        /\ Call("connect_established", c).fn # "output_callback"
    BY DEF AnyCall, OwnCalls, ConnFunctors, Call, Fresh
  <2>3. NextLoop \in AllLoops /\ UNCHANGED <<functors, running>>
    BY <1>1, <1>5, NextLoopIsLoop DEF ThreadsInv, NewConnection, loopVars
  <2> QED
    BY <1>1, <2>1, <2>2, <2>3, NoticesRun
<1>6. ASSUME NEW c \in Conns, RemoveConnectionInLoop(x, c) PROVE NoticesInv'
  <2> DEFINE f == Call("connect_destroyed", c)
             l == conn[c].loop
  <2>1. /\ Executing(x, "remove_connection_in_loop", c)
        /\ \/ UNCHANGED <<connections_, queue_functors_, functors, running>>
           \/ /\ c \in connections_ /\ connections_' = connections_ \ {c}
              /\ RunInLoop(x, l, f) /\ UNCHANGED <<functors, running>>
    BY <1>6 DEF RemoveConnectionInLoop, Abort, loopVars
  <2>2. x = Base /\ c \in Known
    BY <1>1, <2>1, OnServerThread DEF BaseCalls
  <2>3. l \in AllLoops /\ x # l
    BY <1>1, <2>2
  <2>4. CASE UNCHANGED <<connections_, queue_functors_, functors, running>>
    BY <1>1, <2>4, NoticesSame
  <2>5. CASE /\ c \in connections_ /\ connections_' = connections_ \ {c}
             /\ RunInLoop(x, l, f) /\ UNCHANGED <<functors, running>>
    <3>1. queue_functors_' = [queue_functors_ EXCEPT ![l] = Append(@, f)]
      BY <2>3, <2>5 DEF RunInLoop
    <3>2. /\ f \in AnyCall /\ f \in Leaving(c)
          /\ \A d \in Conns : f \notin Notice(d)
      BY DEF AnyCall, OwnCalls, ConnFunctors, Call, Notice, Leaving
    <3>3. ~Has(Rest(l), Leaving(c))
      <4>1. ~Has(Agenda(l), Destroy(c))
        BY <2>2, <2>3, <2>5 DEF ServerSound, SoundInv, SoundConns, SoundLife, Own
      <4>2. Has(Rest(l), Leaving(c)) => Has(Rest(l), Destroy(c))
        BY DEF Has, Leaving, Destroy
      <4>3. calls[l] \in Seq(AnyCall) /\ Rest(l) \in Seq(AnyCall)
        BY <1>1, <2>3, AgendaTyped DEF ThreadsInv, CallsTyped, Threads
      <4>4. \A T : Has(Agenda(l), T) <=> Has(calls[l], T) \/ Has(Rest(l), T)
        BY <4>3, Joined DEF Agenda
      <4> QED
        BY <4>1, <4>2, <4>4
    <3>4. \A m \in AllLoops : m # l => ~Has(Rest(m), Notice(c))
      BY <1>1, NoticesOwn DEF Own
    <3> HIDE DEF f, l
    <3>5. \A d \in Conns :
            \/ d \in connections_'
            \/ /\ f \notin Notice(d)
               /\ \/ d \notin connections_
                  \/ /\ f \in Leaving(d) /\ ~Has(Rest(l), Leaving(d))
                     /\ \A m \in AllLoops : m # l => ~Has(Rest(m), Notice(d))
      BY <2>5, <3>2, <3>3, <3>4
    <3> QED
      BY <1>1, <2>3, <2>5, <3>1, <3>2, <3>5, NoticesPosted
  <2> QED
    BY <2>1, <2>4, <2>5
<1>7. ASSUME NEW c \in Conns PROVE ~Release(x, c)
  <2>1. ASSUME Release(x, c) PROVE FALSE
    <3>1. Executing(x, "release", c)
      BY <2>1 DEF Release
    <3>2. x = Base /\ "release" \notin OwnCalls
      BY <1>1, <3>1, OnServerThread DEF BaseCalls, OwnCalls, ConnFunctors, Raw
    <3>3. calls[Base] # <<>> /\ Head(calls[Base]) \in Drop(c)
      BY <3>1, <3>2 DEF Executing, Drop
    <3>4. Has(Agenda(Base), Drop(c))
      BY <1>1, <3>3, HeadAhead
    <3> QED
      BY <1>1, <3>4, NoDrops
  <2> QED
    BY <2>1
<1>8. ASSUME NEW c \in Conns,
             \/ ConnectEstablished(x, c) \/ HandleRead(x, c) \/ HandleError(x, c)
             \/ HandleWrite(x, c) \/ HandleWritten(x, c) \/ HandleClose(x, c)
             \/ ConnectDestroyed(x, c) \/ RemoveChannel(x, c) \/ SendInLoop(x, c)
             \/ OutputCallback(x, c) \/ ShutdownInLoop(x, c) \/ ForceCloseInLoop(x, c)
             \/ StartReadInLoop(x, c) \/ StopReadInLoop(x, c) \/ TestState(x, c)
             \/ UserReturns(x, c)
      PROVE  NoticesInv'
  <2>1. UNCHANGED <<connections_, queue_functors_, functors, running>>
    BY <1>8 DEF ConnectEstablished, HandleRead, HandleError, HandleWrite, HandleWritten,
       HandleClose, ConnectDestroyed, RemoveChannel, SendInLoop, OutputCallback,
       ShutdownInLoop, ForceCloseInLoop, StartReadInLoop, StopReadInLoop, TestState,
       UserReturns, Return, Abort, loopVars
  <2> QED
    BY <1>1, <2>1, NoticesSame
<1> QED
  BY <1>2, <1>3, <1>4, <1>5, <1>6, <1>7, <1>8 DEF Continue, ConnStep

\* A loop goes on: what is left to do moves from the queue to the batch, in its order.
LEMMA LoopNotices ==
  ASSUME WellUsed, ServerSound, NEW l \in AllLoops, Loop(l)
  PROVE  NoticesInv'
<1>1. NoticesInv /\ ThreadsInv /\ l \in Threads /\ connections_' = connections_
  BY DEF ServerSound, NoticeInv, Threads, Loop, LoopStep, PollAccepting, Poll, HandleAccept,
     HandleEvent, Dispatches, SwapQueue, RunFunctor, FunctorsDone, Abort
<1>2. CASE PollAccepting(l) \/ HandleAccept(l) \/ HandleEvent(l)
  <2>1. UNCHANGED <<queue_functors_, functors, running>>
    BY <1>2 DEF PollAccepting, Poll, HandleAccept, HandleEvent, Dispatches, Abort, loopVars
  <2> QED
    BY <1>1, <2>1, NoticesSame
<1>3. \A m \in AllLoops : m # l => Rest(m)' = Rest(m)
  BY <1>1 DEF Loop, LoopStep, PollAccepting, Poll, HandleAccept, HandleEvent, Dispatches,
     SwapQueue, RunFunctor, FunctorsDone, Abort, loopVars, Rest, Batch, ThreadsInv,
     QueuesTyped, LoopsTyped
<1>4. CASE SwapQueue(l)
  <2> DEFINE q == queue_functors_[l]
  <2>1. /\ functors'[l] = q /\ running'[l] = 0 /\ queue_functors_'[l] = <<>>
        /\ functors[l] = <<>> /\ running[l] = 0 /\ q \in Seq(AnyCall)
    BY <1>1, <1>4 DEF SwapQueue, ThreadsInv, LoopsTyped, QueuesTyped
  <2>2. SubSeq(<<>>, 1, 0) = <<>>
    OBVIOUS
  <2>3. Rest(l) = <<>> \o q /\ Rest(l)' = SubSeq(q, 1, Len(q)) \o <<>>
    BY <2>1, <2>2 DEF Rest, Batch
  <2>4. <<>> \o q = q /\ SubSeq(q, 1, Len(q)) \o <<>> = q
    <3> HIDE DEF q
    <3> QED
      BY <2>1
  <2> QED
    BY <1>1, <1>3, <2>3, <2>4, NoticesStay
<1>5. CASE RunFunctor(l)
  <2>1. CASE UNCHANGED <<queue_functors_, functors, running>>
    BY <1>1, <2>1, NoticesSame
  <2>2. CASE /\ running' = [running EXCEPT ![l] = @ + 1]
             /\ UNCHANGED <<queue_functors_, functors>>
    <3>11. PICK f : f = functors[l][running[l] + 1]
      OBVIOUS
    <3> DEFINE b == SubSeq(functors[l], running[l] + 2, Len(functors[l]))
               q == queue_functors_[l]
               u == <<f>>
    <3>1. /\ running[l] < Len(functors[l]) /\ running[l] \in Nat
          /\ functors[l] \in Seq(AnyCall) /\ q \in Seq(AnyCall)
          /\ running'[l] = running[l] + 1
      BY <1>1, <1>5, <2>2 DEF RunFunctor, ThreadsInv, LoopsTyped, QueuesTyped
    <3>2. Batch(l) = u \o b /\ b \in Seq(AnyCall) /\ u \in Seq(AnyCall)
      <4>1. f \in AnyCall
        BY <3>1, <3>11, FirstOfRest
      <4>2. Batch(l) = <<f>> \o b /\ b \in Seq(AnyCall)
        BY <3>1, <3>11, FirstOfRest DEF Batch
      <4> QED
        BY <4>1, <4>2
    <3>3. Batch(l)' = b
      <4>1. running[l] + 1 + 1 = running[l] + 2
        BY <3>1
      <4> QED
        BY <2>2, <3>1, <4>1 DEF Batch
    <3>4. Rest(l) = (u \o b) \o q /\ Rest(l)' = b \o q
      BY <2>2, <3>2, <3>3 DEF Rest
    <3> HIDE DEF b, q, u
    <3>5. (u \o b) \o q = u \o (b \o q)
      <4>1. u \in Seq(AnyCall) /\ b \in Seq(AnyCall) /\ q \in Seq(AnyCall)
        BY <3>1, <3>2
      <4> QED
        BY <4>1, ConcatAssociative, SMTT(30)
    <3>6. b \o q \in Seq(AnyCall)
      BY <3>1, <3>2, ConcatProperties
    <3> DEFINE r == b \o q
    <3>7. /\ Rest(l) = u \o r /\ Rest(l)' = r /\ r \in Seq(AnyCall) /\ u \in Seq(AnyCall)
      BY <3>2, <3>4, <3>5, <3>6
    <3> HIDE DEF r
    <3>8. /\ \A T : Has(u \o r, T) <=> Has(u, T) \/ Has(r, T)
          /\ \A A, B : Ordered(u \o r, A, B) <=>
               /\ Ordered(u, A, B) /\ Ordered(r, A, B)
               /\ ~(Has(u, B) /\ Has(r, A))
      BY <3>7, Joined
    <3>9. ASSUME NEW c \in Conns, Noticed(Rest(l), c) PROVE Noticed(Rest(l)', c)
      BY <3>7, <3>8, <3>9 DEF Noticed
    <3>10. ASSUME NEW m \in AllLoops, NEW c \in Conns, Noticed(Rest(m), c)
           PROVE  Noticed(Rest(m)', c)
      BY <1>3, <3>9, <3>10
    <3>12. connections_' = connections_ /\ NoticesInv
      BY <1>1
    <3> QED
      BY <3>10, <3>12 DEF NoticesInv, Noticed, Notice, Leaving
  <2>3. \/ UNCHANGED <<queue_functors_, functors, running>>
        \/ /\ running' = [running EXCEPT ![l] = @ + 1]
           /\ UNCHANGED <<queue_functors_, functors>>
    <3>1. PICK f : f = functors[l][running[l] + 1]
      OBVIOUS
    <3> QED
      BY <1>5, <3>1 DEF RunFunctor, Abort, loopVars
  <2> QED
    BY <2>1, <2>2, <2>3
<1>6. CASE FunctorsDone(l)
  <2> DEFINE q == queue_functors_[l]
  <2>1. /\ functors'[l] = <<>> /\ running'[l] = 0 /\ calls[l] = <<>>
        /\ running[l] = Len(functors[l])
        /\ queue_functors_'[l] = q \/ queue_functors_'[l] = <<>>
        /\ q \in Seq(AnyCall)
    BY <1>1, <1>6 DEF FunctorsDone, Idle, ThreadsInv, LoopsTyped, QueuesTyped
  <2>2. SubSeq(<<>>, 1, 0) = <<>>
    OBVIOUS
  <2>3. Rest(l)' = <<>> \o queue_functors_'[l]
    <3>1. Batch(l)' = <<>>
      BY <2>1, <2>2 DEF Batch
    <3> QED
      BY <3>1 DEF Rest
  <2>4. Rest(l) = q
    <3>1. Agenda(l) = q
      BY <1>1, <2>1, BatchDone
    <3>2. Agenda(l) = <<>> \o Rest(l)
      BY <2>1 DEF Agenda
    <3>3. Rest(l) \in Seq(AnyCall)
      BY <1>1, AgendaTyped
    <3> DEFINE r == Rest(l)
    <3> HIDE DEF r
    <3>4. <<>> \o r = r
      BY <3>3 DEF r
    <3> QED
      BY <3>1, <3>2, <3>4 DEF r
  <2>5. Rest(l)' = Rest(l) \/ Rest(l)' = <<>>
    <3>1. <<>> \o q = q
      <4> HIDE DEF q
      <4> QED
        BY <2>1
    <3> QED
      BY <2>1, <2>3, <2>4, <3>1
  <2>6. ASSUME NEW m \in AllLoops, NEW c \in Conns, Noticed(Rest(m), c)
        PROVE  Noticed(Rest(m)', c)
    BY <1>3, <2>5, <2>6 DEF Noticed, Has
  <2> QED
    BY <1>1, <2>6 DEF NoticesInv, Noticed, Notice, Leaving
<1> QED
  BY <1>2, <1>4, <1>5, <1>6 DEF Loop, LoopStep

\* Output callbacks keep being held by what holds their connection.
LEMMA NextNotices ==
  ASSUME WellUsed, ServerSound, [Next]_vars
  PROVE  NoticesInv'
<1>1. ASSUME NEW x \in Threads, Continue(x) PROVE NoticesInv'
  BY <1>1, ContinueNotices
<1>2. ASSUME NEW l \in AllLoops, Loop(l) PROVE NoticesInv'
  BY <1>2, LoopNotices
<1>3. CASE UserStep \/ PeerStep \/ ServerStep \/ UNCHANGED vars
  <2>1. UNCHANGED <<connections_, queue_functors_, functors, running>>
    BY <1>3, ZenonT(60) DEF UserStep, PeerStep, UserCalls, ThreadCalls, UserDrops, PeerSends,
       PeerFinishes, PeerResets, PeerActs, ServerStep, Start, QuitBase, DestroyServer,
       StopPool, Return, vars, connVars, loopVars
  <2> QED
    BY <2>1, NoticesSame DEF ServerSound, NoticeInv
<1> QED
  BY <1>1, <1>2, <1>3 DEF Next

\* A well used server stays sound.
LEMMA SoundInvariant == WellUsed => (Spec => [](ServerSound /\ aborted = "no"))
<1> SUFFICES ASSUME WellUsed PROVE Spec => [](ServerSound /\ aborted = "no")
  OBVIOUS
<1>1. ClosesOnOwnThread
  BY WellClosed
<1> DEFINE Inv == SoundInv /\ NoticeInv /\ aborted = "no"
<1>2. Init => Inv
  BY InitSound, InitNotice
<1>3. Inv /\ ThreadsInv /\ SettledInv /\ [Next]_vars => Inv'
  <2> SUFFICES ASSUME Inv, ThreadsInv, SettledInv, [Next]_vars PROVE Inv'
    OBVIOUS
  <2>1. ServerSound
    BY DEF ServerSound
  <2>2. SoundInv' /\ aborted' = aborted
    BY <2>1, NextSound
  <2>3. NoticeInv'
    BY <2>1, NextKept, NextNotices DEF NoticeInv
  <2> QED
    BY <2>2, <2>3
<1>4. Spec => []ThreadsInv /\ []SettledInv
  BY <1>1, ThreadsInvariant, SettledInvariant
<1>5. Inv /\ ThreadsInv /\ SettledInv => ServerSound /\ aborted = "no"
  BY DEF ServerSound
<1> HIDE DEF Inv
<1> QED
  BY <1>2, <1>3, <1>4, <1>5, PTL DEF Spec

\* Used well, the server never fails an assertion of its code and never uses a connection
\* that was freed: handle_close finds it open, connect_established finds it CONNECTING,
\* the server's map still holds the one it erases, a channel is removed once, without
\* interest and outside the list being handled, a raw functor or a reported channel finds
\* its connection alive, and the poll's list never fills (tcp_conn.cpp, tcp_server.cpp,
\* channel.cpp, poller.cpp, eventloop.cpp).
THEOREM NeverAborts == WellUsed => (Spec => []NothingAborts)
<1> SUFFICES ASSUME WellUsed PROVE Spec => []NothingAborts
  OBVIOUS
<1>1. ServerSound /\ aborted = "no" => NothingAborts
  BY DEF NothingAborts
<1> QED
  BY <1>1, SoundInvariant, PTL

\* Used well, a connection is not destroyed before its channel left the Poller, unless the
\* thread of its loop is over (~TcpConn and ~Channel, after connect_destroyed).
THEOREM LeavesThePoller == WellUsed => (Spec => []DestroyedIsUnregistered)
<1> SUFFICES ASSUME WellUsed PROVE Spec => []DestroyedIsUnregistered
  OBVIOUS
<1>1. ServerSound => DestroyedIsUnregistered
  <2> SUFFICES ASSUME ServerSound, NEW c \in Conns, Created(c), ~Alive(c)
               PROVE  conn[c].channel.flag = "UNADD" \/ phase[conn[c].loop] = "exited"
    BY DEF DestroyedIsUnregistered
  <2>1. PICK l \in AllLoops : l = conn[c].loop
    BY DEF ServerSound, ThreadsInv, ConnsTyped
  <2>2. c \in Own(l)
    BY <2>1 DEF Own, Known
  <2> QED
    BY <2>1, <2>2, LivesOn DEF Gone
<1> QED
  BY <1>1, SoundInvariant, PTL

-----------------------------------------------------------------------------
(* What the user is promised: a server that is used well and not destroyed   *)
(* implements ConnLifecycle.                                                 *)

\* The calls on c, and the functors that hold it.
CallsOn(c)   == {k \in AnyCall : k.c = c}
Capturing(c) == {k \in CallsOn(c) : k.fn \in Owning}

\* A sequence of calls holds c when one of these is among them.
LEMMA HeldAs ==
  ASSUME NEW s \in Seq(AnyCall), NEW c
  PROVE  /\ (\E i \in 1..Len(s) : s[i].c = c) <=> Has(s, CallsOn(c))
         /\ Captured(s, c) <=> Has(s, Capturing(c))
<1>1. \A i \in 1..Len(s) : s[i] \in AnyCall
  BY ElementOfSeq
<1> QED
  BY <1>1 DEF Has, Captured, CallsOn, Capturing

\* A connection that nothing new holds was alive before.
LEMMA NoRevival ==
  ASSUME NEW d \in Conns, Created(d)' => Created(d),
         connections_' \subseteq connections_, d \in kept' => Alive(d),
         \A m \in AllLoops :
           Captured(queue_functors_'[m], d) \/ Captured(functors'[m], d) => Alive(d),
         \A y \in Threads : \A i \in 1..Len(calls'[y]) : calls'[y][i].c = d => Alive(d)
  PROVE  Alive(d)' => Alive(d)
  BY DEF Alive

\* The innermost call of x, which is on c, goes on: it makes calls on c or on what is
\* kept, or queues one on c.
Works(x, c) ==
  /\ calls[x] # <<>> /\ Head(calls[x]).c = c
  /\ \E more \in Seq(AnyCall) :
       /\ \A i \in 1..Len(more) : more[i].c = c \/ more[i].c \in kept
       /\ calls' = [calls EXCEPT ![x] = more \o Tail(@)]
  /\ \/ UNCHANGED queue_functors_
     \/ \E l \in AllLoops : \E f \in CallsOn(c) :
          queue_functors_' = [queue_functors_ EXCEPT ![l] = Append(@, f)]

\* Then c is alive, no other connection comes back, and none goes unless it leaves the
\* map or is dropped.
LEMMA WorkHolds ==
  ASSUME ThreadsInv, NEW x \in Threads, NEW c \in Known, Works(x, c), UNCHANGED functors,
         connections_' \subseteq connections_, kept' \subseteq kept \cup {c},
         \A d \in Conns : Created(d)' <=> Created(d)
  PROVE  /\ Alive(c)
         /\ \A d \in Conns : Alive(d)' => Alive(d)
         /\ connections_' = connections_ /\ kept \subseteq kept' =>
              \A d \in Conns : d # c => (Alive(d)' <=> Alive(d))
<1>1. PICK more \in Seq(AnyCall) :
        /\ \A i \in 1..Len(more) : more[i].c = c \/ more[i].c \in kept
        /\ calls' = [calls EXCEPT ![x] = more \o Tail(@)]
  BY DEF Works
<1>2. /\ calls \in [Threads -> Seq(AnyCall)] /\ queue_functors_ \in [AllLoops -> Seq(AnyCall)]
      /\ calls[x] \in Seq(AnyCall) /\ calls[x] # <<>> /\ Head(calls[x]).c = c
      /\ c \in Conns /\ Created(c) /\ kept \subseteq Known
  BY DEF ThreadsInv, CallsTyped, QueuesTyped, ConnsTyped, Works, Known
<1> DEFINE h == Head(calls[x])
           t == Tail(calls[x])
<1>3. h \in AnyCall /\ t \in Seq(AnyCall) /\ calls[x] = <<h>> \o t /\ <<h>> \in Seq(AnyCall)
  BY <1>2, HeadTailProperties
<1>4. calls'[x] = more \o t /\ calls'[x] \in Seq(AnyCall)
      /\ \A y \in Threads : y # x => calls'[y] = calls[y]
  BY <1>1, <1>2, <1>3, ConcatProperties
<1>5. \A d : d # c => (Has(calls[x], CallsOn(d)) <=> Has(t, CallsOn(d)))
  <2>1. \A T : Has(<<h>> \o t, T) <=> Has(<<h>>, T) \/ Has(t, T)
    BY <1>3, Joined
  <2>2. \A T : Has(<<h>>, T) <=> h \in T
    BY Alone
  <2>3. \A d : d # c => h \notin CallsOn(d)
    BY <1>2 DEF CallsOn
  <2> HIDE DEF h, t
  <2> QED
    BY <1>3, <2>1, <2>2, <2>3
<1>6. \A d : d # c /\ d \notin kept =>
             (Has(calls'[x], CallsOn(d)) <=> Has(t, CallsOn(d)))
  <2>1. \A T : Has(more \o t, T) <=> Has(more, T) \/ Has(t, T)
    BY <1>3, Joined
  <2>2. \A d : d # c /\ d \notin kept => ~Has(more, CallsOn(d))
    BY <1>1 DEF Has, CallsOn
  <2> HIDE DEF t
  <2> QED
    BY <1>4, <2>1, <2>2
<1>7. Alive(c)
  <2>1. calls[x][1].c = c /\ 1 \in 1..Len(calls[x])
    BY <1>2
  <2> QED
    BY <1>2, <2>1 DEF Alive
<1>8. \A d : d # c => \A m \in AllLoops :
             Captured(queue_functors_'[m], d) <=> Captured(queue_functors_[m], d)
  <2>1. CASE UNCHANGED queue_functors_
    BY <2>1
  <2>2. ASSUME NEW l \in AllLoops, NEW f \in CallsOn(c),
               queue_functors_' = [queue_functors_ EXCEPT ![l] = Append(@, f)]
        PROVE  \A d : d # c => \A m \in AllLoops :
                 Captured(queue_functors_'[m], d) <=> Captured(queue_functors_[m], d)
    <3> DEFINE q == queue_functors_[l]
    <3>1. q \in Seq(AnyCall) /\ f \in AnyCall /\ f.c = c
      BY <1>2, <2>2 DEF CallsOn
    <3>2. Append(q, f) = q \o <<f>> /\ Append(q, f) \in Seq(AnyCall) /\ <<f>> \in Seq(AnyCall)
      BY <3>1, AppendIsConcat
    <3>3. \A d : d # c => (Captured(Append(q, f), d) <=> Captured(q, d))
      <4> HIDE DEF q
      <4>1. \A T : Has(q \o <<f>>, T) <=> Has(q, T) \/ Has(<<f>>, T)
        BY <3>1, <3>2, Joined
      <4>2. \A T : Has(<<f>>, T) <=> f \in T
        BY Alone
      <4>3. \A d : d # c => f \notin Capturing(d)
        BY <3>1 DEF Capturing, CallsOn
      <4>4. \A d : /\ Captured(q, d) <=> Has(q, Capturing(d))
                   /\ Captured(Append(q, f), d) <=> Has(Append(q, f), Capturing(d))
        BY <3>1, <3>2, HeldAs
      <4> QED
        BY <3>2, <4>1, <4>2, <4>3, <4>4
    <3>4. \A m \in AllLoops : queue_functors_'[m] = IF m = l THEN Append(q, f)
                                                    ELSE queue_functors_[m]
      BY <1>2, <2>2
    <3> QED
      BY <3>3, <3>4
  <2> QED
    BY <2>1, <2>2 DEF Works
<1>9. \A d : d # c /\ d \notin kept => \A y \in Threads :
        (\E i \in 1..Len(calls'[y]) : calls'[y][i].c = d)
          <=> (\E i \in 1..Len(calls[y]) : calls[y][i].c = d)
  <2> SUFFICES ASSUME NEW d, d # c, d \notin kept, NEW y \in Threads
               PROVE  (\E i \in 1..Len(calls'[y]) : calls'[y][i].c = d)
                        <=> (\E i \in 1..Len(calls[y]) : calls[y][i].c = d)
    OBVIOUS
  <2>1. CASE y # x
    BY <1>4, <2>1
  <2>2. CASE y = x
    <3>1. /\ (\E i \in 1..Len(calls[x]) : calls[x][i].c = d) <=> Has(calls[x], CallsOn(d))
          /\ (\E i \in 1..Len(calls'[x]) : calls'[x][i].c = d) <=> Has(calls'[x], CallsOn(d))
      BY <1>2, <1>4, HeldAs
    <3> QED
      BY <1>5, <1>6, <2>2, <3>1
  <2> QED
    BY <2>1, <2>2
<1>10. \A d \in kept : Alive(d)
  BY <1>2 DEF Alive, Known
<1>11. \A d \in Conns : Alive(d)' => Alive(d)
  <2> SUFFICES ASSUME NEW d \in Conns, d # c, d \notin kept PROVE Alive(d)' => Alive(d)
    BY <1>7, <1>10
  <2> QED
    BY <1>8, <1>9 DEF Alive
<1>12. ASSUME connections_' = connections_, kept \subseteq kept', NEW d \in Conns, d # c
       PROVE  Alive(d) => Alive(d)'
  <2>1. CASE d \in kept
    BY <1>2, <1>12, <2>1 DEF Alive, Known
  <2>2. CASE d \notin kept
    BY <1>8, <1>9, <1>12, <2>2 DEF Alive
  <2> QED
    BY <2>1, <2>2
<1> QED
  BY <1>7, <1>11, <1>12

\* What returns after calls on its own connection, or runs one of its functions in a loop.
LEMMA ReturnWorks ==
  ASSUME NEW x, NEW fn, NEW c, Executing(x, fn, c), Return(x, <<>>) \/
         \E more \in Seq(CallsOn(c)) : Return(x, more)
  PROVE  Works(x, c)
<1>1. PICK more \in Seq(CallsOn(c)) : Return(x, more)
  <2> DEFINE none == <<>>
  <2>1. none \in Seq(CallsOn(c)) /\ Return(x, <<>>) = Return(x, none)
    OBVIOUS
  <2> HIDE DEF none
  <2> QED
    BY <2>1
<1>2. more \in Seq(AnyCall) /\ \A i \in 1..Len(more) : more[i].c = c
  <2>1. CallsOn(c) \subseteq AnyCall
    BY DEF CallsOn
  <2>2. \A i \in 1..Len(more) : more[i] \in CallsOn(c)
    BY ElementOfSeq
  <2> QED
    BY <2>1, <2>2, SeqGrows DEF CallsOn
<1>3. calls[x] # <<>> /\ Head(calls[x]).c = c
  BY DEF Executing, Call
<1> QED
  BY <1>1, <1>2, <1>3 DEF Works, Return

\* And what is run in a loop, at once or from its queue.
LEMMA RunWorks ==
  ASSUME CallsTyped, NEW x \in Threads, NEW fn, NEW c, Executing(x, fn, c),
         NEW l \in AllLoops, NEW g, Call(g, c) \in AnyCall, RunInLoop(x, l, Call(g, c))
  PROVE  Works(x, c)
<1>1. Call(g, c) \in CallsOn(c)
  BY DEF CallsOn, Call
<1>2. CASE x = l
  <2>1. <<Call(g, c)>> \in Seq(CallsOn(c))
    BY <1>1
  <2> QED
    BY <1>2, <2>1, ReturnWorks DEF RunInLoop
<1>3. CASE x # l
  <2>1. calls[x] # <<>> /\ Head(calls[x]).c = c
    BY DEF Executing, Call
  <2>2. Tail(calls[x]) \in Seq(AnyCall)
    BY <2>1 DEF CallsTyped
  <2> DEFINE none == <<>>
  <2>3. /\ none \in Seq(AnyCall) /\ Len(none) = 0
        /\ none \o Tail(calls[x]) = Tail(calls[x])
    BY <2>2, ConcatEmptySeq
  <2>4. calls' = [calls EXCEPT ![x] = Tail(@)]
        /\ queue_functors_' = [queue_functors_ EXCEPT ![l] = Append(@, Call(g, c))]
    BY <1>3 DEF RunInLoop
  <2> HIDE DEF none
  <2>5. calls' = [calls EXCEPT ![x] = none \o Tail(@)]
    BY <2>3, <2>4
  <2>6. \A i \in 1..Len(none) : none[i].c = c \/ none[i].c \in kept
    BY <2>3
  <2> QED
    BY <1>1, <2>1, <2>3, <2>4, <2>5, <2>6 DEF Works
<1> QED
  BY <1>2, <1>3

\* What is under way on a connection is on one that the server made.
LEMMA WorkKnown ==
  ASSUME ThreadsInv, NEW x \in Threads, NEW fn, NEW c \in Conns, Executing(x, fn, c)
  PROVE  c \in Known /\ conn[c].loop \in AllLoops
<1>1. calls[x] # <<>> /\ Head(calls[x]) = Call(fn, c) /\ Call(fn, c).c = c
  BY DEF Executing, Call
<1>2. Call(fn, c) \in MayCall(x)
  BY <1>1, CallUnderWay DEF ThreadsInv
<1>3. c \in Known
  BY <1>1, <1>2, AcceptorAssumption DEF MayCall, Own, Call
<1> QED
  BY <1>3 DEF ThreadsInv, ConnsTyped

\* Nothing is heard of any connection, none comes back, and none changes from one of its
\* stages to another.
SameStages(d) == /\ Created(d)' <=> Created(d)
                 /\ Past(d)' <=> Past(d)
                 /\ Down(d)' <=> Down(d)
Quiet == /\ UNCHANGED log
         /\ \A d \in Conns : SameStages(d) /\ (Alive(d)' => Alive(d))

\* Nothing happens to the other connections.
OthersStay(c) == \A d \in Conns : d # c => SameStages(d) /\ (Alive(d)' <=> Alive(d))

\* A connection is made.
Made(c) == /\ UNCHANGED log
           /\ ~Created(c) /\ Created(c)' /\ ~Past(c) /\ ~Past(c)' /\ ~Down(c) /\ ~Down(c)'
           /\ Alive(c)'
           /\ OthersStay(c)

\* The user hears of c.
Heard(c, what) ==
  /\ log' = [log EXCEPT ![c] = Append(@, what)]
  /\ Created(c) /\ Alive(c) /\ Created(c)' /\ Past(c)' /\ ~Down(c)
  /\ \/ what = "UP" /\ ~Past(c) /\ ~Down(c)'
     \/ what = "MESSAGE" /\ Past(c) /\ ~Down(c)'
     \/ what = "DOWN" /\ Past(c) /\ Down(c)' /\ Alive(c)'
  /\ OthersStay(c)

LifeKind == Quiet \/ \E c \in Conns : Made(c) \/ \E what \in {"UP", "MESSAGE", "DOWN"} : Heard(c, what)

\* A step that works on c without a change of its state is quiet.
LEMMA QuietWork ==
  ASSUME ThreadsInv, NEW x \in Threads, NEW c \in Known, Works(x, c), UNCHANGED functors,
         connections_' \subseteq connections_, kept' \subseteq kept, UNCHANGED log,
         \A d \in Conns : SameStages(d)
  PROVE  Quiet
<1>1. \A d \in Conns : Created(d)' <=> Created(d)
  BY DEF SameStages
<1>2. \A d \in Conns : Alive(d)' => Alive(d)
  BY <1>1, WorkHolds
<1> QED
  BY <1>2 DEF Quiet

\* No state changes when conn does not, or when one connection keeps its state or is shut
\* down while it is open.
LEMMA StagesKept ==
  ASSUME ThreadsInv,
         \/ UNCHANGED conn
         \/ \E c \in Conns : \E r : /\ conn' = [conn EXCEPT ![c] = r]
                                    /\ \/ r.state = conn[c].state
                                       \/ Open(c) /\ r.state = "DISCONNECTING"
  PROVE  \A d \in Conns : SameStages(d)
<1>1. CASE UNCHANGED conn
  BY <1>1 DEF SameStages, Created, Past, Down
<1>2. ASSUME NEW c \in Conns, NEW r, conn' = [conn EXCEPT ![c] = r],
             \/ r.state = conn[c].state
             \/ Open(c) /\ r.state = "DISCONNECTING"
      PROVE  \A d \in Conns : SameStages(d)
  <2> SUFFICES ASSUME NEW d \in Conns PROVE SameStages(d)
    OBVIOUS
  <2>1. conn \in [Conns -> [state : States, loop : AllLoops, channel : Channels,
                            output : BOOLEAN]]
    BY DEF ThreadsInv, ConnsTyped
  <2>2. conn'[d].state = IF d = c THEN r.state ELSE conn[d].state
    BY <1>2, <2>1
  <2> QED
    BY <1>2, <2>2 DEF SameStages, Created, Past, Down, Open
<1> QED
  BY <1>1, <1>2

\* The callback for c, and a call on c behind it.
LEMMA CallbackOn ==
  ASSUME NEW c \in Conns,
         NEW fn \in {"remove_connection", "remove", "handle_close", "handle_written"}
  PROVE  /\ UserCallback(c) \in Seq(CallsOn(c)) /\ <<Call(fn, c)>> \in Seq(CallsOn(c))
         /\ Append(UserCallback(c), Call(fn, c)) \in Seq(CallsOn(c))
         /\ Append(UserCallback(c), Call(fn, c)) # <<>>
<1>1. Call("user", c) \in CallsOn(c) /\ Call(fn, c) \in CallsOn(c)
  BY DEF CallsOn, AnyCall, OwnCalls, Call
<1>2. /\ UserCallback(c) \in Seq(CallsOn(c))
      /\ Append(UserCallback(c), Call(fn, c)) \in Seq(CallsOn(c))
  BY <1>1, Callback
<1> DEFINE u == UserCallback(c)
           k == Call(fn, c)
<1>3. u \in Seq(CallsOn(c)) /\ k \in CallsOn(c)
  BY <1>1, <1>2
<1> HIDE DEF u, k
<1>4. Append(u, k) # <<>> /\ <<k>> \in Seq(CallsOn(c))
  BY <1>3, AppendProperties
<1> QED
  BY <1>2, <1>4 DEF u, k

\* The functions of a connection that change no state and say nothing.
LEMMA SilentQuiet ==
  ASSUME ThreadsInv, NEW x \in Threads, NEW c \in Conns,
         \/ HandleError(x, c) \/ HandleWrite(x, c) \/ HandleWritten(x, c)
         \/ SendInLoop(x, c) \/ OutputCallback(x, c)
         \/ ShutdownInLoop(x, c) \/ ForceCloseInLoop(x, c) \/ StartReadInLoop(x, c)
         \/ StopReadInLoop(x, c) \/ TestState(x, c) \/ UserReturns(x, c)
         \/ RemoveChannel(x, c) /\ aborted' = aborted /\ aborted = "no"
  PROVE  Quiet
<1> DEFINE made == {"shutdown_in_loop", "handle_close", "queue_output_callback",
                    "handle_written"}
                     \cup {AfterTest[op] : op \in DOMAIN AfterTest}
<1>1. \A fn \in made : Call(fn, c) \in CallsOn(c) /\ <<Call(fn, c)>> \in Seq(CallsOn(c))
  <2>1. \A fn \in made : Call(fn, c) \in CallsOn(c)
    <3>1. \A op \in DOMAIN AfterTest : op \in Ops /\ AfterTest[op] \in Later(Ops)
      BY DEF AfterTest, Later, Ops
    <3> QED
      BY <3>1 DEF CallsOn, AnyCall, OwnCalls, ConnFunctors, Raw, Call
  <2>2. \A S : \A k \in S : <<k>> \in Seq(S)
    OBVIOUS
  <2> HIDE DEF made
  <2> QED
    BY <2>1, <2>2
<1>2. \E fn : Executing(x, fn, c)
  BY DEF HandleError, HandleWrite, HandleWritten, SendInLoop, OutputCallback,
     ShutdownInLoop, ForceCloseInLoop, StartReadInLoop, StopReadInLoop, TestState,
     UserReturns, RemoveChannel
<1>3. c \in Known
  BY <1>2, WorkKnown
<1>4. \/ Return(x, <<>>) \/ \E fn \in made : Return(x, <<Call(fn, c)>>)
      \/ Return(x, UserCallback(c))
      \/ Return(x, Append(UserCallback(c), Call("handle_written", c)))
  <2>1. CASE TestState(x, c)
    BY <2>1 DEF TestState
  <2>2. CASE HandleWrite(x, c)
    <3>1. Append(<<>>, Call("handle_written", c)) = <<Call("handle_written", c)>>
      OBVIOUS
    <3> QED
      BY <2>2, <3>1 DEF HandleWrite
  <2>3. CASE ForceCloseInLoop(x, c)
    BY <2>3 DEF ForceCloseInLoop
  <2>4. CASE RemoveChannel(x, c) /\ aborted' = aborted /\ aborted = "no"
    BY <2>4 DEF RemoveChannel, Abort
  <2>5. CASE \/ HandleError(x, c) \/ OutputCallback(x, c) \/ ShutdownInLoop(x, c)
             \/ StartReadInLoop(x, c) \/ StopReadInLoop(x, c) \/ UserReturns(x, c)
    BY <2>5 DEF HandleError, OutputCallback, ShutdownInLoop, StartReadInLoop,
       StopReadInLoop, UserReturns
  <2>6. CASE SendInLoop(x, c)
    <3>1. Return(x, <<>>) \/ Return(x, TellOutput(c))
      BY <2>6 DEF SendInLoop
    <3> QED
      BY <3>1 DEF TellOutput
  <2>7. CASE HandleWritten(x, c)
    BY <2>7 DEF HandleWritten
  <2> QED
    BY <2>1, <2>2, <2>3, <2>4, <2>5, <2>6, <2>7
<1>5. Works(x, c)
  <2>1. Return(x, <<>>) \/ \E more \in Seq(CallsOn(c)) : Return(x, more)
    <3>1. /\ UserCallback(c) \in Seq(CallsOn(c))
          /\ Append(UserCallback(c), Call("handle_written", c)) \in Seq(CallsOn(c))
      BY CallbackOn
    <3> HIDE DEF made
    <3> QED
      BY <1>1, <1>4, <3>1
  <2> QED
    BY <1>2, <2>1, ReturnWorks
<1>6. UNCHANGED <<connections_, kept, functors, log>>
  BY DEF HandleError, HandleWrite, HandleWritten, SendInLoop, OutputCallback,
     ShutdownInLoop, ForceCloseInLoop, StartReadInLoop, StopReadInLoop, TestState,
     UserReturns, RemoveChannel, Abort, loopVars
<1>7. UNCHANGED conn \/ \E r : conn' = [conn EXCEPT ![c] = r] /\ r.state = conn[c].state
  <2>1. conn[c] \in [state : States, loop : AllLoops, channel : Channels, output : BOOLEAN]
    BY DEF ThreadsInv, ConnsTyped
  <2>2. \A ch, out : [conn[c] EXCEPT !.output = out, !.channel = ch].state = conn[c].state
    BY <2>1
  <2>3. \A ch : [conn[c] EXCEPT !.channel = ch].state = conn[c].state
    BY <2>1
  <2>4. CASE HandleWrite(x, c)
    <3>1. \/ UNCHANGED conn
          \/ conn' = [conn EXCEPT ![c] = [conn[c] EXCEPT !.output = FALSE,
                        !.channel = Disable(conn[c].channel, "write")]]
      BY <2>1, <2>4 DEF HandleWrite, ThreadsInv, ConnsTyped
    <3> QED
      BY <2>2, <3>1
  <2>5. CASE SendInLoop(x, c)
    <3>1. \/ UNCHANGED conn
          \/ conn' = [conn EXCEPT ![c] = [conn[c] EXCEPT !.output = TRUE,
                        !.channel = IF IsWriting(conn[c].channel) THEN conn[c].channel
                                    ELSE Enable(conn[c].channel, "write")]]
      BY <2>1, <2>5 DEF SendInLoop, ThreadsInv, ConnsTyped
    <3> QED
      BY <2>2, <3>1, ZenonT(60)
  <2>6. CASE StartReadInLoop(x, c)
    <3>1. \/ UNCHANGED conn
          \/ conn' = [conn EXCEPT ![c] = [conn[c] EXCEPT
                        !.channel = Enable(conn[c].channel, "read")]]
      BY <2>1, <2>6 DEF StartReadInLoop, ThreadsInv, ConnsTyped
    <3> QED
      BY <2>3, <3>1
  <2>7. CASE StopReadInLoop(x, c)
    <3>1. \/ UNCHANGED conn
          \/ conn' = [conn EXCEPT ![c] = [conn[c] EXCEPT
                        !.channel = Disable(conn[c].channel, "read")]]
      BY <2>1, <2>7 DEF StopReadInLoop, ThreadsInv, ConnsTyped
    <3> QED
      BY <2>3, <3>1
  <2>8. CASE RemoveChannel(x, c) /\ aborted' = aborted /\ aborted = "no"
    <3>1. conn' = [conn EXCEPT ![c] = [conn[c] EXCEPT
                     !.channel = Removed(conn[c].channel)]]
      BY <2>1, <2>8 DEF RemoveChannel, Abort, ThreadsInv, ConnsTyped
    <3> QED
      BY <2>3, <3>1
  <2>9. CASE \/ HandleError(x, c) \/ ShutdownInLoop(x, c) \/ ForceCloseInLoop(x, c)
             \/ TestState(x, c) \/ UserReturns(x, c) \/ HandleWritten(x, c)
             \/ OutputCallback(x, c)
    BY <2>9 DEF HandleError, ShutdownInLoop, ForceCloseInLoop, TestState, UserReturns,
       HandleWritten, OutputCallback
  <2> QED
    BY <2>4, <2>5, <2>6, <2>7, <2>8, <2>9
<1>8. \A d \in Conns : SameStages(d)
  BY <1>7, StagesKept
<1> QED
  BY <1>3, <1>5, <1>6, <1>8, QuietWork

\* So does queueing an output callback.
LEMMA QueueingQuiet ==
  ASSUME ThreadsInv, NEW x \in Threads, NEW c \in Conns, QueueOutputCallback(x, c)
  PROVE  Quiet
<1> DEFINE k == Call("output_callback", c)
<1>1. /\ Executing(x, "queue_output_callback", c)
      /\ queue_functors_' = [queue_functors_ EXCEPT ![x] = Append(@, k)]
      /\ UNCHANGED <<conn, connections_, kept, functors, log>>
  BY DEF QueueOutputCallback, ReturnQueueing, loopVars
<1>2. c \in Known
  BY <1>1, WorkKnown
<1>3. x \in AllLoops
  <2>1. "queue_output_callback" \in OwnCalls
    BY DEF OwnCalls
  <2> QED
    BY <1>1, <2>1, OnOwnThread, OwnerIsLoop DEF ThreadsInv
<1>4. k \in CallsOn(c)
  BY DEF CallsOn, AnyCall, OwnCalls, ConnFunctors, Raw, Call
<1> DEFINE none == <<>>
<1>5. /\ none \in Seq(AnyCall) /\ Len(none) = 0
      /\ calls' = [calls EXCEPT ![x] = none \o Tail(@)]
  BY DEF QueueOutputCallback, ReturnQueueing
<1> HIDE DEF none, k
<1>6. Works(x, c)
  <2>1. calls[x] # <<>> /\ Head(calls[x]).c = c
    BY <1>1 DEF Executing, Call
  <2>2. \A i \in 1..Len(none) : none[i].c = c \/ none[i].c \in kept
    BY <1>5
  <2> QED
    BY <1>1, <1>3, <1>4, <1>5, <2>1, <2>2 DEF Works
<1>7. \A d \in Conns : SameStages(d)
  BY <1>1, StagesKept
<1> QED
  BY <1>1, <1>2, <1>6, <1>7, QuietWork

\* So does what follows the test of a call of the user: it shuts down only what is open.
LEMMA PostQuiet ==
  ASSUME WellUsed, ServerSound, NEW x \in Threads, NEW c \in Conns, Post(x, c)
  PROVE  Quiet
<1>1. PICK p \in DOMAIN PostedBy :
        /\ Executing(x, p, c)
        /\ conn' = IF p \in {"post_shutdown", "post_force_close"}
                   THEN [conn EXCEPT ![c].state = "DISCONNECTING"] ELSE conn
        /\ RunInLoop(x, conn[c].loop, Call(PostedBy[p], c))
        /\ UNCHANGED <<socket, connections_, kept, loopVars, log, aborted>>
  BY DEF Post
<1>2. ThreadsInv /\ c \in Known /\ conn[c].loop \in AllLoops
  BY <1>1, WorkKnown DEF ServerSound
<1>3. Call(PostedBy[p], c) \in AnyCall
  BY DEF PostedBy, AnyCall, OwnCalls, ConnFunctors, Raw, Call
<1>4. Works(x, c)
  BY <1>1, <1>2, <1>3, RunWorks DEF ThreadsInv
<1>5. \A d \in Conns : SameStages(d)
  <2>1. CASE p \in Posting
    <3>1. Open(c)
      <4>1. Call(p, c) \in Inner /\ Call(p, c).fn = p /\ Call(p, c).c = c
        BY <1>1, UnderWay DEF Call
      <4> QED
        BY <2>1, <4>1 DEF Inner, Settled
    <3>2. conn' = [conn EXCEPT ![c] = [conn[c] EXCEPT !.state = "DISCONNECTING"]]
      BY <1>1, <1>2, <2>1 DEF Posting, ThreadsInv, ConnsTyped
    <3>3. [conn[c] EXCEPT !.state = "DISCONNECTING"].state = "DISCONNECTING"
      BY <1>2 DEF ThreadsInv, ConnsTyped
    <3> QED
      BY <1>2, <3>1, <3>2, <3>3, StagesKept
  <2>2. CASE p \notin Posting
    <3>1. UNCHANGED conn
      BY <1>1, <2>2 DEF Posting
    <3> QED
      BY <1>2, <3>1, StagesKept
  <2> QED
    BY <2>1, <2>2
<1> QED
  BY <1>1, <1>2, <1>4, <1>5, QuietWork DEF loopVars

\* And what the server does to remove a connection.
LEMMA RemovalQuiet ==
  ASSUME ThreadsInv, NEW x \in Threads, NEW c \in Conns, aborted = "no", aborted' = aborted,
         RemoveConnection(x, c) \/ RemoveConnectionInLoop(x, c) \/ Release(x, c)
  PROVE  Quiet
<1>1. \E fn : Executing(x, fn, c)
  BY DEF RemoveConnection, RemoveConnectionInLoop, Release
<1>2. c \in Known /\ conn[c].loop \in AllLoops /\ Base \in AllLoops
  BY <1>1, WorkKnown DEF AllLoops
<1>3. /\ UNCHANGED <<conn, kept, functors, log>> /\ connections_' \subseteq connections_
      /\ \/ RunInLoop(x, Base, Call("remove_connection_in_loop", c))
         \/ RunInLoop(x, conn[c].loop, Call("connect_destroyed", c))
  BY DEF RemoveConnection, RemoveConnectionInLoop, Release, Abort, loopVars
<1>4. /\ Call("remove_connection_in_loop", c) \in AnyCall
      /\ Call("connect_destroyed", c) \in AnyCall
  BY DEF AnyCall, OwnCalls, ConnFunctors, BaseCalls, Call
<1>5. Works(x, c)
  BY <1>1, <1>2, <1>3, <1>4, RunWorks DEF ThreadsInv
<1>6. \A d \in Conns : SameStages(d)
  BY <1>3, StagesKept
<1> QED
  BY <1>2, <1>3, <1>5, <1>6, QuietWork

\* A callback calls something on its own connection or on another that is kept.
LEMMA UserCallsQuiet ==
  ASSUME ThreadsInv, NEW x \in Threads, NEW c \in Conns, NEW d \in Conns, NEW op \in Ops,
         UserCalls(x, c, d, op)
  PROVE  Quiet
<1>1. c \in Known
  BY WorkKnown DEF UserCalls
<1>2. /\ calls' = [calls EXCEPT ![x] = <<Call(op, d)>> \o Tail(@)]
      /\ UNCHANGED <<conn, connections_, kept, functors, queue_functors_, log>>
  BY DEF UserCalls, Return, loopVars
<1>3. Executing(x, "user", c) /\ (d = c \/ d \in kept)
  BY DEF UserCalls
<1> DEFINE more == <<Call(op, d)>>
<1>4. more \in Seq(AnyCall) /\ \A i \in 1..Len(more) : more[i].c = c \/ more[i].c \in kept
  <2>1. Call(op, d) \in AnyCall /\ Call(op, d).c = d
    BY DEF AnyCall, Later, Call
  <2> QED
    BY <1>3, <2>1
<1>5. calls' = [calls EXCEPT ![x] = more \o Tail(@)]
  BY <1>2
<1> HIDE DEF more
<1>6. calls[x] # <<>> /\ Head(calls[x]).c = c
  BY <1>3 DEF Executing, Call
<1>7. Works(x, c)
  BY <1>2, <1>4, <1>5, <1>6 DEF Works
<1>8. \A e \in Conns : SameStages(e)
  BY <1>2, StagesKept
<1> QED
  BY <1>1, <1>2, <1>7, <1>8, QuietWork

\* What the user's threads, the peers and the server itself do.
LEMMA OutsideQuiet ==
  ASSUME ThreadsInv, aborted = "no", aborted' = aborted,
         \/ \E c \in Conns : \/ UserDrops(c) \/ PeerSends(c) \/ PeerFinishes(c) \/ PeerResets(c)
                             \/ \E u \in Users, op \in Ops : ThreadCalls(u, c, op)
         \/ Start \/ QuitBase \/ StopPool \/ UNCHANGED vars
  PROVE  Quiet
<1>1. UNCHANGED <<conn, connections_, queue_functors_, functors, log>> /\ kept' \subseteq kept
  BY DEF UserDrops, PeerSends, PeerFinishes, PeerResets, PeerActs, ThreadCalls, Start,
     QuitBase, StopPool, vars, connVars, loopVars
<1>2. \A d \in Conns : SameStages(d)
  BY <1>1, StagesKept
<1>3. \A d \in kept : Created(d)
  BY DEF ThreadsInv, ConnsTyped, Known
<1>4. \A d \in Conns : \A y \in Threads :
        \A i \in 1..Len(calls'[y]) : calls'[y][i].c = d /\ Created(d) => Alive(d)
  <2>1. CASE UNCHANGED calls
    BY <2>1 DEF Alive
  <2>2. ASSUME NEW u \in Users, NEW c \in Conns, NEW op \in Ops, ThreadCalls(u, c, op)
        PROVE  \A d \in Conns : \A y \in Threads :
                 \A i \in 1..Len(calls'[y]) : calls'[y][i].c = d /\ Created(d) => Alive(d)
    <3> SUFFICES ASSUME NEW d \in Conns, NEW y \in Threads, NEW i \in 1..Len(calls'[y]),
                        calls'[y][i].c = d, Created(d)
                 PROVE  Alive(d)
      OBVIOUS
    <3>1. calls' = [calls EXCEPT ![u] = <<Call(op, c)>>] /\ c \in kept
      BY <2>2 DEF ThreadCalls
    <3>2. CASE y # u
      <4>1. calls'[y] = calls[y]
        BY <3>1, <3>2
      <4> QED
        BY <4>1 DEF Alive
    <3>3. CASE y = u
      <4>1. u \in Threads
        BY DEF Threads
      <4>2. calls'[y] = <<Call(op, c)>>
        BY <3>1, <3>3, <4>1 DEF ThreadsInv, CallsTyped
      <4>3. d = c
        BY <4>2 DEF Call
      <4> QED
        BY <3>1, <4>3 DEF Alive
    <3> QED
      BY <3>2, <3>3
  <2>3. \/ UNCHANGED calls
        \/ \E u \in Users, c \in Conns, op \in Ops : ThreadCalls(u, c, op)
    BY DEF UserDrops, PeerSends, PeerFinishes, PeerResets, PeerActs, Start,
       QuitBase, StopPool, vars, connVars
  <2> QED
    BY <2>1, <2>2, <2>3
<1>5. \A d \in Conns : Alive(d)' => Alive(d)
  <2> SUFFICES ASSUME NEW d \in Conns, Created(d) PROVE Alive(d)' => Alive(d)
    BY <1>2 DEF Alive, SameStages
  <2>1. d \in kept' => Alive(d)
    BY <1>1 DEF Alive
  <2>2. \A m \in AllLoops :
          Captured(queue_functors_'[m], d) \/ Captured(functors'[m], d) => Alive(d)
    BY <1>1 DEF Alive
  <2> QED
    BY <1>1, <1>4, <2>1, <2>2, NoRevival
<1> QED
  BY <1>1, <1>2, <1>5 DEF Quiet

\* A loop calls what is alive, and its functors are those that were queued.
LEMMA LoopCallsQuiet ==
  ASSUME ThreadsInv, NEW l \in AllLoops, UNCHANGED <<conn, connections_, kept, log>>,
         NEW s, calls' = [calls EXCEPT ![l] = s],
         \A i \in 1..Len(s) : s[i].c \in Conns => Alive(s[i].c),
         \A d \in Conns : \A m \in AllLoops :
           Captured(queue_functors_'[m], d) \/ Captured(functors'[m], d)
             => Captured(queue_functors_[m], d) \/ Captured(functors[m], d)
  PROVE  Quiet
<1>1. \A d \in Conns : SameStages(d)
  BY StagesKept
<1>2. \A y \in Threads : calls'[y] = IF y = l THEN s ELSE calls[y]
  BY DEF ThreadsInv, CallsTyped, Threads
<1>3. ASSUME NEW d \in Conns, Created(d) PROVE Alive(d)' => Alive(d)
  <2>1. d \in kept' => Alive(d)
    BY <1>3 DEF Alive
  <2>2. \A m \in AllLoops :
          Captured(queue_functors_'[m], d) \/ Captured(functors'[m], d) => Alive(d)
    BY <1>3 DEF Alive
  <2>3. ASSUME NEW y \in Threads, NEW i \in 1..Len(calls'[y]), calls'[y][i].c = d
        PROVE  Alive(d)
    <3>1. CASE y = l
      BY <1>2, <2>3, <3>1
    <3>2. CASE y # l
      <4>1. calls'[y] = calls[y]
        BY <1>2, <3>2
      <4> QED
        BY <1>3, <2>3, <4>1 DEF Alive
    <3> QED
      BY <3>1, <3>2
  <2> QED
    BY <1>3, <2>1, <2>2, <2>3, NoRevival
<1>4. \A d \in Conns : Alive(d)' => Alive(d)
  BY <1>1, <1>3 DEF SameStages, Alive
<1> QED
  BY <1>1, <1>4 DEF Quiet

\* The steps of a loop between the calls.
LEMMA LoopQuiet ==
  ASSUME ThreadsInv, NEW l \in AllLoops, Loop(l), aborted = "no", aborted' = aborted
  PROVE  Quiet
<1>1. l \in Threads /\ calls[l] = <<>> /\ UNCHANGED <<conn, connections_, kept, log>>
  BY DEF Loop, LoopStep, PollAccepting, Poll, HandleAccept, HandleEvent, SwapQueue, RunFunctor,
     FunctorsDone, Dispatches, Handling, Idle, Abort, Threads
<1>2. /\ calls \in [Threads -> Seq(AnyCall)]
      /\ queue_functors_ \in [AllLoops -> Seq(AnyCall)]
      /\ functors \in [AllLoops -> Seq(AnyCall)]
  BY DEF ThreadsInv, CallsTyped, QueuesTyped, LoopsTyped
<1> DEFINE none == <<>>
<1>3. Len(none) = 0 /\ calls = [calls EXCEPT ![l] = none] /\ none = <<>>
  BY <1>1, <1>2
<1>4. \A d : ~Captured(none, d)
  BY <1>3 DEF Captured
<1> HIDE DEF none
<1>5. CASE PollAccepting(l)
  <2>1. UNCHANGED <<calls, queue_functors_, functors>>
    BY <1>5 DEF PollAccepting, Poll, Abort, loopVars
  <2>2. calls' = [calls EXCEPT ![l] = none] /\ \A i \in 1..Len(none) : none[i].c \in Conns => Alive(none[i].c)
    BY <1>3, <2>1
  <2>3. \A d \in Conns : \A m \in AllLoops :
          Captured(queue_functors_'[m], d) \/ Captured(functors'[m], d)
            => Captured(queue_functors_[m], d) \/ Captured(functors[m], d)
    BY <2>1
  <2> QED
    BY <1>1, <2>2, <2>3, LoopCallsQuiet
<1>6. CASE HandleAccept(l)
  <2> DEFINE s == <<Call("new_connection", Acceptor)>>
  <2>1. calls' = [calls EXCEPT ![l] = s] /\ UNCHANGED <<queue_functors_, functors>>
    BY <1>6 DEF HandleAccept, Dispatches
  <2>2. \A i \in 1..Len(s) : s[i].c \in Conns => Alive(s[i].c)
    BY AcceptorAssumption DEF Call
  <2> HIDE DEF s
  <2>3. \A d \in Conns : \A m \in AllLoops :
          Captured(queue_functors_'[m], d) \/ Captured(functors'[m], d)
            => Captured(queue_functors_[m], d) \/ Captured(functors[m], d)
    BY <2>1
  <2> QED
    BY <1>1, <2>1, <2>2, <2>3, LoopCallsQuiet
<1>7. CASE HandleEvent(l)
  <2>1. PICK c : c = NextActive(l).c
    OBVIOUS
  <2> DEFINE handlers == Dispatch(NextActive(l).events)
             s == [i \in 1..Len(handlers) |-> Call(handlers[i], c)]
  <2>2. /\ calls' = [calls EXCEPT ![l] = s] /\ UNCHANGED <<queue_functors_, functors>>
        /\ Alive(c)
    BY <1>7, <2>1 DEF HandleEvent, Dispatches, Abort
  <2>3. Len(handlers) \in Nat
    BY DispatchHandlers, LenProperties
  <2>4. \A i \in 1..Len(s) : s[i].c \in Conns => Alive(s[i].c)
    <3> HIDE DEF handlers
    <3>1. Len(s) = Len(handlers) /\ \A i \in 1..Len(handlers) : s[i].c = c
      BY <2>3 DEF Call
    <3> HIDE DEF s
    <3> QED
      BY <2>2, <3>1
  <2> HIDE DEF s
  <2>5. \A d \in Conns : \A m \in AllLoops :
          Captured(queue_functors_'[m], d) \/ Captured(functors'[m], d)
            => Captured(queue_functors_[m], d) \/ Captured(functors[m], d)
    BY <2>2
  <2> QED
    BY <1>1, <2>2, <2>4, <2>5, LoopCallsQuiet
<1>8. CASE SwapQueue(l)
  <2>1. /\ UNCHANGED calls
        /\ \A m \in AllLoops :
             /\ m # l => queue_functors_'[m] = queue_functors_[m] /\ functors'[m] = functors[m]
             /\ m = l => queue_functors_'[m] = none /\ functors'[m] = queue_functors_[m]
    BY <1>2, <1>3, <1>8 DEF SwapQueue
  <2>2. calls' = [calls EXCEPT ![l] = none] /\ \A i \in 1..Len(none) : none[i].c \in Conns => Alive(none[i].c)
    BY <1>3, <2>1
  <2>3. \A d \in Conns : \A m \in AllLoops :
          Captured(queue_functors_'[m], d) \/ Captured(functors'[m], d)
            => Captured(queue_functors_[m], d) \/ Captured(functors[m], d)
    BY <1>4, <2>1
  <2> QED
    BY <1>1, <2>2, <2>3, LoopCallsQuiet
<1>9. CASE RunFunctor(l)
  <2>1. PICK f : f = functors[l][running[l] + 1]
    OBVIOUS
  <2> DEFINE s == <<f>>
  <2>2. /\ calls' = [calls EXCEPT ![l] = s] /\ UNCHANGED <<queue_functors_, functors>>
        /\ f.c \in Conns => Alive(f.c)
    BY <1>9, <2>1 DEF RunFunctor, Abort
  <2>3. \A i \in 1..Len(s) : s[i].c \in Conns => Alive(s[i].c)
    BY <2>2
  <2> HIDE DEF s
  <2>4. \A d \in Conns : \A m \in AllLoops :
          Captured(queue_functors_'[m], d) \/ Captured(functors'[m], d)
            => Captured(queue_functors_[m], d) \/ Captured(functors[m], d)
    BY <2>2
  <2> QED
    BY <1>1, <2>2, <2>3, <2>4, LoopCallsQuiet
<1>10. CASE FunctorsDone(l)
  <2>1. /\ UNCHANGED calls
        /\ \A m \in AllLoops :
             /\ queue_functors_'[m] = queue_functors_[m] \/ queue_functors_'[m] = none
             /\ functors'[m] = functors[m] \/ functors'[m] = none
    BY <1>2, <1>3, <1>10 DEF FunctorsDone
  <2>2. calls' = [calls EXCEPT ![l] = none] /\ \A i \in 1..Len(none) : none[i].c \in Conns => Alive(none[i].c)
    BY <1>3, <2>1
  <2>3. \A d \in Conns : \A m \in AllLoops :
          Captured(queue_functors_'[m], d) \/ Captured(functors'[m], d)
            => Captured(queue_functors_[m], d) \/ Captured(functors[m], d)
    BY <1>4, <2>1
  <2> QED
    BY <1>1, <2>2, <2>3, LoopCallsQuiet
<1> QED
  BY <1>5, <1>6, <1>7, <1>8, <1>9, <1>10 DEF Loop, LoopStep

\* What a step says of a connection that it works on.
LEMMA HeardWork ==
  ASSUME ThreadsInv, NEW x \in Threads, NEW c \in Known, Works(x, c), UNCHANGED functors,
         connections_' = connections_, kept' = kept \/ kept' = kept \cup {c},
         UNCHANGED conn \/ \E r : conn' = [conn EXCEPT ![c] = r] /\ r.state # "none",
         NEW what, log' = [log EXCEPT ![c] = Append(@, what)], ~Down(c), Past(c)',
         \/ what = "UP" /\ ~Past(c) /\ ~Down(c)'
         \/ what = "MESSAGE" /\ Past(c) /\ ~Down(c)'
         \/ what = "DOWN" /\ Past(c) /\ Down(c)' /\ Alive(c)'
  PROVE  Heard(c, what)
<1>1. c \in Conns /\ Created(c) /\ Created(c)'
  BY DEF Known, Created, Past
<1>2. \A d \in Conns : d # c => conn'[d] = conn[d]
  BY DEF ThreadsInv, ConnsTyped
<1>3. \A d \in Conns : d # c => SameStages(d)
  BY <1>2 DEF SameStages, Created, Past, Down
<1>4. \A d \in Conns : Created(d)' <=> Created(d)
  BY <1>1, <1>3 DEF SameStages
<1>5. kept' \subseteq kept \cup {c} /\ kept \subseteq kept' /\ connections_' \subseteq connections_
  OBVIOUS
<1>6. Alive(c) /\ \A d \in Conns : d # c => (Alive(d)' <=> Alive(d))
  BY <1>4, <1>5, WorkHolds
<1>7. OthersStay(c)
  BY <1>3, <1>6 DEF OthersStay
<1> QED
  BY <1>1, <1>6, <1>7 DEF Heard

\* A connection that is made is CONNECTING and in the map.
LEMMA NewKind ==
  ASSUME ThreadsInv, NEW x \in Threads, NewConnection(x)
  PROVE  \E c \in Conns : Made(c)
<1>1. PICK c \in Fresh :
        /\ conn' = [conn EXCEPT ![c].state = "CONNECTING", ![c].loop = NextLoop]
        /\ connections_' = connections_ \cup {c}
        /\ RunInLoop(x, NextLoop, Call("connect_established", c))
  BY DEF NewConnection
<1>2. /\ Executing(x, "new_connection", Acceptor) /\ UNCHANGED <<kept, functors, log>>
      /\ calls[x] # <<>> /\ Head(calls[x]).c = Acceptor
  BY DEF NewConnection, loopVars, Executing, Call
<1>3. c \in Conns /\ ~Created(c)
  BY <1>1 DEF Fresh
<1>4. conn[c] \in [state : States, loop : AllLoops, channel : Channels, output : BOOLEAN]
      /\ conn[c].state = "none"
  BY <1>3 DEF ThreadsInv, ConnsTyped, Created
<1>5. conn'[c].state = "CONNECTING" /\ \A d \in Conns : d # c => conn'[d] = conn[d]
  BY <1>1, <1>3, <1>4 DEF ThreadsInv, ConnsTyped
<1>6. Created(c)' /\ ~Past(c) /\ ~Past(c)' /\ ~Down(c) /\ ~Down(c)'
  BY <1>4, <1>5 DEF Created, Past, Down
<1>7. Alive(c)'
  BY <1>1, <1>6 DEF Alive
<1>8. \A d \in Conns : d # c => SameStages(d)
  BY <1>5 DEF SameStages, Created, Past, Down
<1> DEFINE t == Tail(calls[x])
           f == Call("connect_established", c)
<1>9. /\ calls \in [Threads -> Seq(AnyCall)] /\ queue_functors_ \in [AllLoops -> Seq(AnyCall)]
      /\ f \in AnyCall /\ f.c = c /\ NextLoop \in AllLoops
  <2>1. f \in AnyCall /\ f.c = c
    BY <1>3 DEF AnyCall, OwnCalls, ConnFunctors, Call
  <2>2. NextLoop \in AllLoops
    BY NextLoopIsLoop DEF ThreadsInv
  <2> QED
    BY <2>1, <2>2 DEF ThreadsInv, CallsTyped, QueuesTyped
<1>10. calls[x] = <<Head(calls[x])>> \o t /\ t \in Seq(AnyCall) /\ Head(calls[x]) \in AnyCall
  BY <1>2, <1>9, HeadTailProperties
<1>11. \E more \in Seq(AnyCall) :
          /\ \A i \in 1..Len(more) : more[i] = f
          /\ calls' = [calls EXCEPT ![x] = more \o Tail(@)]
          /\ \/ UNCHANGED queue_functors_
             \/ queue_functors_' = [queue_functors_ EXCEPT ![NextLoop] = Append(@, f)]
  <2>1. CASE x = NextLoop
    <3> DEFINE more == <<f>>
    <3>1. more \in Seq(AnyCall) /\ \A i \in 1..Len(more) : more[i] = f
      BY <1>9
    <3> QED
      BY <1>1, <2>1, <3>1 DEF RunInLoop, Return
  <2>2. CASE x # NextLoop
    <3> DEFINE more == <<>>
    <3>1. more \in Seq(AnyCall) /\ Len(more) = 0 /\ more \o t = t
      BY <1>10, ConcatEmptySeq
    <3>2. calls' = [calls EXCEPT ![x] = t]
          /\ queue_functors_' = [queue_functors_ EXCEPT ![NextLoop] = Append(@, f)]
      BY <1>1, <2>2 DEF RunInLoop
    <3> HIDE DEF more, f
    <3>3. calls' = [calls EXCEPT ![x] = more \o Tail(@)] /\ \A i \in 1..Len(more) : more[i] = f
      BY <3>1, <3>2
    <3> QED
      BY <3>1, <3>2, <3>3
  <2> QED
    BY <2>1, <2>2
<1>12. PICK more \in Seq(AnyCall) :
          /\ \A i \in 1..Len(more) : more[i] = f
          /\ calls' = [calls EXCEPT ![x] = more \o Tail(@)]
          /\ \/ UNCHANGED queue_functors_
             \/ queue_functors_' = [queue_functors_ EXCEPT ![NextLoop] = Append(@, f)]
  BY <1>11
<1> HIDE DEF f
<1>13. ASSUME NEW d \in Conns, d # c
       PROVE  /\ \A y \in Threads :
                   (\E i \in 1..Len(calls'[y]) : calls'[y][i].c = d)
                     <=> (\E i \in 1..Len(calls[y]) : calls[y][i].c = d)
              /\ \A m \in AllLoops :
                   Captured(queue_functors_'[m], d) <=> Captured(queue_functors_[m], d)
  <2>1. calls'[x] = more \o t /\ calls'[x] \in Seq(AnyCall)
        /\ \A y \in Threads : y # x => calls'[y] = calls[y]
    BY <1>9, <1>10, <1>12, ConcatProperties
  <2>2. Has(calls[x], CallsOn(d)) <=> Has(t, CallsOn(d))
    <3>1. <<Head(calls[x])>> \in Seq(AnyCall)
      BY <1>10
    <3>2. \A T : Has(<<Head(calls[x])>> \o t, T) <=> Has(<<Head(calls[x])>>, T) \/ Has(t, T)
      BY <1>10, <3>1, Joined
    <3>3. \A T : Has(<<Head(calls[x])>>, T) <=> Head(calls[x]) \in T
      BY Alone
    <3>4. Head(calls[x]) \notin CallsOn(d)
      BY <1>2, AcceptorAssumption DEF CallsOn
    <3> HIDE DEF t
    <3> QED
      BY <1>10, <3>2, <3>3, <3>4
  <2>3. Has(calls'[x], CallsOn(d)) <=> Has(t, CallsOn(d))
    <3>1. \A T : Has(more \o t, T) <=> Has(more, T) \/ Has(t, T)
      BY <1>10, Joined
    <3>2. ~Has(more, CallsOn(d))
      BY <1>9, <1>12, <1>13 DEF Has, CallsOn
    <3> HIDE DEF t
    <3> QED
      BY <2>1, <3>1, <3>2
  <2>4. \A y \in Threads :
          (\E i \in 1..Len(calls'[y]) : calls'[y][i].c = d)
            <=> (\E i \in 1..Len(calls[y]) : calls[y][i].c = d)
    <3>1. /\ (\E i \in 1..Len(calls[x]) : calls[x][i].c = d) <=> Has(calls[x], CallsOn(d))
          /\ (\E i \in 1..Len(calls'[x]) : calls'[x][i].c = d) <=> Has(calls'[x], CallsOn(d))
      BY <1>9, <2>1, HeldAs
    <3> QED
      BY <2>1, <2>2, <2>3, <3>1
  <2>5. \A m \in AllLoops :
          Captured(queue_functors_'[m], d) <=> Captured(queue_functors_[m], d)
    <3>1. CASE UNCHANGED queue_functors_
      BY <3>1
    <3>2. CASE queue_functors_' = [queue_functors_ EXCEPT ![NextLoop] = Append(@, f)]
      <4>1. PICK n \in AllLoops : n = NextLoop
        BY <1>9
      <4> DEFINE q == queue_functors_[n]
      <4>2. q \in Seq(AnyCall) /\ Append(q, f) = q \o <<f>> /\ Append(q, f) \in Seq(AnyCall)
            /\ <<f>> \in Seq(AnyCall)
        BY <1>9, AppendIsConcat
      <4>3. queue_functors_' = [queue_functors_ EXCEPT ![n] = Append(@, f)]
        BY <3>2, <4>1
      <4>4. \A m \in AllLoops : queue_functors_'[m] = IF m = n THEN Append(q, f)
                                                      ELSE queue_functors_[m]
        BY <1>9, <4>3
      <4> HIDE DEF q
      <4>5. \A T : Has(q \o <<f>>, T) <=> Has(q, T) \/ Has(<<f>>, T)
        BY <4>2, Joined
      <4>6. \A T : Has(<<f>>, T) <=> f \in T
        BY Alone
      <4>7. f \notin Capturing(d)
        BY <1>9, <1>13 DEF Capturing, CallsOn
      <4>8. /\ Captured(q, d) <=> Has(q, Capturing(d))
            /\ Captured(Append(q, f), d) <=> Has(Append(q, f), Capturing(d))
        BY <4>2, HeldAs
      <4>9. Captured(Append(q, f), d) <=> Captured(q, d)
        BY <4>2, <4>5, <4>6, <4>7, <4>8
      <4> QED
        BY <4>4, <4>9 DEF q
    <3> QED
      BY <1>12, <3>1, <3>2
  <2> QED
    BY <2>4, <2>5
<1>14. ASSUME NEW d \in Conns, d # c PROVE Alive(d)' <=> Alive(d)
  <2>1. /\ d \in connections_' <=> d \in connections_
        /\ kept' = kept /\ functors' = functors /\ (Created(d)' <=> Created(d))
    BY <1>1, <1>2, <1>8, <1>14 DEF SameStages
  <2> QED
    BY <1>13, <1>14, <2>1 DEF Alive
<1> QED
  BY <1>2, <1>3, <1>6, <1>7, <1>8, <1>14 DEF Made, OthersStay

\* A connection that the thread goes on with is alive.
LEMMA ReturnAlive ==
  ASSUME ThreadsInv, NEW x \in Threads, calls[x] # <<>>, NEW c \in Conns,
         NEW more \in Seq(CallsOn(c)), more # <<>>, Return(x, more), Created(c)'
  PROVE  Alive(c)'
<1> DEFINE t == Tail(calls[x])
<1>1. t \in Seq(AnyCall)
  BY DEF ThreadsInv, CallsTyped
<1>2. CallsOn(c) \subseteq AnyCall
  BY DEF CallsOn
<1>3. more \in Seq(AnyCall) /\ 1 \in 1..Len(more) /\ more[1] \in CallsOn(c)
  BY <1>2, SeqGrows, LenProperties, EmptySeq, ElementOfSeq
<1>4. calls'[x] = more \o t
  BY DEF Return, ThreadsInv, CallsTyped
<1> HIDE DEF t
<1>5. (more \o t)[1] = more[1] /\ Len(more \o t) = Len(more) + Len(t)
  BY <1>1, <1>3, ConcatProperties
<1>6. 1 \in 1..Len(calls'[x]) /\ calls'[x][1].c = c
  BY <1>1, <1>3, <1>4, <1>5, LenProperties DEF CallsOn
<1> QED
  BY <1>6 DEF Alive

\* connect_established says that c is up.
LEMMA EstablishedKind ==
  ASSUME ThreadsInv, NEW x \in Threads, NEW c \in Conns, ConnectEstablished(x, c),
         aborted = "no", aborted' = aborted
  PROVE  Heard(c, "UP")
<1>1. /\ Executing(x, "connect_established", c) /\ conn[c].state = "CONNECTING"
      /\ conn' = [conn EXCEPT ![c].state = "CONNECTED", ![c].channel = Enable(@, "read")]
      /\ Logged(c, "UP") /\ kept' = IF KeepsRefs THEN kept \cup {c} ELSE kept
      /\ Return(x, UserCallback(c)) /\ UNCHANGED <<socket, connections_, loopVars, aborted>>
  BY DEF ConnectEstablished, Abort
<1>2. c \in Known
  BY <1>1, WorkKnown
<1>3. Works(x, c)
  BY <1>1, CallbackOn, ReturnWorks
<1>4. conn[c] \in [state : States, loop : AllLoops, channel : Channels, output : BOOLEAN]
  BY DEF ThreadsInv, ConnsTyped
<1> DEFINE r == [conn[c] EXCEPT !.state = "CONNECTED", !.channel = Enable(conn[c].channel, "read")]
<1>5. r.state = "CONNECTED" /\ conn' = [conn EXCEPT ![c] = r]
  BY <1>1, <1>4 DEF ThreadsInv, ConnsTyped
<1> HIDE DEF r
<1>6. conn'[c].state = "CONNECTED"
  BY <1>5 DEF ThreadsInv, ConnsTyped
<1>7. Past(c)' /\ ~Past(c) /\ ~Down(c) /\ ~Down(c)'
  BY <1>1, <1>6 DEF Past, Down
<1>8. log' = [log EXCEPT ![c] = Append(@, "UP")]
  BY <1>1 DEF Logged
<1>9. UNCHANGED conn \/ \E s : conn' = [conn EXCEPT ![c] = s] /\ s.state # "none"
  BY <1>5
<1>10. kept' = kept \/ kept' = kept \cup {c}
  BY <1>1
<1>11. UNCHANGED functors /\ connections_' = connections_
  BY <1>1 DEF loopVars
<1> QED
  BY <1>2, <1>3, <1>7, <1>8, <1>9, <1>10, <1>11, HeardWork

\* handle_read brings a message to a connection that is open, or says nothing.
LEMMA ReadKind ==
  ASSUME WellUsed, ServerSound, NEW x \in Threads, NEW c \in Conns, HandleRead(x, c)
  PROVE  Quiet \/ Heard(c, "MESSAGE")
<1>1. /\ Executing(x, "handle_read", c)
      /\ UNCHANGED <<conn, connections_, kept, loopVars, aborted>>
  BY DEF HandleRead
<1>2. ThreadsInv /\ c \in Known /\ UNCHANGED functors
  BY <1>1, WorkKnown DEF ServerSound, loopVars
<1>3. Past(c) /\ ~Down(c) /\ Past(c)' /\ ~Down(c)'
  <2>1. Call("handle_read", c) \in Sound(x)
    BY <1>1, UnderWay
  <2>2. Open(c)
    BY <2>1, SoundCall DEF Listening, OpenCalls
  <2> QED
    BY <1>1, <2>2 DEF Open, Past, Down
<1>4. Works(x, c)
  BY <1>1, CallbackOn, ReturnWorks DEF HandleRead
<1>5. log' = log \/ log' = [log EXCEPT ![c] = Append(@, "MESSAGE")]
  BY DEF HandleRead, Logged
<1>6. CASE log' = log
  <2>1. \A d \in Conns : SameStages(d)
    BY <1>1, <1>2, StagesKept
  <2> QED
    BY <1>1, <1>2, <1>4, <1>6, <2>1, QuietWork
<1>7. CASE log' = [log EXCEPT ![c] = Append(@, "MESSAGE")]
  BY <1>1, <1>2, <1>3, <1>4, <1>7, HeardWork
<1> QED
  BY <1>5, <1>6, <1>7

\* handle_close and connect_destroyed say that c is down, or connect_destroyed says
\* nothing.
LEMMA DownKind ==
  ASSUME ThreadsInv, NEW x \in Threads, NEW c \in Conns, NEW fn, Executing(x, fn, c),
         NEW k \in {"remove_connection", "remove"}, Open(c), TakeDown(c),
         Return(x, Append(UserCallback(c), Call(k, c))),
         UNCHANGED <<connections_, kept, loopVars>>
  PROVE  Heard(c, "DOWN")
<1>1. c \in Known /\ UNCHANGED functors
  BY WorkKnown DEF loopVars
<1> DEFINE more == Append(UserCallback(c), Call(k, c))
<1>2. more \in Seq(CallsOn(c)) /\ more # <<>> /\ Return(x, more)
  BY CallbackOn
<1> HIDE DEF more
<1>3. Works(x, c)
  BY <1>2, ReturnWorks
<1>4. conn[c] \in [state : States, loop : AllLoops, channel : Channels, output : BOOLEAN]
  BY DEF ThreadsInv, ConnsTyped
<1> DEFINE r == [conn[c] EXCEPT !.state = "DISCONNECTED", !.channel = DisableAll(conn[c].channel)]
<1>5. r.state = "DISCONNECTED" /\ conn' = [conn EXCEPT ![c] = r]
  BY <1>4 DEF TakeDown, ThreadsInv, ConnsTyped
<1> HIDE DEF r
<1>6. conn'[c].state = "DISCONNECTED"
  BY <1>5 DEF ThreadsInv, ConnsTyped
<1>7. Past(c)' /\ Past(c) /\ ~Down(c) /\ Down(c)' /\ Created(c)'
  BY <1>6 DEF Open, Past, Down, Created
<1>8. log' = [log EXCEPT ![c] = Append(@, "DOWN")]
  BY DEF TakeDown, Logged
<1>9. Alive(c)'
  <2>1. calls[x] # <<>>
    BY DEF Executing
  <2> QED
    BY <1>2, <1>7, <2>1, ReturnAlive
<1>10. UNCHANGED conn \/ \E s : conn' = [conn EXCEPT ![c] = s] /\ s.state # "none"
  BY <1>5
<1> QED
  BY <1>1, <1>3, <1>7, <1>8, <1>9, <1>10, HeardWork

\* So a connection that goes down is heard of once.
LEMMA CloseKind ==
  ASSUME ThreadsInv, NEW x \in Threads, NEW c \in Conns, aborted = "no", aborted' = aborted,
         HandleClose(x, c) \/ ConnectDestroyed(x, c)
  PROVE  Quiet \/ Heard(c, "DOWN")
<1>1. CASE HandleClose(x, c)
  <2>1. /\ Executing(x, "handle_close", c) /\ Open(c) /\ TakeDown(c)
        /\ Return(x, Append(UserCallback(c), Call("remove_connection", c)))
        /\ UNCHANGED <<connections_, kept, loopVars>>
    BY <1>1 DEF HandleClose, Abort
  <2> QED
    BY <2>1, DownKind
<1>2. CASE ConnectDestroyed(x, c) /\ conn[c].state = "CONNECTED"
  <2>1. /\ Executing(x, "connect_destroyed", c) /\ Open(c) /\ TakeDown(c)
        /\ Return(x, Append(UserCallback(c), Call("remove", c)))
        /\ UNCHANGED <<connections_, kept, loopVars>>
    BY <1>2 DEF ConnectDestroyed, Open
  <2> QED
    BY <2>1, DownKind
<1>3. CASE ConnectDestroyed(x, c) /\ conn[c].state # "CONNECTED"
  <2>1. /\ Executing(x, "connect_destroyed", c) /\ Return(x, <<Call("remove", c)>>)
        /\ UNCHANGED <<connections_, kept, functors, conn, log>>
    BY <1>3 DEF ConnectDestroyed, loopVars
  <2>2. Works(x, c)
    BY <2>1, CallbackOn, ReturnWorks
  <2>3. c \in Known
    BY <2>1, WorkKnown
  <2>4. \A d \in Conns : SameStages(d)
    BY <2>1, StagesKept
  <2> QED
    BY <2>1, <2>2, <2>3, <2>4, QuietWork
<1> QED
  BY <1>1, <1>2, <1>3

\* While the server is not destroyed, no loop is told to quit and none ends.
NoQuit == \A l \in AllLoops : ~quit_flag_[l] /\ phase[l] # "exited"

\* A server whose base loop runs is not being destroyed.
LEMMA NeverEnding ==
  ASSUME ServerSound, NoQuit
  PROVE  ~Ending
  BY DEF ServerSound, SoundInv, SoundWork, SoundEnd, NoQuit, AllLoops

\* Only the end of the server makes a loop quit.
LEMMA NoQuitKept ==
  ASSUME ~ServerDies, ServerSound, NoQuit, [Next]_vars
  PROVE  NoQuit'
<1>1. ~Ending /\ Base \in AllLoops
  BY NeverEnding DEF AllLoops
<1>2. /\ phase \in [AllLoops -> {"poll", "events", "functors", "exited"}]
      /\ quit_flag_ \in [AllLoops -> BOOLEAN]
  BY DEF ServerSound, ThreadsInv, LoopsTyped
<1>3. ASSUME NEW x \in Threads, Continue(x) PROVE NoQuit'
  <2>1. UNCHANGED <<phase, quit_flag_>>
    <3>1. CASE ConnStep(x)
      BY <3>1 DEF ConnStep, ConnectEstablished, HandleRead, HandleError, HandleWrite,
         HandleWritten, HandleClose, ConnectDestroyed, RemoveChannel, SendInLoop,
         QueueOutputCallback, OutputCallback, ShutdownInLoop, ForceCloseInLoop,
         StartReadInLoop, StopReadInLoop, TestState, Post, UserReturns, Abort, loopVars
    <3>2. CASE NewConnection(x)
      BY <3>2 DEF NewConnection, loopVars
    <3>3. ASSUME NEW c \in Conns,
                 RemoveConnection(x, c) \/ RemoveConnectionInLoop(x, c) \/ Release(x, c)
          PROVE  UNCHANGED <<phase, quit_flag_>>
      BY <3>3 DEF RemoveConnection, RemoveConnectionInLoop, Release, Abort, loopVars
    <3> QED
      BY <1>3, <3>1, <3>2, <3>3 DEF Continue
  <2> QED
    BY <2>1 DEF NoQuit
<1>4. ASSUME NEW l \in AllLoops, Loop(l) PROVE NoQuit'
  <2>1. UNCHANGED quit_flag_
    BY <1>4 DEF Loop, LoopStep, PollAccepting, Poll, HandleAccept, HandleEvent, SwapQueue,
       RunFunctor, FunctorsDone, Dispatches, Abort, loopVars
  <2>2. ~quit_flag_[l]
    BY DEF NoQuit
  <2>3. phase' = phase \/ \E p \in {"events", "functors", "poll"} : phase' = [phase EXCEPT ![l] = p]
    BY <1>4, <2>2 DEF Loop, LoopStep, PollAccepting, Poll, HandleAccept, HandleEvent, SwapQueue,
       RunFunctor, FunctorsDone, Dispatches, Abort, loopVars
  <2> QED
    BY <1>2, <2>1, <2>3 DEF NoQuit
<1>5. CASE (UserStep \/ PeerStep) /\ UNCHANGED serverVars
  BY <1>5, ZenonT(60) DEF UserStep, PeerStep, UserDrops, UserCalls, ThreadCalls, PeerSends, PeerFinishes,
     PeerResets, PeerActs, loopVars, NoQuit
<1>6. CASE ServerStep
  BY <1>1, <1>6 DEF ServerStep, Start, QuitBase, DestroyServer, StopPool, Ending, NoQuit,
     connVars, loopVars
<1>7. CASE UNCHANGED vars
  BY <1>7 DEF vars, connVars, loopVars, NoQuit
<1> QED
  BY <1>3, <1>4, <1>5, <1>6, <1>7 DEF Next

\* Every step is quiet, makes a connection, or says something of one.
LEMMA Kinds ==
  ASSUME WellUsed, ServerSound, NoQuit, aborted = "no", [Next]_vars
  PROVE  LifeKind
<1>1. ThreadsInv /\ ~Ending /\ aborted' = aborted
  BY NeverEnding, NextSound DEF ServerSound
<1>2. ASSUME NEW x \in Threads, Continue(x) PROVE LifeKind
  <2>1. CASE NewConnection(x)
    BY <1>1, <2>1, NewKind DEF LifeKind
  <2>2. ASSUME NEW c \in Conns,
               RemoveConnection(x, c) \/ RemoveConnectionInLoop(x, c) \/ Release(x, c)
        PROVE  LifeKind
    BY <1>1, <2>2, RemovalQuiet DEF LifeKind
  <2>3. CASE ConnStep(x)
    <3>1. PICK c \in Conns :
            \/ ConnectEstablished(x, c) \/ HandleRead(x, c) \/ HandleError(x, c)
            \/ HandleWrite(x, c) \/ HandleWritten(x, c) \/ HandleClose(x, c)
            \/ ConnectDestroyed(x, c) \/ RemoveChannel(x, c) \/ SendInLoop(x, c)
            \/ QueueOutputCallback(x, c) \/ OutputCallback(x, c) \/ ShutdownInLoop(x, c)
            \/ ForceCloseInLoop(x, c) \/ StartReadInLoop(x, c) \/ StopReadInLoop(x, c)
            \/ TestState(x, c) \/ Post(x, c) \/ UserReturns(x, c)
      BY <2>3 DEF ConnStep
    <3>2. CASE ConnectEstablished(x, c)
      BY <1>1, <3>2, EstablishedKind DEF LifeKind
    <3>3. CASE HandleRead(x, c)
      BY <3>3, ReadKind DEF LifeKind
    <3>4. CASE HandleClose(x, c) \/ ConnectDestroyed(x, c)
      BY <1>1, <3>4, CloseKind DEF LifeKind
    <3>5. CASE Post(x, c)
      BY <3>5, PostQuiet DEF LifeKind
    <3>6. CASE \/ HandleError(x, c) \/ HandleWrite(x, c) \/ RemoveChannel(x, c)
               \/ SendInLoop(x, c) \/ ShutdownInLoop(x, c) \/ ForceCloseInLoop(x, c)
               \/ StartReadInLoop(x, c) \/ StopReadInLoop(x, c) \/ TestState(x, c)
               \/ HandleWritten(x, c) \/ OutputCallback(x, c) \/ UserReturns(x, c)
      BY <1>1, <3>6, SilentQuiet DEF LifeKind
    <3>7. CASE QueueOutputCallback(x, c)
      BY <1>1, <3>7, QueueingQuiet DEF LifeKind
    <3> QED
      BY <3>1, <3>2, <3>3, <3>4, <3>5, <3>6, <3>7
  <2> QED
    BY <1>2, <2>1, <2>2, <2>3 DEF Continue
<1>3. ASSUME NEW l \in AllLoops, Loop(l) PROVE LifeKind
  BY <1>1, <1>3, LoopQuiet DEF LifeKind
<1>4. ASSUME NEW x \in Threads, NEW c \in Conns, NEW d \in Conns, NEW op \in Ops,
             UserCalls(x, c, d, op)
      PROVE  LifeKind
  BY <1>1, <1>4, UserCallsQuiet DEF LifeKind
<1>5. ASSUME \/ \E c \in Conns :
                  \/ UserDrops(c) \/ PeerSends(c) \/ PeerFinishes(c) \/ PeerResets(c)
                  \/ \E u \in Users, op \in Ops : ThreadCalls(u, c, op)
             \/ Start \/ QuitBase \/ StopPool \/ UNCHANGED vars
      PROVE  LifeKind
  BY <1>1, <1>5, OutsideQuiet DEF LifeKind
<1>6. ~DestroyServer
  BY DEF DestroyServer, NoQuit, AllLoops
<1> QED
  BY <1>2, <1>3, <1>4, <1>5, <1>6 DEF Next, UserStep, PeerStep, ServerStep

\* What was said of a connection tells its state.
Labels == {"UP", "MESSAGE", "DOWN"}
LogInv == /\ log \in [Conns -> Seq(Labels)]
          /\ \A c \in Conns : (Past(c) <=> log[c] # <<>>) /\ (Down(c) <=> WasDown(c))

\* What was said keeps telling the state.
LEMMA LogKept ==
  ASSUME LogInv, LifeKind
  PROVE  LogInv'
<1>1. log \in [Conns -> Seq(Labels)]
  BY DEF LogInv
<1>2. CASE Quiet
  <2>1. UNCHANGED log
    BY <1>2 DEF Quiet
  <2> QED
    BY <1>2, <2>1 DEF Quiet, SameStages, LogInv, WasDown
<1>3. ASSUME NEW c \in Conns, Made(c) PROVE LogInv'
  <2>1. UNCHANGED log
    BY <1>3 DEF Made
  <2> QED
    BY <1>3, <2>1 DEF Made, OthersStay, SameStages, LogInv, WasDown
<1>4. ASSUME NEW c \in Conns, NEW what \in Labels, Heard(c, what) PROVE LogInv'
  <2>1. log' = [log EXCEPT ![c] = Append(@, what)] /\ log[c] \in Seq(Labels)
    BY <1>1, <1>4 DEF Heard
  <2> DEFINE s == log[c]
             t == Append(s, what)
  <2>2. t \in Seq(Labels) /\ t # <<>> /\ Last(t) = what
    <3>1. s \in Seq(Labels)
      BY <2>1
    <3> HIDE DEF s
    <3> QED
      BY <3>1, AppendProperties DEF Last
  <2> HIDE DEF t
  <2>3. /\ log' \in [Conns -> Seq(Labels)] /\ log'[c] = t
        /\ \A d \in Conns : d # c => log'[d] = log[d]
    BY <1>1, <2>1, <2>2 DEF t
  <2>4. Past(c)' /\ (Down(c)' <=> what = "DOWN")
    BY <1>4 DEF Heard
  <2>5. (Past(c)' <=> log'[c] # <<>>) /\ (Down(c)' <=> WasDown(c)')
    BY <2>2, <2>3, <2>4 DEF WasDown
  <2>6. ASSUME NEW d \in Conns, d # c
        PROVE  (Past(d)' <=> log'[d] # <<>>) /\ (Down(d)' <=> WasDown(d)')
    BY <1>4, <2>3, <2>6 DEF Heard, OthersStay, SameStages, LogInv, WasDown
  <2> QED
    BY <2>3, <2>5, <2>6 DEF LogInv
<1> QED
  BY <1>2, <1>3, <1>4 DEF LifeKind, Labels

\* A connection is only destroyed when it is down.
EndsDown == \A c \in Conns : Created(c) /\ ~Alive(c) => Down(c)

\* Whatever is not down is held: by the map, or by the functor that takes it down.
LEMMA EndingsAreDown ==
  ASSUME ServerSound, NoQuit
  PROVE  EndsDown
<1> SUFFICES ASSUME NEW c \in Conns, Created(c), ~Alive(c) PROVE Down(c)
  BY DEF EndsDown
<1>1. PICK l \in AllLoops : l = conn[c].loop
  BY DEF ServerSound, ThreadsInv, ConnsTyped
<1>2. c \in Own(l) /\ ~Gone(l)
  BY <1>1 DEF Own, Known, Gone, NoQuit
<1> QED
  BY <1>2, LivesOn

\* What holds of a server that is used well and not destroyed.
LifeInv == ServerSound /\ aborted = "no" /\ NoQuit /\ LogInv /\ EndsDown

\* All of this always holds.
LEMMA LifeInvariant == WellUsed /\ ~ServerDies => (Spec => []LifeInv)
<1> SUFFICES ASSUME WellUsed, ~ServerDies PROVE Spec => []LifeInv
  OBVIOUS
<1>1. Init => NoQuit
  BY DEF Init, ConnInit, NoQuit
<1>2. Init => LogInv
  <2> SUFFICES ASSUME Init PROVE LogInv
    OBVIOUS
  <2> DEFINE none == <<>>
  <2>1. none \in Seq(Labels) /\ log = [c \in Conns |-> none] /\ none = <<>>
    BY DEF Init, ConnInit
  <2> HIDE DEF none
  <2>2. \A c \in Conns : ~Past(c) /\ ~Down(c)
    BY DEF Init, ConnInit, NewConn, Past, Down
  <2> QED
    BY <2>1, <2>2 DEF LogInv, WasDown
<1> DEFINE Sound0 == ServerSound /\ aborted = "no"
           More   == NoQuit /\ LogInv
<1>3. Init => More
  BY <1>1, <1>2
<1>4. Sound0 /\ More /\ [Next]_vars => More'
  BY NoQuitKept, Kinds, LogKept
<1>5. Spec => []Sound0
  BY SoundInvariant
<1>6. Sound0 /\ More => LifeInv
  BY EndingsAreDown DEF LifeInv
<1> HIDE DEF Sound0, More
<1> QED
  BY <1>3, <1>4, <1>5, <1>6, PTL DEF Spec

\* Every step of the server is a step of ConnLifecycle or changes nothing there.
LEMMA LifeStep ==
  ASSUME WellUsed, ~ServerDies, LifeInv, LifeInv', [Next]_vars
  PROVE  [L!Next]_(L!vars)
<1>1. LifeKind
  BY Kinds DEF LifeInv
<1>2. /\ log \in [Conns -> Seq(Labels)]
      /\ \A c \in Conns : (Past(c) <=> log[c] # <<>>) /\ (Down(c) <=> WasDown(c))
      /\ \A c \in Conns : (Past(c)' <=> log'[c] # <<>>) /\ (Down(c)' <=> WasDown(c)')
      /\ \A c \in Conns : Created(c)' /\ ~Alive(c)' => Down(c)'
  BY DEF LifeInv, LogInv, EndsDown
<1>3. \A c \in Conns : lifeStage[c] =
        IF ~Created(c) THEN "fresh" ELSE IF ~Alive(c) THEN "gone"
        ELSE IF ~Past(c) THEN "accepted" ELSE IF Down(c) THEN "down" ELSE "up"
  BY <1>2 DEF lifeStage
<1>4. \A c \in Conns : lifeStage'[c] =
        IF ~Created(c)' THEN "fresh" ELSE IF ~Alive(c)' THEN "gone"
        ELSE IF ~Past(c)' THEN "accepted" ELSE IF Down(c)' THEN "down" ELSE "up"
  BY <1>2 DEF lifeStage
<1>5. /\ lifeStage = [c \in Conns |-> lifeStage[c]]
      /\ lifeStage' = [c \in Conns |-> lifeStage'[c]]
  BY DEF lifeStage
<1>6. \A c \in Conns : (Alive(c) => Created(c)) /\ (Alive(c)' => Created(c)')
                         /\ (Past(c) => Created(c)) /\ (Down(c) => Past(c))
  BY DEF Alive, Past, Down, Created
<1>7. CASE Quiet
  <2> DEFINE S == {c \in Conns : Alive(c) /\ ~Alive(c)'}
  <2>1. \A c \in Conns : SameStages(c) /\ (Alive(c)' => Alive(c))
    BY <1>7 DEF Quiet
  <2>2. \A c \in S : lifeStage[c] = "down"
    BY <1>2, <1>3, <1>6, <2>1 DEF SameStages
  <2>3. \A c \in Conns : lifeStage'[c] = IF c \in S THEN "gone" ELSE lifeStage[c]
    BY <1>3, <1>4, <1>6, <2>1 DEF SameStages
  <2>4. lifeStage' = [c \in Conns |-> IF c \in S THEN "gone" ELSE lifeStage[c]]
    BY <1>5, <2>3
  <2>5. S \in SUBSET Conns /\ UNCHANGED log
    BY <1>7 DEF Quiet
  <2> HIDE DEF S
  <2> QED
    BY <2>2, <2>4, <2>5 DEF L!Next, L!Destroy
<1>8. ASSUME NEW c \in Conns, OthersStay(c)
      PROVE  \A d \in Conns : d # c => lifeStage'[d] = lifeStage[d]
  BY <1>3, <1>4, <1>8 DEF OthersStay, SameStages
<1>9. ASSUME NEW c \in Conns, OthersStay(c), NEW to, lifeStage'[c] = to
      PROVE  lifeStage' = [lifeStage EXCEPT ![c] = to]
  BY <1>5, <1>8, <1>9
<1>10. ASSUME NEW c \in Conns, Made(c) PROVE L!Accept(c)
  <2>1. lifeStage[c] = "fresh" /\ lifeStage'[c] = "accepted" /\ OthersStay(c) /\ UNCHANGED log
    BY <1>3, <1>4, <1>10 DEF Made
  <2>2. lifeStage' = [lifeStage EXCEPT ![c] = "accepted"]
    BY <1>9, <2>1
  <2> QED
    BY <2>1, <2>2 DEF L!Accept, L!Moves
<1>11. ASSUME NEW c \in Conns, Heard(c, "UP") PROVE L!Up(c)
  <2>1. /\ lifeStage[c] = "accepted" /\ lifeStage'[c] = "up" /\ OthersStay(c)
        /\ log' = [log EXCEPT ![c] = Append(@, "UP")]
    BY <1>2, <1>3, <1>4, <1>11 DEF Heard
  <2>2. lifeStage' = [lifeStage EXCEPT ![c] = "up"]
    BY <1>9, <2>1
  <2> QED
    BY <2>1, <2>2 DEF L!Up, L!Moves, L!Hears
<1>12. ASSUME NEW c \in Conns, Heard(c, "MESSAGE") PROVE L!Message(c)
  <2>1. /\ lifeStage[c] = "up" /\ lifeStage'[c] = "up" /\ OthersStay(c)
        /\ log' = [log EXCEPT ![c] = Append(@, "MESSAGE")]
    BY <1>2, <1>3, <1>4, <1>12 DEF Heard
  <2>2. \A d \in Conns : lifeStage'[d] = lifeStage[d]
    BY <1>8, <2>1
  <2>3. lifeStage' = lifeStage
    BY <1>5, <2>2
  <2> QED
    BY <2>1, <2>3 DEF L!Message, L!Hears
<1>13. ASSUME NEW c \in Conns, Heard(c, "DOWN") PROVE L!Down(c)
  <2>1. /\ lifeStage[c] = "up" /\ lifeStage'[c] = "down" /\ OthersStay(c)
        /\ log' = [log EXCEPT ![c] = Append(@, "DOWN")]
    BY <1>2, <1>3, <1>4, <1>13 DEF Heard
  <2>2. lifeStage' = [lifeStage EXCEPT ![c] = "down"]
    BY <1>9, <2>1
  <2> QED
    BY <2>1, <2>2 DEF L!Down, L!Moves, L!Hears
<1>14. ASSUME NEW c \in Conns, NEW what \in {"UP", "MESSAGE", "DOWN"}, Heard(c, what)
       PROVE  L!Next
  BY <1>11, <1>12, <1>13, <1>14 DEF L!Next
<1>15. ASSUME NEW c \in Conns, Made(c) PROVE L!Next
  BY <1>10, <1>15 DEF L!Next
<1> QED
  BY <1>1, <1>7, <1>14, <1>15 DEF LifeKind

\* A server that is used well and not destroyed implements ConnLifecycle: of every
\* connection the user hears UP, then messages, then DOWN, once each and in this order,
\* and it is destroyed only after DOWN (tcp_conn.cpp:177, 252, 273 and 321; the map and the
\* shared_ptrs of tcp_server.cpp).
THEOREM LifecycleKept == WellUsed /\ ~ServerDies => (Spec => ImplementsLifecycle)
<1> SUFFICES ASSUME WellUsed, ~ServerDies PROVE Spec => ImplementsLifecycle
  OBVIOUS
<1>1. Init => L!Init
  <2> SUFFICES ASSUME Init PROVE L!Init
    OBVIOUS
  <2>1. \A c \in Conns : ~Created(c)
    BY DEF Init, ConnInit, NewConn, Created
  <2>2. log = [c \in Conns |-> <<>>]
    BY DEF Init, ConnInit
  <2>3. lifeStage = [c \in Conns |-> "fresh"]
    BY <2>1 DEF lifeStage
  <2> QED
    BY <2>2, <2>3 DEF L!Init
<1>2. LifeInv /\ LifeInv' /\ [Next]_vars => [L!Next]_(L!vars)
  BY LifeStep
<1>3. Spec => []LifeInv
  BY LifeInvariant
<1> QED
  BY <1>1, <1>2, <1>3, PTL DEF Spec, ImplementsLifecycle, L!Spec
=============================================================================
