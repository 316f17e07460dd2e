-------------------------- MODULE TcpClientProofs --------------------------
(***************************************************************************)
(* Proofs about TcpClient: what its threads may have to do, that the mutex   *)
(* keeps the connection of a thread that is inside disconnect(), and that    *)
(* there is never more than one attempt or connection.                       *)
(***************************************************************************)
EXTENDS TcpClient, SequenceTheorems, FiniteSetTheorems, TLAPS

-----------------------------------------------------------------------------
(* What a stack may hold: calls that only do something to a connection or to  *)
(* the client's wishes, and calls that stand for something there is once.     *)

PlainFns == Raw \cup Ops \cup
  {"post_send", "connect_established", "handle_read", "handle_error", "handle_write",
   "handle_written", "queue_output_callback", "handle_close", "remove", "user"}

PlainCalls ==
       [fn : PlainFns, c : Conns]
  \cup [fn : {"stop_in_loop", "handle_write", "handle_error"}, c : {Connector}]
  \cup [fn : {"stop", "disconnect", "disconnect_locked", "destroy"}, c : {Client}]
  \cup [fn : {"if_up"}, c : PostedOps]

\* Second halves of what closes a connection; a connection that is to be installed, to be
\* removed, or to be destroyed.
Closers   == [fn : {"post_shutdown", "post_force_close"}, c : Conns]
Installs  == [fn : {"new_connection"}, c : Conns]
Removals  == [fn : {"remove_connection"}, c : Conns]
Endings   == [fn : {"connect_destroyed"}, c : Conns]

\* Attempts that are about to start; the destruction of the Connector's Channel; the
\* release of the mutex; the end of the client.
Starts == {Call("start_in_loop", Connector), Call("connect", Client)}
Resets == {Call("reset_channel", Connector)}
Locks  == {Call("unlock", Client)}
Ends   == {Call("destroyed", Client)}

AnyCall == PlainCalls \cup Closers \cup Installs \cup Removals \cup Endings \cup Starts
             \cup Resets \cup Locks \cup Ends

PlainFunctors ==
       [fn : Raw, c : Conns] \cup Endings
  \cup {Call("stop_in_loop", Connector), Call("destroy", Client)}
  \cup [fn : {"if_up"}, c : PostedOps]

AnyFunctor == PlainFunctors \cup Resets

\* The functors that tell the user of the output of a connection.
Tellings == [fn : {"output_callback"}, c : Conns]

AnyReport == [c : Conns \cup {Connector, TimerFd}, events : SUBSET {"IN", "OUT", "ERR", "HUP"}]

\* Behind its first n members, s has one of K; it has at most one.
HasFrom(s, n, K)  == \E i \in n + 1..Len(s) : s[i] \in K
OnceFrom(s, n, K) == \A i, j \in n + 1..Len(s) : s[i] \in K /\ s[j] \in K => i = j

Has(s, K)  == HasFrom(s, 0, K)
Once(s, K) == OnceFrom(s, 0, K)

-----------------------------------------------------------------------------
(* Sequences of calls.                                                      *)

\* What is in a sequence is at one of its places.
LEMMA HasAt ==
  ASSUME NEW s, NEW K, Len(s) \in Nat
  PROVE  /\ Has(s, K) <=> \E i \in 1..Len(s) : s[i] \in K
         /\ Once(s, K) <=> \A i, j \in 1..Len(s) : s[i] \in K /\ s[j] \in K => i = j
  BY DEF Has, Once, HasFrom, OnceFrom

\* The innermost call and those that wait for it.
LEMMA HeadOrTail ==
  ASSUME NEW X, NEW s \in Seq(X), s # <<>>, NEW K
  PROVE  /\ Tail(s) \in Seq(X) /\ Head(s) \in X
         /\ Has(s, K) <=> Head(s) \in K \/ Has(Tail(s), K)
         /\ Once(s, K) => Once(Tail(s), K)
         /\ Once(s, K) /\ Head(s) \in K => ~Has(Tail(s), K)
<1> DEFINE t == Tail(s)
           n == Len(s)
<1>1. /\ n \in Nat /\ 1 <= n /\ t \in Seq(X) /\ Len(t) = n - 1 /\ Head(s) = s[1]
      /\ \A i \in 1..n - 1 : t[i] = s[i + 1]
  BY EmptySeq, LenProperties, HeadTailProperties
<1>2. Head(s) \in X
  BY <1>1, ElementOfSeq
<1> HIDE DEF t, n
<1>3. /\ Has(s, K) <=> \E i \in 1..n : s[i] \in K
      /\ Once(s, K) <=> \A i, j \in 1..n : s[i] \in K /\ s[j] \in K => i = j
  BY <1>1, HasAt DEF n
<1>4. /\ Has(t, K) <=> \E i \in 1..n - 1 : t[i] \in K
      /\ Once(t, K) <=> \A i, j \in 1..n - 1 : t[i] \in K /\ t[j] \in K => i = j
  <2>1. Len(t) \in Nat
    BY <1>1
  <2> QED
    BY <1>1, <2>1, HasAt
<1>5. ASSUME NEW i \in 1..n - 1 PROVE i + 1 \in 1..n /\ t[i] = s[i + 1]
  BY <1>1
<1>6. ASSUME NEW i \in 1..n, i # 1 PROVE i - 1 \in 1..n - 1 /\ t[i - 1] = s[i]
  <2> DEFINE k == i - 1
  <2>1. k \in 1..n - 1 /\ k + 1 = i
    BY <1>1, <1>6
  <2> HIDE DEF k
  <2>2. t[k] = s[k + 1]
    BY <1>1, <2>1
  <2> QED
    BY <2>1, <2>2 DEF k
<1>7. Has(s, K) <=> Head(s) \in K \/ Has(t, K)
  <2>1. ASSUME Has(s, K) PROVE Head(s) \in K \/ Has(t, K)
    BY <1>1, <1>3, <1>4, <1>6, <2>1
  <2>2. Head(s) \in K => Has(s, K)
    BY <1>1, <1>3
  <2>3. ASSUME Has(t, K) PROVE Has(s, K)
    BY <1>3, <1>4, <1>5, <2>3
  <2> QED
    BY <2>1, <2>2, <2>3
<1>8. ASSUME Once(s, K) PROVE Once(t, K)
  <2>1. ASSUME NEW i \in 1..n - 1, NEW j \in 1..n - 1, t[i] \in K, t[j] \in K PROVE i = j
    <3>1. i + 1 = j + 1
      BY <1>3, <1>5, <1>8, <2>1
    <3> QED
      BY <3>1
  <2> QED
    BY <1>4, <2>1
<1>9. ASSUME Once(s, K), Head(s) \in K PROVE ~Has(t, K)
  <2>1. ASSUME NEW i \in 1..n - 1, t[i] \in K PROVE FALSE
    <3>1. i + 1 = 1
      BY <1>1, <1>3, <1>5, <1>9, <2>1
    <3> QED
      BY <3>1
  <2> QED
    BY <1>4, <2>1
<1> QED
  BY <1>1, <1>2, <1>7, <1>8, <1>9 DEF t

\* Two sequences in a row.
LEMMA Concatenated ==
  ASSUME NEW X, NEW s \in Seq(X), NEW t \in Seq(X), NEW K
  PROVE  /\ s \o t \in Seq(X)
         /\ Has(s \o t, K) <=> Has(s, K) \/ Has(t, K)
         /\ Once(s, K) /\ Once(t, K) /\ ~(Has(s, K) /\ Has(t, K)) => Once(s \o t, K)
<1> DEFINE z == s \o t
           m == Len(s)
           n == Len(t)
<1>1. /\ m \in Nat /\ n \in Nat /\ z \in Seq(X) /\ Len(z) = m + n
      /\ \A i \in 1..m + n : z[i] = IF i <= m THEN s[i] ELSE t[i - m]
  BY LenProperties, ConcatProperties
<1> HIDE DEF z, m, n
<1>2. /\ Has(s, K) <=> \E i \in 1..m : s[i] \in K
      /\ Once(s, K) <=> \A i, j \in 1..m : s[i] \in K /\ s[j] \in K => i = j
  BY <1>1, HasAt DEF m
<1>3. /\ Has(t, K) <=> \E i \in 1..n : t[i] \in K
      /\ Once(t, K) <=> \A i, j \in 1..n : t[i] \in K /\ t[j] \in K => i = j
  BY <1>1, HasAt DEF n
<1>4. /\ Has(z, K) <=> \E i \in 1..m + n : z[i] \in K
      /\ Once(z, K) <=> \A i, j \in 1..m + n : z[i] \in K /\ z[j] \in K => i = j
  <2>1. Len(z) \in Nat
    BY <1>1
  <2> QED
    BY <1>1, <2>1, HasAt
<1>5. ASSUME NEW i \in 1..m + n
      PROVE  \/ i \in 1..m /\ z[i] = s[i]
             \/ i > m /\ i - m \in 1..n /\ z[i] = t[i - m]
  BY <1>1
<1>6. ASSUME NEW i \in 1..m PROVE i \in 1..m + n /\ z[i] = s[i]
  BY <1>1
<1>7. ASSUME NEW i \in 1..n PROVE m + i \in 1..m + n /\ z[m + i] = t[i]
  BY <1>1
<1>8. Has(z, K) <=> Has(s, K) \/ Has(t, K)
  <2>1. ASSUME Has(z, K) PROVE Has(s, K) \/ Has(t, K)
    BY <1>2, <1>3, <1>4, <1>5, <2>1
  <2>2. Has(s, K) => Has(z, K)
    BY <1>2, <1>4, <1>6
  <2>3. Has(t, K) => Has(z, K)
    BY <1>3, <1>4, <1>7
  <2> QED
    BY <2>1, <2>2, <2>3
<1>9. ASSUME Once(s, K), Once(t, K), ~(Has(s, K) /\ Has(t, K)) PROVE Once(z, K)
  <2>1. ASSUME NEW i \in 1..m + n, NEW j \in 1..m + n, z[i] \in K, z[j] \in K PROVE i = j
    <3>1. CASE i \in 1..m /\ z[i] = s[i] /\ j \in 1..m /\ z[j] = s[j]
      BY <1>2, <1>9, <2>1, <3>1
    <3>2. CASE /\ i - m \in 1..n /\ z[i] = t[i - m]
               /\ j - m \in 1..n /\ z[j] = t[j - m]
      <4>1. i - m = j - m
        BY <1>3, <1>9, <2>1, <3>2
      <4> QED
        BY <1>1, <4>1
    <3>3. CASE i \in 1..m /\ z[i] = s[i] /\ j - m \in 1..n /\ z[j] = t[j - m]
      BY <1>2, <1>3, <1>9, <2>1, <3>3
    <3>4. CASE j \in 1..m /\ z[j] = s[j] /\ i - m \in 1..n /\ z[i] = t[i - m]
      BY <1>2, <1>3, <1>9, <2>1, <3>4
    <3> QED
      BY <1>5, <3>1, <3>2, <3>3, <3>4
  <2> QED
    BY <1>4, <2>1
<1> QED
  BY <1>1, <1>8, <1>9 DEF z

\* Nothing, one call, two calls, and the calls that a callback may make.
LEMMA ShortStacks ==
  ASSUME NEW X, NEW K, NEW a, NEW b
  PROVE  /\ <<>> \in Seq(X) /\ ~Has(<<>>, K) /\ Once(<<>>, K)
         /\ a \in X => <<a>> \in Seq(X)
         /\ Has(<<a>>, K) <=> a \in K
         /\ Once(<<a>>, K)
         /\ a \in X /\ b \in X => <<a, b>> \in Seq(X)
         /\ Has(<<a, b>>, K) <=> a \in K \/ b \in K
         /\ a \notin K \/ b \notin K => Once(<<a, b>>, K)
<1>1. <<>> \in Seq(X) /\ Len(<<>>) = 0
  BY EmptySeq
<1>2. ~Has(<<>>, K) /\ Once(<<>>, K)
  BY <1>1, HasAt
<1>3. Len(<<a>>) = 1 /\ <<a>>[1] = a /\ (a \in X => <<a>> \in Seq(X))
  OBVIOUS
<1>4. (Has(<<a>>, K) <=> a \in K) /\ Once(<<a>>, K)
  BY <1>3, HasAt
<1>5. /\ Len(<<a, b>>) = 2 /\ <<a, b>>[1] = a /\ <<a, b>>[2] = b
      /\ a \in X /\ b \in X => <<a, b>> \in Seq(X)
  OBVIOUS
<1>6. /\ Has(<<a, b>>, K) <=> a \in K \/ b \in K
      /\ a \notin K \/ b \notin K => Once(<<a, b>>, K)
  BY <1>5, HasAt
<1> QED
  BY <1>1, <1>2, <1>3, <1>4, <1>5, <1>6

\* A functor behind the others.
LEMMA Queued ==
  ASSUME NEW X, NEW s \in Seq(X), NEW f \in X, NEW K
  PROVE  /\ Append(s, f) \in Seq(X)
         /\ Has(Append(s, f), K) <=> Has(s, K) \/ f \in K
         /\ Once(s, K) /\ ~(Has(s, K) /\ f \in K) => Once(Append(s, f), K)
<1>1. Append(s, f) = s \o <<f>> /\ <<f>> \in Seq(X)
  BY AppendIsConcat
<1>2. (Has(<<f>>, K) <=> f \in K) /\ Once(<<f>>, K)
  BY ShortStacks
<1> DEFINE t == <<f>>
<1> HIDE DEF t
<1>3. /\ s \o t \in Seq(X)
      /\ Has(s \o t, K) <=> Has(s, K) \/ Has(t, K)
      /\ Once(s, K) /\ Once(t, K) /\ ~(Has(s, K) /\ Has(t, K)) => Once(s \o t, K)
  BY <1>1, Concatenated DEF t
<1> QED
  BY <1>1, <1>2, <1>3 DEF t

\* A sequence without members of K has none of them, and has them once.
LEMMA Without ==
  ASSUME NEW X, NEW s \in Seq(X), NEW K, X \cap K = {}
  PROVE  ~Has(s, K) /\ Once(s, K)
<1>1. Len(s) \in Nat /\ \A i \in 1..Len(s) : s[i] \in X
  BY LenProperties, ElementOfSeq
<1> QED
  BY <1>1, HasAt

-----------------------------------------------------------------------------
(* The first invariant: types, the threads' stacks, the mutex, and the        *)
(* Connector's Channel.                                                     *)

ConnsTyped ==
  /\ conn \in [Conns -> [state : States, loop : {Base}, channel : Channels,
                         output : BOOLEAN]]
  /\ connections_ \subseteq Conns /\ kept \subseteq Conns
  /\ \A c, d \in connections_ : c = d

CallsTyped ==
  /\ calls \in [Threads -> Seq(AnyCall)]
  /\ \A l \in IoLoops : calls[l] = <<>>

QueuesTyped == queue_functors_ \in [AllLoops -> Seq(AnyFunctor)]

LoopsTyped ==
  /\ functors \in [AllLoops -> Seq(AnyFunctor)]
  /\ phase \in [AllLoops -> {"poll", "events", "functors", "exited"}]
  /\ active_channels_ \in [AllLoops -> Seq(AnyReport)]
  /\ current \in [AllLoops -> Nat] /\ running \in [AllLoops -> Nat]
  /\ \A l \in AllLoops : /\ current[l] <= Len(active_channels_[l])
                         /\ running[l] <= Len(functors[l])
                         /\ phase[l] # "functors" => running[l] = 0 /\ functors[l] = <<>>
  /\ quit_flag_ \in [AllLoops -> BOOLEAN]

ClientTyped ==
  /\ state_ \in {"DISCONNECTED", "CONNECTING", "CONNECTED"}
  /\ {started_, connected_, wanted} \subseteq BOOLEAN
  /\ channel_ \in [fd : Conns, channel : Channels] \cup {None}
  /\ Trying => channel_ \in [fd : Conns, channel : Channels]
  /\ retries \in Nat /\ due \in Nat
  /\ mutex_ \in Threads \cup {None}
  /\ client \in {"up", "dying", "dead"}

\* The functor that destroys the Connector's Channel is called, or waits in the batch
\* or in the queue.
ResetAhead ==
  \/ Has(calls[Base], Resets)
  \/ HasFrom(functors[Base], running[Base], Resets)
  \/ Has(queue_functors_[Base], Resets)

\* There is one such functor, and until it has run no attempt begins.
OneReset ==
  /\ ResetAhead => channel_ # None /\ ~Trying
  /\ Once(calls[Base], Resets)
  /\ OnceFrom(functors[Base], running[Base], Resets)
  /\ Once(queue_functors_[Base], Resets)
  /\ ~(Has(calls[Base], Resets) /\ HasFrom(functors[Base], running[Base], Resets))
  /\ ~(Has(calls[Base], Resets) /\ Has(queue_functors_[Base], Resets))
  /\ ~(HasFrom(functors[Base], running[Base], Resets)
         /\ Has(queue_functors_[Base], Resets))

\* A thread of the user is outside disconnect(), before its lock, or holds the mutex and
\* is about to release it, and until then works on the connection the client holds.
Holding == <<Call("unlock", Client)>>

UserStack(u) ==
  \/ calls[u] \in {<<>>, <<Call("disconnect", Client)>>,
                   <<Call("disconnect_locked", Client)>>}
  \/ /\ mutex_ = u
     /\ \/ calls[u] = Holding
        \/ \E c \in connections_, fn \in {"shutdown", "post_shutdown"} :
             calls[u] = <<Call(fn, c), Call("unlock", Client)>>

LockInv ==
  /\ \A u \in Users : UserStack(u)
  /\ Has(calls[Base], Locks) => mutex_ = Base
  /\ Once(calls[Base], Locks)
  /\ Has(calls[Base], Ends) => client # "up"
  /\ client # "up" => \A u \in Users : Idle(u)

ClientThreads ==
  /\ ConnsTyped /\ CallsTyped /\ QueuesTyped /\ LoopsTyped /\ ClientTyped
  /\ OneReset /\ LockInv

-----------------------------------------------------------------------------
(* What the steps have in common.                                           *)

\* The names of the threads are different, and None is none of them.
LEMMA Names ==
  /\ Base \in AllLoops /\ Base \in Threads /\ Base \notin IoLoops /\ Base \notin Users
  /\ \A u \in Users : u \in Threads /\ u \notin AllLoops /\ u # Base
  /\ \A x \in Threads : x = Base \/ x \in Users \/ x \in IoLoops
  /\ None \notin Threads
  /\ Client \notin Conns /\ Connector \notin Conns /\ TimerFd \notin Conns
  /\ \A l \in AllLoops : l \in Threads
  BY ConfigAssumption, ClientAssumption DEF AllLoops, Threads

\* A functor is a call; calls of different kinds are different.
LEMMA Kinds ==
  /\ PlainFunctors \subseteq PlainCalls \cup Endings /\ AnyFunctor \subseteq AnyCall
  /\ \A K \in {Closers, Installs, Removals, Endings, Starts, Resets, Locks, Ends} :
       /\ PlainCalls \cap K = {}
       /\ K \subseteq AnyCall
  /\ PlainFunctors \cap Resets = {}
  /\ PlainCalls \subseteq AnyCall
<1>1. PlainFunctors \subseteq PlainCalls \cup Endings
  BY DEF PlainFunctors, PlainCalls, PlainFns, Call
<1>2. /\ PlainCalls \cap Closers = {} /\ PlainCalls \cap Installs = {}
      /\ PlainCalls \cap Removals = {} /\ PlainCalls \cap Starts = {}
      /\ PlainCalls \cap Endings = {} /\ Endings \cap Resets = {}
      /\ PlainCalls \cap Resets = {} /\ PlainCalls \cap Locks = {} /\ PlainCalls \cap Ends = {}
  BY DEF PlainCalls, PlainFns, Raw, Ops, Call, Closers, Installs, Removals, Endings,
         Starts, Resets, Locks, Ends
<1> QED
  BY <1>1, <1>2 DEF AnyCall, AnyFunctor

\* Only the base loop's thread does anything but disconnect().
LEMMA OnBase ==
  ASSUME CallsTyped, LockInv, NEW x \in Threads, NEW fn, NEW c, Executing(x, fn, c)
  PROVE  /\ calls[x] # <<>> /\ calls[x] \in Seq(AnyCall)
         /\ Call(fn, c) = Head(calls[x]) /\ Call(fn, c) \in AnyCall
         /\ fn \notin {"disconnect", "disconnect_locked", "unlock", "shutdown",
                       "post_shutdown"} => x = Base
         /\ x = Base \/ x \in Users
<1>1. calls[x] # <<>> /\ calls[x] \in Seq(AnyCall) /\ Call(fn, c) = Head(calls[x])
  BY DEF Executing, CallsTyped
<1>2. Call(fn, c) \in AnyCall
  BY <1>1, HeadOrTail
<1>3. x = Base \/ x \in Users
  BY <1>1, Names DEF CallsTyped
<1>4. ASSUME x \in Users
      PROVE  fn \in {"disconnect", "disconnect_locked", "unlock", "shutdown",
                     "post_shutdown"}
  <2>1. UserStack(x)
    BY <1>4 DEF LockInv
  <2>2. \/ calls[x] \in {<<Call("disconnect", Client)>>,
                         <<Call("disconnect_locked", Client)>>, <<Call("unlock", Client)>>}
        \/ \E d \in connections_, g \in {"shutdown", "post_shutdown"} :
             calls[x] = <<Call(g, d), Call("unlock", Client)>>
    BY <1>1, <2>1 DEF UserStack, Holding
  <2>3. \A a, b : Head(<<a>>) = a /\ Head(<<a, b>>) = a
    OBVIOUS
  <2>4. \E g \in {"disconnect", "disconnect_locked", "unlock", "shutdown",
                  "post_shutdown"} : \E d : Head(calls[x]) = Call(g, d)
    <3>1. CASE calls[x] \in {<<Call("disconnect", Client)>>,
                         <<Call("disconnect_locked", Client)>>, <<Call("unlock", Client)>>}
      BY <2>3, <3>1
    <3>2. ASSUME NEW d \in connections_, NEW g \in {"shutdown", "post_shutdown"},
                 calls[x] = <<Call(g, d), Call("unlock", Client)>>
          PROVE  Head(calls[x]) = Call(g, d)
      BY <2>3, <3>2
    <3> QED
      BY <2>2, <3>1, <3>2
  <2> QED
    BY <1>1, <2>4 DEF Call
<1> QED
  BY <1>1, <1>2, <1>3, <1>4

\* What the innermost call of the base loop's thread leaves behind: the calls `more'
\* and then those that waited, and perhaps a functor in its own queue.
BaseReturns(more, queued) ==
  /\ calls[Base] # <<>>
  /\ calls' = [calls EXCEPT ![Base] = more \o Tail(@)]
  /\ \/ UNCHANGED queue_functors_
     \/ \E f \in queued : queue_functors_' = [queue_functors_ EXCEPT ![Base] = Append(@, f)]
  /\ UNCHANGED loopVars

\* The stack and the queue of the base loop after that.
LEMMA BaseStack ==
  ASSUME CallsTyped, NEW more \in Seq(AnyCall), NEW queued, BaseReturns(more, queued)
  PROVE  /\ calls'[Base] = more \o Tail(calls[Base])
         /\ calls'[Base] \in Seq(AnyCall) /\ CallsTyped'
         /\ \A x \in Threads : x # Base => calls'[x] = calls[x]
         /\ \A K : /\ Has(calls'[Base], K) <=> Has(more, K) \/ Has(Tail(calls[Base]), K)
                   /\ Has(calls[Base], K) <=>
                        Head(calls[Base]) \in K \/ Has(Tail(calls[Base]), K)
                   /\ Once(calls[Base], K) /\ Head(calls[Base]) \in K =>
                        ~Has(Tail(calls[Base]), K)
                   /\ Once(calls[Base], K) /\ Once(more, K)
                        /\ ~(Has(more, K) /\ Has(Tail(calls[Base]), K)) =>
                          Once(calls'[Base], K)
<1> DEFINE s == calls[Base]
           t == Tail(s)
           z == more \o t
<1>1. s # <<>> /\ s \in Seq(AnyCall)
  BY Names DEF BaseReturns, CallsTyped
<1>2. calls'[Base] = z /\ \A x \in Threads : x # Base => calls'[x] = calls[x]
  BY Names DEF BaseReturns, CallsTyped
<1>3. t \in Seq(AnyCall)
  <2> HIDE DEF s
  <2> QED
    BY <1>1, HeadOrTail
<1>4. z \in Seq(AnyCall)
  <2> HIDE DEF t
  <2> QED
    BY <1>3, Concatenated
<1>5. CallsTyped'
  <2>1. calls' = [calls EXCEPT ![Base] = z]
    BY DEF BaseReturns
  <2> HIDE DEF z
  <2>2. calls' \in [Threads -> Seq(AnyCall)]
    BY <1>4, <2>1 DEF CallsTyped
  <2>3. \A l \in IoLoops : calls'[l] = <<>>
    BY <1>2, Names DEF CallsTyped, AllLoops, Threads
  <2> QED
    BY <2>2, <2>3 DEF CallsTyped
<1>6. ASSUME NEW K
      PROVE  /\ Has(z, K) <=> Has(more, K) \/ Has(t, K)
             /\ Has(s, K) <=> Head(s) \in K \/ Has(t, K)
             /\ Once(s, K) /\ Head(s) \in K => ~Has(t, K)
             /\ Once(s, K) /\ Once(more, K) /\ ~(Has(more, K) /\ Has(t, K)) => Once(z, K)
  <2>1. /\ Has(s, K) <=> Head(s) \in K \/ Has(t, K)
        /\ Once(s, K) => Once(t, K)
        /\ Once(s, K) /\ Head(s) \in K => ~Has(t, K)
    <3> HIDE DEF s
    <3> QED
      BY <1>1, HeadOrTail
  <2>2. /\ Has(z, K) <=> Has(more, K) \/ Has(t, K)
        /\ Once(more, K) /\ Once(t, K) /\ ~(Has(more, K) /\ Has(t, K)) => Once(z, K)
    <3> HIDE DEF t
    <3> QED
      BY <1>3, Concatenated
  <2> HIDE DEF s, t, z
  <2> QED
    BY <2>1, <2>2
<1> HIDE DEF z
<1> QED
  BY <1>2, <1>4, <1>5, <1>6 DEF z, t, s

\* Calls that concern neither the mutex nor the Connector's Channel nor the end of the
\* client.
QuietCalls ==
  PlainCalls \cup Closers \cup Installs \cup Removals \cup Endings \cup Starts

\* They are not among the others.
LEMMA QuietApart ==
  /\ QuietCalls \subseteq AnyCall /\ QuietCalls \cap Resets = {}
  /\ QuietCalls \cap Locks = {} /\ QuietCalls \cap Ends = {}
<1>1. /\ Closers \cap Resets = {} /\ Closers \cap Locks = {} /\ Closers \cap Ends = {}
      /\ Installs \cap Resets = {} /\ Installs \cap Locks = {} /\ Installs \cap Ends = {}
      /\ Removals \cap Resets = {} /\ Removals \cap Locks = {} /\ Removals \cap Ends = {}
      /\ Endings \cap Resets = {} /\ Endings \cap Locks = {} /\ Endings \cap Ends = {}
      /\ Starts \cap Resets = {} /\ Starts \cap Locks = {} /\ Starts \cap Ends = {}
  BY DEF Closers, Installs, Removals, Endings, Starts, Resets, Locks, Ends, Call
<1> QED
  BY <1>1, Kinds DEF QuietCalls, AnyCall

\* A functor that is queued is typed.
LEMMA QueueTyped ==
  ASSUME QueuesTyped, NEW queued \in SUBSET AnyFunctor,
         \/ UNCHANGED queue_functors_
         \/ \E f \in queued : queue_functors_' = [queue_functors_ EXCEPT ![Base] = Append(@, f)]
  PROVE  /\ QueuesTyped'
         /\ \A K : queued \cap K = {} =>
              /\ Has(queue_functors_'[Base], K) <=> Has(queue_functors_[Base], K)
              /\ Once(queue_functors_[Base], K) => Once(queue_functors_'[Base], K)
<1>1. CASE UNCHANGED queue_functors_
  BY <1>1 DEF QueuesTyped
<1>2. ASSUME NEW f \in queued,
             queue_functors_' = [queue_functors_ EXCEPT ![Base] = Append(@, f)]
      PROVE  /\ QueuesTyped'
             /\ \A K : queued \cap K = {} =>
                  /\ Has(queue_functors_'[Base], K) <=> Has(queue_functors_[Base], K)
                  /\ Once(queue_functors_[Base], K) => Once(queue_functors_'[Base], K)
  <2> DEFINE q == queue_functors_[Base]
             z == Append(q, f)
  <2>1. q \in Seq(AnyFunctor) /\ f \in AnyFunctor
    BY Names DEF QueuesTyped
  <2>2. queue_functors_' = [queue_functors_ EXCEPT ![Base] = z] /\ queue_functors_'[Base] = z
    BY <1>2, Names DEF QueuesTyped
  <2> HIDE DEF q
  <2>3. z \in Seq(AnyFunctor)
    BY <2>1, AppendProperties
  <2>4. ASSUME NEW K, queued \cap K = {}
        PROVE  (Has(z, K) <=> Has(q, K)) /\ (Once(q, K) => Once(z, K))
    <3>1. f \notin K
      BY <2>4
    <3>2. /\ Has(Append(q, f), K) <=> Has(q, K) \/ f \in K
          /\ Once(q, K) /\ ~(Has(q, K) /\ f \in K) => Once(Append(q, f), K)
      BY <2>1, Queued
    <3> QED
      BY <3>1, <3>2
  <2> HIDE DEF z
  <2>5. QueuesTyped'
    BY <2>2, <2>3 DEF QueuesTyped
  <2> QED
    BY <2>2, <2>4, <2>5 DEF q
<1> QED
  BY <1>1, <1>2

\* While the users' threads and the mutex stay as they are, a thread that works on the
\* connection keeps it.
LEMMA UsersKept ==
  ASSUME LockInv, \A u \in Users : calls'[u] = calls[u], UNCHANGED mutex_,
         \/ connections_ \subseteq connections_'
         \/ mutex_ = None
         \/ client # "up"
  PROVE  \A u \in Users : UserStack(u)'
<1> SUFFICES ASSUME NEW u \in Users PROVE UserStack(u)'
  OBVIOUS
<1>1. UserStack(u) /\ calls'[u] = calls[u] /\ (client # "up" => calls[u] = <<>>)
  BY DEF LockInv, Idle
<1>2. CASE calls[u] \in {<<>>, <<Call("disconnect", Client)>>,
                         <<Call("disconnect_locked", Client)>>}
  BY <1>1, <1>2 DEF UserStack
<1>3. CASE mutex_ = u /\ calls[u] = Holding
  BY <1>1, <1>3 DEF UserStack
<1>4. ASSUME mutex_ = u, NEW c \in connections_, NEW fn \in {"shutdown", "post_shutdown"},
             calls[u] = <<Call(fn, c), Call("unlock", Client)>>
      PROVE  UserStack(u)'
  <2>1. calls[u] # <<>>
    BY <1>4
  <2>2. c \in connections_'
    BY <1>1, <1>4, <2>1, Names
  <2> QED
    BY <1>1, <1>4, <2>2 DEF UserStack
<1> QED
  BY <1>1, <1>2, <1>3, <1>4 DEF UserStack

\* A call of the base loop's thread returned that concerned none of these.
LEMMA QuietKept ==
  ASSUME ClientThreads, NEW more \in Seq(QuietCalls), BaseReturns(more, PlainFunctors),
         ConnsTyped', ClientTyped', UNCHANGED <<mutex_, client>>,
         \/ connections_ \subseteq connections_'
         \/ mutex_ = None
         \/ client # "up",
         ResetAhead => channel_' # None /\ ~Trying'
  PROVE  ClientThreads'
<1> USE DEF ClientThreads
<1>1. /\ more \in Seq(AnyCall)
      /\ ~Has(more, Resets) /\ ~Has(more, Locks) /\ ~Has(more, Ends)
      /\ Once(more, Resets) /\ Once(more, Locks)
  BY QuietApart, SeqMonotonic, Without
<1>2. /\ CallsTyped'
      /\ \A x \in Threads : x # Base => calls'[x] = calls[x]
      /\ \A K : /\ Has(calls'[Base], K) <=> Has(more, K) \/ Has(Tail(calls[Base]), K)
                /\ Has(calls[Base], K) <=>
                     Head(calls[Base]) \in K \/ Has(Tail(calls[Base]), K)
                /\ Once(calls[Base], K) /\ Once(more, K)
                     /\ ~(Has(more, K) /\ Has(Tail(calls[Base]), K)) =>
                       Once(calls'[Base], K)
  BY <1>1, BaseStack
<1>3. /\ QueuesTyped'
      /\ Has(queue_functors_'[Base], Resets) <=> Has(queue_functors_[Base], Resets)
      /\ Once(queue_functors_[Base], Resets) => Once(queue_functors_'[Base], Resets)
  <2>1. PlainFunctors \in SUBSET AnyFunctor
    BY DEF AnyFunctor
  <2> QED
    BY <2>1, Kinds, QueueTyped DEF BaseReturns
<1>4. LoopsTyped' /\ UNCHANGED <<functors, running>>
  BY DEF BaseReturns, loopVars, LoopsTyped
<1>5. OneReset'
  BY <1>1, <1>2, <1>3, <1>4 DEF OneReset, ResetAhead
<1>6. \A u \in Users : UserStack(u)' /\ calls'[u] = calls[u]
  BY <1>2, Names, UsersKept
<1>7. LockInv'
  BY <1>1, <1>2, <1>6 DEF LockInv, Idle
<1> QED
  BY <1>2, <1>3, <1>4, <1>5, <1>7

\* A step that leaves the loops, their queues and what the threads do alone.
LEMMA StillKept ==
  ASSUME ClientThreads, UNCHANGED <<calls, queue_functors_, loopVars>>,
         ConnsTyped', ClientTyped', UNCHANGED <<mutex_, client, connections_>>,
         ResetAhead => channel_' # None /\ ~Trying'
  PROVE  ClientThreads'
<1> USE DEF ClientThreads
<1>1. CallsTyped' /\ QueuesTyped' /\ LoopsTyped' /\ UNCHANGED <<functors, running>>
  BY DEF loopVars, CallsTyped, QueuesTyped, LoopsTyped
<1>2. OneReset'
  BY <1>1 DEF OneReset, ResetAhead
<1>3. LockInv'
  BY UsersKept DEF LockInv, Idle
<1> QED
  BY <1>1, <1>2, <1>3

\* An assertion fails, and nothing else happens.
LEMMA AbortKept ==
  ASSUME ClientThreads, NEW where, Abort(where), UNCHANGED <<connectorVars, clientVars>>
  PROVE  ClientThreads'
<1>1. ConnsTyped' /\ ClientTyped'
  BY DEF ClientThreads, ConnsTyped, ClientTyped, Abort, connectorVars, clientVars, Trying
<1>2. ResetAhead => channel_' # None /\ ~Trying'
  BY DEF ClientThreads, OneReset, connectorVars, Trying
<1> QED
  BY <1>1, <1>2, StillKept DEF Abort, connectorVars, clientVars

-----------------------------------------------------------------------------
(* What TcpConn's functions do, on the base loop's thread.                   *)

ConnRecords == [state : States, loop : {Base}, channel : Channels, output : BOOLEAN]

\* The connection is being made, or is made and not yet taken down.
Up(c) == conn[c].state \in {"CONNECTING", "CONNECTED", "DISCONNECTING"}

\* What a function of the connection c may do to its state.
Moves(c, more) ==
  \/ conn'[c].state = conn[c].state
  \/ conn[c].state = "CONNECTING" /\ conn'[c].state = "CONNECTED"
  \/ /\ Head(calls[Base]) \in {Call("post_shutdown", c), Call("post_force_close", c)}
     /\ conn'[c].state = "DISCONNECTING"
  \/ /\ conn'[c].state = "DISCONNECTED"
     /\ \/ more = Append(UserCallback(c), Call("remove_connection", c))
        \/ /\ conn[c].state = "CONNECTED"
           /\ Head(calls[Base]) = Call("connect_destroyed", c)

\* A function of the connection c returned: it made calls that close nothing, or took
\* the connection down and reports it, or goes on to the second half of a call that
\* closes.
ConnReturns(c, more) ==
  /\ BaseReturns(more, Tellings)
  /\ \/ more \in Seq(PlainCalls)
     \/ /\ more = Append(UserCallback(c), Call("remove_connection", c))
        /\ Open(c) /\ conn'[c].state = "DISCONNECTED" /\ UNCHANGED queue_functors_
     \/ /\ \E fn \in {"post_shutdown", "post_force_close"} : more = <<Call(fn, c)>>
        /\ Open(c) /\ UNCHANGED <<conn, queue_functors_>>
  /\ ConnsTyped' /\ UNCHANGED connections_
  /\ \A d \in Conns : d # c => conn'[d] = conn[d]
  /\ Moves(c, more)

\* A channel stays a channel through every change of its interest (channel.cpp).
LEMMA ChannelOps ==
  ASSUME NEW ch \in Channels, NEW e \in Interest
  PROVE  /\ Enable(ch, e) \in Channels /\ Disable(ch, e) \in Channels
         /\ DisableAll(ch) \in Channels /\ Removed(ch) \in Channels
         /\ NewChannel \in Channels
  BY ZenonT(60) DEF Channels, Interest, Flags, Enable, Disable, DisableAll, Removed, UpdateChannel,
         NewChannel

\* A connection that is another record.
LEMMA ConnSet ==
  ASSUME ConnsTyped, NEW c \in Conns, NEW r \in ConnRecords, conn' = [conn EXCEPT ![c] = r],
         connections_' \subseteq Conns, kept' \subseteq Conns,
         \A a, b \in connections_' : a = b
  PROVE  /\ ConnsTyped' /\ conn'[c] = r
         /\ \A d \in Conns : d # c => conn'[d] = conn[d]
  BY DEF ConnsTyped, ConnRecords

\* The calls that a function of the connection makes.
LEMMA PlainMore ==
  ASSUME NEW c \in Conns, NEW fn \in PlainFns
  PROVE  /\ <<>> \in Seq(PlainCalls) /\ <<Call(fn, c)>> \in Seq(PlainCalls)
         /\ UserCallback(c) \in Seq(PlainCalls)
         /\ Append(UserCallback(c), Call(fn, c)) \in Seq(PlainCalls)
<1>1. Call(fn, c) \in PlainCalls /\ Call("user", c) \in PlainCalls
  BY DEF Call, PlainCalls, PlainFns
<1>2. UserCallback(c) \in Seq(PlainCalls)
  <2>1. MaxCallbackOps \in Nat
    BY ConfigAssumption
  <2> QED
    BY <1>1, <2>1 DEF UserCallback
<1>3. Append(UserCallback(c), Call(fn, c)) \in Seq(PlainCalls)
  BY <1>1, <1>2, AppendProperties
<1>4. <<>> \in Seq(PlainCalls) /\ <<Call(fn, c)>> \in Seq(PlainCalls)
  BY <1>1, ShortStacks
<1> QED
  BY <1>2, <1>3, <1>4

\* A return is one of BaseReturns.
LEMMA ByReturn ==
  ASSUME NEW more, calls[Base] # <<>>, Return(Base, more), UNCHANGED loopVars
  PROVE  /\ BaseReturns(more, PlainFunctors) /\ BaseReturns(more, Tellings)
         /\ UNCHANGED queue_functors_
  BY DEF BaseReturns, Return

\* The functions that come up, go down and are destroyed (tcp_conn.cpp).
LEMMA LifeReturns ==
  ASSUME ClientThreads, NEW x \in Threads, NEW c \in Conns, UNCHANGED aborted,
         ConnectEstablished(x, c) \/ HandleClose(x, c) \/ ConnectDestroyed(x, c)
           \/ RemoveChannel(x, c),
         aborted = "no"
  PROVE  \E more : ConnReturns(c, more)
<1>1. x = Base /\ calls[Base] # <<>>
  BY OnBase DEF ClientThreads, ConnectEstablished, HandleClose, ConnectDestroyed, RemoveChannel
<1>2. conn[c] \in ConnRecords /\ conn[c].channel \in Channels
  BY DEF ClientThreads, ConnsTyped, ConnRecords
<1>3. \A where : Abort(where) /\ where # "no" => FALSE
  BY DEF Abort
<1>4. CASE ConnectEstablished(x, c)
  <2> DEFINE r == [conn[c] EXCEPT !.state = "CONNECTED",
                                  !.channel = Enable(conn[c].channel, "read")]
  <2>1. /\ conn[c].state = "CONNECTING" /\ conn' = [conn EXCEPT ![c] = r]
        /\ UNCHANGED <<connections_, loopVars>> /\ Return(x, UserCallback(c))
        /\ kept' \subseteq kept \cup {c}
    BY <1>3, <1>4 DEF ConnectEstablished
  <2>2. r \in ConnRecords /\ r.state = "CONNECTED"
    BY <1>2, ChannelOps DEF ConnRecords, States, Interest
  <2> HIDE DEF r
  <2>3. ConnsTyped' /\ conn'[c] = r /\ \A d \in Conns : d # c => conn'[d] = conn[d]
    BY <2>1, <2>2, ConnSet DEF ClientThreads, ConnsTyped
  <2>4. UserCallback(c) \in Seq(PlainCalls)
    BY PlainMore DEF PlainFns
  <2>5. BaseReturns(UserCallback(c), Tellings) /\ UNCHANGED queue_functors_
    BY <1>1, <2>1, ByReturn
  <2>6. conn[c].state = "CONNECTING" /\ conn'[c].state = "CONNECTED"
    BY <2>1, <2>2, <2>3
  <2> QED
    BY <2>1, <2>3, <2>4, <2>5, <2>6 DEF ConnReturns, Moves
<1> DEFINE down == [conn[c] EXCEPT !.state = "DISCONNECTED",
                                   !.channel = DisableAll(conn[c].channel)]
<1>5. down \in ConnRecords /\ down.state = "DISCONNECTED"
  BY <1>2, ChannelOps DEF ConnRecords, States, Interest
<1>6. TakeDown(c) => conn' = [conn EXCEPT ![c] = down]
  BY DEF TakeDown
<1> HIDE DEF down
<1>7. ASSUME TakeDown(c), UNCHANGED <<connections_, kept>>
      PROVE  /\ ConnsTyped' /\ conn'[c].state = "DISCONNECTED" /\ ~Up(c)'
             /\ \A d \in Conns : d # c => conn'[d] = conn[d]
  <2>1. ConnsTyped' /\ conn'[c] = down /\ \A d \in Conns : d # c => conn'[d] = conn[d]
    BY <1>5, <1>6, <1>7, ConnSet DEF ClientThreads, ConnsTyped
  <2> QED
    BY <1>5, <2>1 DEF Up
<1>8. CASE HandleClose(x, c)
  <2> DEFINE more == Append(UserCallback(c), Call("remove_connection", c))
  <2>1. /\ Open(c) /\ TakeDown(c) /\ Return(x, more)
        /\ UNCHANGED <<connections_, kept, loopVars>>
    BY <1>3, <1>8 DEF HandleClose
  <2> HIDE DEF more
  <2>2. BaseReturns(more, Tellings) /\ UNCHANGED queue_functors_
    BY <1>1, <2>1, ByReturn
  <2>3. ConnReturns(c, more)
    BY <1>7, <2>1, <2>2 DEF ConnReturns, Moves, more
  <2> QED
    BY <2>3
<1>9. CASE ConnectDestroyed(x, c) /\ conn[c].state = "CONNECTED"
  <2> DEFINE more == Append(UserCallback(c), Call("remove", c))
  <2>1. /\ TakeDown(c) /\ Return(x, more) /\ UNCHANGED <<connections_, kept, loopVars>>
        /\ Head(calls[Base]) = Call("connect_destroyed", c)
    BY <1>1, <1>9 DEF ConnectDestroyed, Executing
  <2>2. more \in Seq(PlainCalls)
    BY PlainMore DEF PlainFns
  <2> HIDE DEF more
  <2>3. BaseReturns(more, Tellings) /\ UNCHANGED queue_functors_
    BY <1>1, <2>1, ByReturn
  <2>4. ConnReturns(c, more)
    BY <1>7, <1>9, <2>1, <2>2, <2>3 DEF ConnReturns, Moves
  <2> QED
    BY <2>4
<1>10. CASE ConnectDestroyed(x, c) /\ conn[c].state # "CONNECTED"
  <2> DEFINE more == <<Call("remove", c)>>
  <2>1. Return(x, more) /\ UNCHANGED <<conn, connections_, kept, loopVars>>
    BY <1>10 DEF ConnectDestroyed
  <2>2. more \in Seq(PlainCalls)
    BY PlainMore DEF PlainFns
  <2> HIDE DEF more
  <2>3. BaseReturns(more, Tellings) /\ UNCHANGED queue_functors_
    BY <1>1, <2>1, ByReturn
  <2>4. ConnReturns(c, more)
    BY <2>1, <2>2, <2>3 DEF ConnReturns, ClientThreads, ConnsTyped, Moves
  <2> QED
    BY <2>4
<1>11. CASE RemoveChannel(x, c)
  <2> DEFINE r == [conn[c] EXCEPT !.channel = Removed(conn[c].channel)]
             more == <<>>
  <2>1. Return(x, more) /\ UNCHANGED <<connections_, kept, loopVars>>
        /\ conn' = [conn EXCEPT ![c] = r]
    BY <1>3, <1>11 DEF RemoveChannel
  <2>2. r \in ConnRecords /\ r.state = conn[c].state
    BY <1>2, ChannelOps DEF ConnRecords, Interest
  <2> HIDE DEF r
  <2>3. more \in Seq(PlainCalls)
    BY PlainMore DEF PlainFns
  <2> HIDE DEF more
  <2>4. ConnsTyped' /\ conn'[c] = r /\ \A d \in Conns : d # c => conn'[d] = conn[d]
    BY <2>1, <2>2, ConnSet DEF ClientThreads, ConnsTyped
  <2>5. BaseReturns(more, Tellings) /\ UNCHANGED queue_functors_
    BY <1>1, <2>1, ByReturn
  <2>6. ConnReturns(c, more)
    BY <2>1, <2>2, <2>3, <2>4, <2>5 DEF ConnReturns, Moves
  <2> QED
    BY <2>6
<1> QED
  BY <1>4, <1>8, <1>9, <1>10, <1>11

\* The connection's state stays as it is.
LEMMA SameState ==
  ASSUME ClientThreads, NEW c \in Conns, NEW more \in Seq(PlainCalls), calls[Base] # <<>>,
         Return(Base, more), UNCHANGED <<connections_, kept, loopVars>>,
         \/ UNCHANGED conn
         \/ \E r \in ConnRecords : r.state = conn[c].state /\ conn' = [conn EXCEPT ![c] = r]
  PROVE  ConnReturns(c, more)
<1>1. BaseReturns(more, Tellings) /\ UNCHANGED queue_functors_
  BY ByReturn
<1>2. CASE UNCHANGED conn
  BY <1>1, <1>2 DEF ConnReturns, ClientThreads, ConnsTyped, Moves
<1>3. ASSUME NEW r \in ConnRecords, r.state = conn[c].state, conn' = [conn EXCEPT ![c] = r]
      PROVE  ConnReturns(c, more)
  <2>1. ConnsTyped' /\ conn'[c] = r /\ \A d \in Conns : d # c => conn'[d] = conn[d]
    BY <1>3, ConnSet DEF ClientThreads, ConnsTyped
  <2> QED
    BY <1>1, <1>3, <2>1 DEF ConnReturns, Moves
<1> QED
  BY <1>2, <1>3

\* The handlers of events and the functors that other threads posted (tcp_conn.cpp).
LEMMA DataReturns ==
  ASSUME ClientThreads, NEW x \in Threads, NEW c \in Conns,
         HandleRead(x, c) \/ HandleError(x, c) \/ HandleWrite(x, c) \/ HandleWritten(x, c)
           \/ SendInLoop(x, c) \/ QueueOutputCallback(x, c) \/ OutputCallback(x, c)
           \/ ShutdownInLoop(x, c) \/ ForceCloseInLoop(x, c) \/ StartReadInLoop(x, c)
           \/ StopReadInLoop(x, c) \/ UserReturns(x, c)
  PROVE  \E more : ConnReturns(c, more)
<1>1. x = Base /\ calls[Base] # <<>>
  <2>1. ASSUME NEW fn, Executing(x, fn, c),
               fn \notin {"disconnect", "disconnect_locked", "unlock", "shutdown",
                          "post_shutdown"}
        PROVE  x = Base /\ calls[Base] # <<>>
    BY <2>1, OnBase DEF ClientThreads
  <2> QED
    BY <2>1 DEF HandleRead, HandleError, HandleWrite, HandleWritten, SendInLoop,
       QueueOutputCallback, OutputCallback, ShutdownInLoop, ForceCloseInLoop, StartReadInLoop, StopReadInLoop, UserReturns
<1>2. conn[c] \in ConnRecords /\ conn[c].channel \in Channels
  BY DEF ClientThreads, ConnsTyped, ConnRecords
<1>3. /\ <<>> \in Seq(PlainCalls) /\ UserCallback(c) \in Seq(PlainCalls)
      /\ \A fn \in PlainFns : /\ <<Call(fn, c)>> \in Seq(PlainCalls)
                              /\ Append(UserCallback(c), Call(fn, c)) \in Seq(PlainCalls)
  BY PlainMore DEF PlainFns
<1>4. ASSUME NEW more \in Seq(PlainCalls), Return(Base, more),
             UNCHANGED <<conn, connections_, kept, loopVars>>
      PROVE  \E m : ConnReturns(c, m)
  BY <1>1, <1>4, SameState
<1>5. ASSUME NEW more \in Seq(PlainCalls), Return(Base, more), NEW r \in ConnRecords,
             r.state = conn[c].state, conn' = [conn EXCEPT ![c] = r],
             UNCHANGED <<connections_, kept, loopVars>>
      PROVE  \E m : ConnReturns(c, m)
  BY <1>1, <1>5, SameState
<1>6. CASE HandleRead(x, c)
  <2>1. \E more \in {<<>>, UserCallback(c), <<Call("handle_close", c)>>} :
          Return(Base, more) /\ UNCHANGED <<conn, connections_, kept, loopVars>>
    BY <1>1, <1>6 DEF HandleRead
  <2> QED
    BY <1>3, <1>4, <2>1 DEF PlainFns
<1>7. CASE HandleError(x, c) \/ ShutdownInLoop(x, c) \/ ForceCloseInLoop(x, c)
             \/ UserReturns(x, c)
  <2>1. \E more \in {<<>>, <<Call("handle_close", c)>>} :
          Return(Base, more) /\ UNCHANGED <<conn, connections_, kept, loopVars>>
    BY <1>1, <1>7 DEF HandleError, ShutdownInLoop, ForceCloseInLoop, UserReturns
  <2> QED
    BY <1>3, <1>4, <2>1 DEF PlainFns
<1>8. CASE HandleWrite(x, c)
  <2> DEFINE r == [conn[c] EXCEPT !.output = FALSE,
                                  !.channel = Disable(conn[c].channel, "write")]
  <2>1. r \in ConnRecords /\ r.state = conn[c].state
    BY <1>2, ChannelOps DEF ConnRecords, Interest
  <2> DEFINE end == Call("handle_written", c)
             one == Append(<<>>, end)
             told == Append(UserCallback(c), end)
  <2>2. /\ UNCHANGED <<connections_, kept, loopVars>>
        /\ \/ Return(Base, <<>>) /\ UNCHANGED conn
           \/ /\ conn' = [conn EXCEPT ![c] = r]
              /\ Return(Base, one) \/ Return(Base, told)
    BY <1>1, <1>8 DEF HandleWrite
  <2>3. one = <<end>>
    OBVIOUS
  <2>4. one \in Seq(PlainCalls) /\ told \in Seq(PlainCalls)
    BY <1>3, <2>3 DEF PlainFns
  <2> HIDE DEF r, end, one, told
  <2>5. CASE Return(Base, <<>>) /\ UNCHANGED conn
    BY <1>3, <1>4, <2>2, <2>5
  <2>6. CASE conn' = [conn EXCEPT ![c] = r] /\ Return(Base, one)
    BY <1>5, <2>1, <2>2, <2>4, <2>6
  <2>7. CASE conn' = [conn EXCEPT ![c] = r] /\ Return(Base, told)
    BY <1>5, <2>1, <2>2, <2>4, <2>7
  <2> QED
    BY <2>2, <2>5, <2>6, <2>7
<1>9. CASE SendInLoop(x, c)
  <2> DEFINE ch == IF IsWriting(conn[c].channel) THEN conn[c].channel
                   ELSE Enable(conn[c].channel, "write")
             r == [conn[c] EXCEPT !.output = TRUE, !.channel = ch]
  <2>1. ch \in Channels
    BY <1>2, ChannelOps DEF Interest
  <2>2. \E more \in {<<>>, <<Call("queue_output_callback", c)>>} :
          /\ Return(Base, more) /\ UNCHANGED <<connections_, kept, loopVars>>
          /\ UNCHANGED conn \/ conn' = [conn EXCEPT ![c] = r]
    BY <1>1, <1>9 DEF SendInLoop, TellOutput
  <2> HIDE DEF ch
  <2>3. r \in ConnRecords /\ r.state = conn[c].state
    BY <1>2, <2>1 DEF ConnRecords
  <2> HIDE DEF r
  <2>4. \A more \in {<<>>, <<Call("queue_output_callback", c)>>} : more \in Seq(PlainCalls)
    BY <1>3 DEF PlainFns
  <2> QED
    BY <1>4, <1>5, <2>2, <2>3, <2>4
<1>10. CASE StartReadInLoop(x, c) \/ StopReadInLoop(x, c)
  <2>1. /\ Return(Base, <<>>) /\ UNCHANGED <<connections_, kept, loopVars>>
        /\ \/ UNCHANGED conn
           \/ \E ch \in {Enable(conn[c].channel, "read"), Disable(conn[c].channel, "read")} :
                conn' = [conn EXCEPT ![c] = [conn[c] EXCEPT !.channel = ch]]
    BY <1>1, <1>10 DEF StartReadInLoop, StopReadInLoop
  <2>2. ASSUME NEW ch \in {Enable(conn[c].channel, "read"), Disable(conn[c].channel, "read")}
        PROVE  /\ [conn[c] EXCEPT !.channel = ch] \in ConnRecords
               /\ [conn[c] EXCEPT !.channel = ch].state = conn[c].state
    BY <1>2, <2>2, ChannelOps DEF ConnRecords, Interest
  <2> QED
    BY <1>3, <1>4, <1>5, <2>1, <2>2
<1>11. CASE HandleWritten(x, c)
  <2>1. \E more \in {<<>>, <<Call("shutdown_in_loop", c)>>} :
          Return(Base, more) /\ UNCHANGED <<conn, connections_, kept, loopVars>>
    BY <1>1, <1>11 DEF HandleWritten
  <2> QED
    BY <1>3, <1>4, <2>1 DEF PlainFns, Raw
<1>12. CASE OutputCallback(x, c)
  <2>1. Return(Base, UserCallback(c)) /\ UNCHANGED <<conn, connections_, kept, loopVars>>
    BY <1>1, <1>12 DEF OutputCallback
  <2> QED
    BY <1>3, <1>4, <2>1
<1>13. CASE QueueOutputCallback(x, c)
  <2> DEFINE f == Call("output_callback", c)
             more == <<>>
  <2>1. /\ ReturnQueueing(Base, more, f)
        /\ UNCHANGED <<conn, connections_, kept, loopVars>>
    BY <1>1, <1>13 DEF QueueOutputCallback
  <2>2. f \in Tellings
    BY DEF Tellings, Call
  <2>3. more \in Seq(PlainCalls)
    BY <1>3
  <2> HIDE DEF f, more
  <2>4. BaseReturns(more, Tellings)
    BY <1>1, <2>1, <2>2 DEF BaseReturns, ReturnQueueing
  <2>5. ConnReturns(c, more)
    BY <2>1, <2>3, <2>4 DEF ConnReturns, ClientThreads, ConnsTyped, Moves
  <2> QED
    BY <2>5
<1> QED
  BY <1>6, <1>7, <1>8, <1>9, <1>10, <1>11, <1>12, <1>13

\* What a callback calls on its connection, and the public functions, called by it
\* (tcp_conn.cpp: send, shutdown, force_close, start_read, stop_read).
LEMMA CallReturns ==
  ASSUME ClientThreads, NEW c \in Conns,
         \/ TestState(Base, c)
         \/ Post(Base, c)
         \/ \E op \in OwnOps : CallbackCallsConn(Base, c, op)
  PROVE  \E more : ConnReturns(c, more)
<1>1. calls[Base] # <<>>
  BY DEF TestState, Post, CallbackCallsConn, Executing
<1>2. conn[c] \in ConnRecords /\ conn[c].loop = Base
  BY DEF ClientThreads, ConnsTyped, ConnRecords
<1>3. <<>> \in Seq(PlainCalls) /\ \A fn \in PlainFns : <<Call(fn, c)>> \in Seq(PlainCalls)
  BY PlainMore DEF PlainFns
<1>4. ASSUME NEW more \in Seq(PlainCalls), Return(Base, more),
             UNCHANGED <<conn, connections_, kept, loopVars>>
      PROVE  \E m : ConnReturns(c, m)
  BY <1>1, <1>4, SameState
<1>5. ASSUME NEW op \in OwnOps, CallbackCallsConn(Base, c, op) PROVE \E m : ConnReturns(c, m)
  <2>1. /\ Return(Base, <<Call(op, c)>>) /\ UNCHANGED <<conn, connections_, kept, loopVars>>
        /\ op \in PlainFns
    BY <1>5, ConfigAssumption DEF CallbackCallsConn, UserCalls, PlainFns
  <2> QED
    BY <1>3, <1>4, <2>1
<1>6. CASE TestState(Base, c)
  <2>1. PICK op \in {"send", "shutdown", "force_close"} :
          /\ Return(Base, IF Passes(op, c) THEN <<Call(AfterTest[op], c)>> ELSE <<>>)
          /\ UNCHANGED <<conn, connections_, kept, loopVars>>
    BY <1>6 DEF TestState, AfterTest
  <2>2. CASE op = "send" \/ ~Passes(op, c)
    <3>1. \E more \in {<<>>, <<Call("post_send", c)>>} : Return(Base, more)
      BY <2>1, <2>2 DEF AfterTest
    <3> QED
      BY <1>3, <1>4, <2>1, <3>1 DEF PlainFns
  <2>3. CASE op # "send" /\ Passes(op, c)
    <3>1. PICK fn \in {"post_shutdown", "post_force_close"} : Return(Base, <<Call(fn, c)>>)
      BY <2>1, <2>3 DEF AfterTest
    <3>2. Open(c)
      BY <2>1, <2>3 DEF Passes, IsConnected, Open
    <3> DEFINE more == <<Call(fn, c)>>
    <3>3. Return(Base, more) /\ \E g \in {"post_shutdown", "post_force_close"} : more = <<Call(g, c)>>
      BY <3>1
    <3> HIDE DEF more
    <3>4. BaseReturns(more, Tellings) /\ UNCHANGED queue_functors_
      BY <1>1, <2>1, <3>3, ByReturn
    <3>5. ConnReturns(c, more)
      BY <2>1, <3>2, <3>3, <3>4 DEF ConnReturns, ClientThreads, ConnsTyped, Moves
    <3> QED
      BY <3>5
  <2> QED
    BY <2>2, <2>3
<1>7. CASE Post(Base, c)
  <2>1. PICK p \in DOMAIN PostedBy :
          /\ Executing(Base, p, c)
          /\ conn' = IF p \in {"post_shutdown", "post_force_close"}
                     THEN [conn EXCEPT ![c].state = "DISCONNECTING"] ELSE conn
          /\ Return(Base, <<Call(PostedBy[p], c)>>)
          /\ UNCHANGED <<connections_, kept, loopVars>>
    BY <1>2, <1>7 DEF Post, RunInLoop
  <2>2. PostedBy[p] \in PlainFns
    BY DEF PostedBy, PlainFns, Raw
  <2> DEFINE more == <<Call(PostedBy[p], c)>>
  <2>3. more \in Seq(PlainCalls) /\ Return(Base, more)
    BY <1>3, <2>1, <2>2
  <2> HIDE DEF more
  <2>4. CASE p \notin {"post_shutdown", "post_force_close"}
    BY <1>4, <2>1, <2>3, <2>4
  <2>5. CASE p \in {"post_shutdown", "post_force_close"}
    <3> DEFINE r == [conn[c] EXCEPT !.state = "DISCONNECTING"]
    <3>1. r \in ConnRecords /\ conn' = [conn EXCEPT ![c] = r]
      BY <1>2, <2>1, <2>5 DEF ConnRecords, States
    <3> HIDE DEF r
    <3>2. ConnsTyped' /\ \A d \in Conns : d # c => conn'[d] = conn[d]
      BY <2>1, <3>1, ConnSet DEF ClientThreads, ConnsTyped
    <3>3. Head(calls[Base]) \in {Call("post_shutdown", c), Call("post_force_close", c)}
      BY <2>1, <2>5 DEF Executing
    <3>4. BaseReturns(more, Tellings) /\ UNCHANGED queue_functors_
      BY <1>1, <2>1, <2>3, ByReturn
    <3>5. ConnReturns(c, more)
      BY <2>1, <2>3, <3>2, <3>3, <3>4 DEF ConnReturns, Moves
    <3> QED
      BY <3>5
  <2> QED
    BY <2>4, <2>5
<1> QED
  BY <1>5, <1>6, <1>7

-----------------------------------------------------------------------------
(* The rounds of the base loop.                                             *)

\* handle_event_with_guard calls handlers and nothing else.
LEMMA DispatchHandlers ==
  ASSUME NEW active
  PROVE  /\ Dispatch(active) \in Seq({"handle_close", "handle_error", "handle_read",
                                      "handle_write"})
         /\ active \subseteq {"ERR", "OUT"} =>
              Dispatch(active) \in Seq({"handle_error", "handle_write"})
<1> DEFINE close == IF "HUP" \in active /\ "IN" \notin active THEN <<"handle_close">>
                    ELSE <<>>
           error == IF "ERR" \in active THEN <<"handle_error">> ELSE <<>>
           read  == IF {"IN", "HUP"} \cap active # {} THEN <<"handle_read">> ELSE <<>>
           write == IF "OUT" \in active THEN <<"handle_write">> ELSE <<>>
<1>1. ASSUME NEW H, "handle_error" \in H, "handle_write" \in H,
             active \subseteq {"ERR", "OUT"} \/ ("handle_close" \in H /\ "handle_read" \in H)
      PROVE  Dispatch(active) \in Seq(H)
  <2>1. <<>> \in Seq(H)
    BY EmptySeq
  <2>2. \A h \in H : <<h>> \in Seq(H)
    OBVIOUS
  <2>3. close \in Seq(H) /\ error \in Seq(H) /\ read \in Seq(H) /\ write \in Seq(H)
    BY <1>1, <2>1, <2>2
  <2> HIDE DEF close, error, read, write
  <2>4. close \o error \o read \o write \in Seq(H)
    BY <2>3, ConcatProperties
  <2> QED
    BY <2>4 DEF Dispatch, close, error, read, write
<1> HIDE DEF close, error, read, write
<1> QED
  BY <1>1

\* A list of the members of a set, in some order.
LEMMA Listing ==
  ASSUME NEW S, IsFiniteSet(S), NEW list \in SetToSeqs(S)
  PROVE  list \in Seq(S) /\ Len(list) = Cardinality(S)
<1>1. Cardinality(S) \in Nat
  BY FS_CardinalityType
<1>2. list \in [1..Cardinality(S) -> S]
  BY DEF SetToSeqs
<1> QED
  BY <1>1, <1>2

\* One more functor of a batch is taken.
LEMMA Advance ==
  ASSUME NEW X, NEW s \in Seq(X), NEW n \in Nat, n < Len(s), NEW K
  PROVE  /\ s[n + 1] \in X
         /\ HasFrom(s, n, K) <=> s[n + 1] \in K \/ HasFrom(s, n + 1, K)
         /\ OnceFrom(s, n, K) => OnceFrom(s, n + 1, K)
         /\ OnceFrom(s, n, K) /\ s[n + 1] \in K => ~HasFrom(s, n + 1, K)
<1>1. Len(s) \in Nat
  BY LenProperties
<1>2. n + 1 \in n + 1..Len(s) /\ n + 1 \in 1..Len(s)
  BY <1>1
<1>3. s[n + 1] \in X
  BY <1>2, ElementOfSeq
<1>4. \A i : i \in n + 1..Len(s) <=> i = n + 1 \/ i \in (n + 1) + 1..Len(s)
  BY <1>1
<1>5. n + 1 \notin (n + 1) + 1..Len(s)
  BY <1>1
<1> DEFINE k == n + 1
<1> HIDE DEF k
<1>6. /\ HasFrom(s, n, K) <=> \E i \in k..Len(s) : s[i] \in K
      /\ OnceFrom(s, n, K) <=> \A i, j \in k..Len(s) : s[i] \in K /\ s[j] \in K => i = j
      /\ HasFrom(s, k, K) <=> \E i \in k + 1..Len(s) : s[i] \in K
      /\ OnceFrom(s, k, K) <=> \A i, j \in k + 1..Len(s) : s[i] \in K /\ s[j] \in K => i = j
  BY DEF HasFrom, OnceFrom, k
<1>7. /\ HasFrom(s, n, K) <=> s[k] \in K \/ HasFrom(s, k, K)
      /\ OnceFrom(s, n, K) => OnceFrom(s, k, K)
      /\ OnceFrom(s, n, K) /\ s[k] \in K => ~HasFrom(s, k, K)
  BY <1>2, <1>4, <1>5, <1>6 DEF k
<1> QED
  BY <1>3, <1>7 DEF k

\* Nothing is behind the end of a batch.
LEMMA Exhausted ==
  ASSUME NEW X, NEW s \in Seq(X), NEW n \in Nat, n >= Len(s), NEW K
  PROVE  ~HasFrom(s, n, K) /\ OnceFrom(s, n, K)
<1>1. Len(s) \in Nat
  BY LenProperties
<1>2. n + 1..Len(s) = {}
  BY <1>1
<1> QED
  BY <1>2 DEF HasFrom, OnceFrom

\* The base loop goes on, between calls, and takes up the calls s.
LEMMA RoundKept ==
  ASSUME ClientThreads, Idle(Base), CallsTyped', QueuesTyped', LoopsTyped', ClientTyped',
         OneReset', \A u \in Users : calls'[u] = calls[u],
         ~Has(calls'[Base], Locks \cup Ends),
         UNCHANGED <<conn, connections_, kept, mutex_, client>>
  PROVE  ClientThreads'
<1>1. ConnsTyped'
  BY DEF ClientThreads, ConnsTyped
<1>2. \A u \in Users : UserStack(u)'
  BY UsersKept DEF ClientThreads
<1>3. Len(calls'[Base]) \in Nat
  BY Names, LenProperties DEF CallsTyped
<1>4. ~Has(calls'[Base], Locks) /\ ~Has(calls'[Base], Ends) /\ Once(calls'[Base], Locks)
  BY <1>3, HasAt
<1>5. LockInv'
  BY <1>2, <1>4 DEF ClientThreads, LockInv, Idle
<1> QED
  BY <1>1, <1>5 DEF ClientThreads

\* What the base loop was told when its poll returned is typed.
LEMMA PollKept ==
  ASSUME ClientThreads, PollClient(Base)
  PROVE  ClientThreads'
<1> DEFINE others == {e \in {[c |-> Connector, events |-> ConnectorEvents],
                             [c |-> TimerFd, events |-> IF due > 0 THEN {"IN"} ELSE {}]} :
                        e.events # {}}
           Ready(w) == others \cup
             {e \in {[c |-> c, events |-> Reported(c, c \in w)] : c \in Watched(Base)} :
                e.events # {}}
<1>1. Poll(Base, others) /\ UNCHANGED <<connectorVars, clientVars>>
  BY DEF PollClient, Leaves
<1>2. PICK w \in SUBSET Watched(Base) :
        IF Cardinality(Ready(w)) >= EventListSize
        THEN Abort("fill_active_channels")
        ELSE /\ \E list \in SetToSeqs(Ready(w)) :
                  active_channels_' = [active_channels_ EXCEPT ![Base] = list]
             /\ phase' = [phase EXCEPT ![Base] = "events"]
             /\ current' = [current EXCEPT ![Base] = 0]
             /\ UNCHANGED <<conn, socket, connections_, kept, queue_functors_,
                            functors, running, quit_flag_, calls, log, aborted>>
  BY <1>1 DEF Poll
<1> DEFINE ready == Ready(w)
<1>3. IsFiniteSet(ready) /\ ready \subseteq AnyReport
  <2> DEFINE watched == {[c |-> c, events |-> Reported(c, c \in w)] : c \in Watched(Base)}
             E == {"IN", "OUT", "ERR", "HUP"}
  <2>1. IsFiniteSet(Watched(Base))
    BY ConfigAssumption, FS_Subset DEF Watched
  <2>2. IsFiniteSet(watched)
    <3> DEFINE name == [e \in watched |-> e.c]
    <3>1. \A e \in watched : e.c \in Watched(Base) /\ \A f \in watched : e.c = f.c => e = f
      OBVIOUS
    <3> HIDE DEF watched
    <3>2. name \in Injection(watched, Watched(Base))
      BY <3>1 DEF Injection, IsInjective
    <3> QED
      BY <2>1, <3>2, FS_Injection
  <2>3. IsFiniteSet({[c |-> Connector, events |-> ConnectorEvents],
                     [c |-> TimerFd, events |-> IF due > 0 THEN {"IN"} ELSE {}]})
    <3> DEFINE a == [c |-> Connector, events |-> ConnectorEvents]
               b == [c |-> TimerFd, events |-> IF due > 0 THEN {"IN"} ELSE {}]
    <3> HIDE DEF a, b
    <3>1. IsFiniteSet({a}) /\ IsFiniteSet({b})
      BY FS_Singleton
    <3>2. IsFiniteSet({a} \cup {b}) /\ {a, b} = {a} \cup {b}
      BY <3>1, FS_Union
    <3>3. IsFiniteSet({a, b})
      BY <3>2
    <3> QED
      BY <3>3 DEF a, b
  <2>4. IsFiniteSet(others)
    BY <2>3, FS_Subset
  <2>5. IsFiniteSet({e \in watched : e.events # {}})
    BY <2>2, FS_Subset
  <2>6. IsFiniteSet(ready)
    BY <2>4, <2>5, FS_Union
  <2>7. others \subseteq AnyReport
    BY DEF AnyReport, ConnectorEvents
  <2>8. \A c, b : Reported(c, b) \in SUBSET E
    BY DEF Reported
  <2>9. watched \subseteq AnyReport
    BY <2>8 DEF AnyReport, Watched
  <2> QED
    BY <2>6, <2>7, <2>9
<1> HIDE DEF ready
<1>4. CASE Cardinality(ready) >= EventListSize
  BY <1>1, <1>2, <1>4, AbortKept DEF ready
<1>5. CASE ~(Cardinality(ready) >= EventListSize)
  <2>1. PICK list \in SetToSeqs(ready) :
          active_channels_' = [active_channels_ EXCEPT ![Base] = list]
    BY <1>2, <1>5 DEF ready
  <2>2. /\ phase' = [phase EXCEPT ![Base] = "events"]
        /\ current' = [current EXCEPT ![Base] = 0]
        /\ UNCHANGED <<conn, connections_, kept, queue_functors_, functors, running,
                       quit_flag_, calls>>
    BY <1>2, <1>5 DEF ready
  <2>3. list \in Seq(AnyReport) /\ Len(list) \in Nat
    BY <1>3, <2>1, Listing, SeqMonotonic, LenProperties
  <2>4. phase[Base] = "poll" /\ Idle(Base)
    BY <1>1 DEF Poll
  <2>5. CallsTyped' /\ QueuesTyped'
    BY <2>2 DEF ClientThreads, CallsTyped, QueuesTyped
  <2>6. LoopsTyped'
    <3>1. /\ active_channels_' \in [AllLoops -> Seq(AnyReport)]
          /\ active_channels_'[Base] = list /\ current'[Base] = 0
          /\ \A l \in AllLoops : l # Base => /\ active_channels_'[l] = active_channels_[l]
                                          /\ current'[l] = current[l]
      BY <2>1, <2>2, <2>3, Names DEF ClientThreads, LoopsTyped
    <3>2. \A l \in AllLoops : current'[l] <= Len(active_channels_'[l])
      <4>1. current'[Base] <= Len(active_channels_'[Base])
        BY <2>3, <3>1
      <4>2. \A l \in AllLoops : current[l] <= Len(active_channels_[l])
        BY DEF ClientThreads, LoopsTyped
      <4>3. \A l \in AllLoops : l # Base => current'[l] <= Len(active_channels_'[l])
        BY <3>1, <4>2
      <4> QED
        BY <4>1, <4>3
    <3>3. \A l \in AllLoops : phase'[l] # "functors" => phase[l] # "functors"
      <4>1. phase \in [AllLoops -> {"poll", "events", "functors", "exited"}]
        BY DEF ClientThreads, LoopsTyped
      <4>2. \A l \in AllLoops : l = Base \/ phase'[l] = phase[l]
        BY <2>2, <4>1
      <4> QED
        BY <2>4, <4>2
    <3>4. phase' \in [AllLoops -> {"poll", "events", "functors", "exited"}]
          /\ current' \in [AllLoops -> Nat]
      BY <2>2 DEF ClientThreads, LoopsTyped
    <3> QED
      BY <2>2, <3>1, <3>2, <3>3, <3>4 DEF ClientThreads, LoopsTyped
  <2>7. ClientTyped' /\ UNCHANGED <<mutex_, client, channel_, state_>>
    BY <1>1 DEF ClientThreads, ClientTyped, connectorVars, clientVars, Trying
  <2>8. OneReset'
    BY <2>2, <2>7 DEF ClientThreads, OneReset, ResetAhead, Trying
  <2>9. ~Has(calls'[Base], Locks \cup Ends)
    <3>1. calls'[Base] = <<>>
      BY <2>2, <2>4 DEF Idle
    <3> QED
      BY <3>1, ShortStacks
  <2> QED
    BY <2>2, <2>4, <2>5, <2>6, <2>7, <2>8, <2>9, RoundKept
<1> QED
  BY <1>4, <1>5

\* The base loop takes up calls of handlers.
LEMMA DispatchKept ==
  ASSUME ClientThreads, Handling(Base), NEW s \in Seq(QuietCalls), Dispatches(Base, s),
         ClientTyped', UNCHANGED <<mutex_, client, channel_, state_>>
  PROVE  ClientThreads'
<1>1. s \in Seq(AnyCall) /\ ~Has(s, Resets) /\ Once(s, Resets) /\ ~Has(s, Locks \cup Ends)
  BY QuietApart, SeqMonotonic, Without
<1>2. calls' = [calls EXCEPT ![Base] = s] /\ calls'[Base] = s /\ Idle(Base)
  BY Names DEF Dispatches, Handling, ClientThreads, CallsTyped
<1>3. CallsTyped' /\ QueuesTyped' /\ \A u \in Users : calls'[u] = calls[u]
  <2>1. calls' \in [Threads -> Seq(AnyCall)]
    BY <1>1, <1>2, Names DEF ClientThreads, CallsTyped
  <2>2. \A l \in IoLoops : calls'[l] = <<>>
    BY <1>2, Names DEF ClientThreads, CallsTyped, AllLoops, Threads
  <2> QED
    BY <1>2, <2>1, <2>2, Names DEF ClientThreads, CallsTyped, QueuesTyped, Dispatches
<1>4. current[Base] + 1 <= Len(active_channels_[Base]) /\ current[Base] + 1 \in Nat
  <2>1. Len(active_channels_[Base]) \in Nat /\ current[Base] \in Nat
    BY Names, LenProperties DEF ClientThreads, LoopsTyped
  <2> QED
    BY <2>1 DEF Handling
<1>5. LoopsTyped'
  BY <1>4, Names DEF Dispatches, ClientThreads, LoopsTyped
<1>6. OneReset'
  BY <1>1, <1>2, ShortStacks DEF ClientThreads, OneReset, ResetAhead, Trying, Dispatches, Idle
<1> QED
  BY <1>1, <1>2, <1>3, <1>5, <1>6, RoundKept DEF Dispatches

\* The base loop handles a channel: a connection's, the Connector's, or the timers'.
LEMMA HandleKept ==
  ASSUME ClientThreads, HandleConnector(Base) \/ HandleTimers(Base)
                          \/ (HandleEvent(Base) /\ Leaves)
  PROVE  ClientThreads'
<1>1. CASE HandleConnector(Base)
  <2> DEFINE H == {"handle_error", "handle_write"}
             handlers == Dispatch(NextActive(Base).events \cap {"ERR", "OUT"})
             s == [i \in 1..Len(handlers) |-> Call(handlers[i], Connector)]
  <2>1. handlers \in Seq(H)
    BY DispatchHandlers
  <2>2. Handling(Base) /\ Dispatches(Base, s) /\ UNCHANGED <<connectorVars, clientVars>>
    BY <1>1 DEF HandleConnector, Leaves
  <2> HIDE DEF handlers
  <2>3. \A i \in 1..Len(handlers) : handlers[i] \in H
    BY <2>1, ElementOfSeq
  <2>4. \A h \in H : Call(h, Connector) \in QuietCalls
    BY DEF Call, QuietCalls, PlainCalls
  <2>5. Len(handlers) \in Nat
    BY <2>1, LenProperties
  <2>6. s \in Seq(QuietCalls)
    BY <2>3, <2>4, <2>5
  <2>7. ClientTyped' /\ UNCHANGED <<mutex_, client, channel_, state_>>
    BY <2>2 DEF ClientThreads, ClientTyped, connectorVars, clientVars, Trying
  <2> QED
    BY <2>2, <2>6, <2>7, DispatchKept
<1>2. CASE HandleTimers(Base)
  <2> DEFINE s == [i \in 1..due |-> Call("start_in_loop", Connector)]
  <2>1. Handling(Base) /\ Dispatches(Base, s)
    BY <1>2 DEF HandleTimers
  <2>2. s \in Seq(QuietCalls)
    BY DEF QuietCalls, Starts, ClientThreads, ClientTyped
  <2>3. ClientTyped' /\ UNCHANGED <<mutex_, client, channel_, state_>>
    BY <1>2 DEF HandleTimers, ClientThreads, ClientTyped, clientVars, Trying
  <2> QED
    BY <2>1, <2>2, <2>3, DispatchKept
<1>3. CASE HandleEvent(Base) /\ Leaves /\ ~Alive(NextActive(Base).c)
  BY <1>3, AbortKept DEF HandleEvent, Leaves
<1>4. CASE HandleEvent(Base) /\ Leaves /\ Alive(NextActive(Base).c)
  <2>1. PICK c \in Conns : c = NextActive(Base).c
    BY <1>4 DEF HandleEvent
  <2> DEFINE handlers == Dispatch(NextActive(Base).events)
             H == {"handle_close", "handle_error", "handle_read", "handle_write"}
             s == [i \in 1..Len(handlers) |-> Call(handlers[i], c)]
  <2>2. handlers \in Seq(H)
    BY DispatchHandlers
  <2>3. Handling(Base) /\ Dispatches(Base, s)
    BY <1>4, <2>1 DEF HandleEvent
  <2> HIDE DEF handlers
  <2>4. \A i \in 1..Len(handlers) : handlers[i] \in H
    BY <2>2, ElementOfSeq
  <2>5. \A h \in H : Call(h, c) \in QuietCalls
    BY DEF Call, QuietCalls, PlainCalls, PlainFns
  <2>6. Len(handlers) \in Nat
    BY <2>2, LenProperties
  <2>7. s \in Seq(QuietCalls)
    BY <2>4, <2>5, <2>6
  <2>8. ClientTyped' /\ UNCHANGED <<mutex_, client, channel_, state_>>
    BY <1>4 DEF ClientThreads, ClientTyped, connectorVars, clientVars, Trying, Leaves
  <2> QED
    BY <2>3, <2>7, <2>8, DispatchKept
<1> QED
  BY <1>1, <1>2, <1>3, <1>4

\* do_queued_functors takes the queue, runs it and destroys it.
LEMMA BatchKept ==
  ASSUME ClientThreads, SwapQueue(Base) \/ RunFunctor(Base) \/ FunctorsDone(Base), Leaves
  PROVE  ClientThreads'
<1> DEFINE q == queue_functors_[Base]
           b == functors[Base]
           n == running[Base]
<1>1. /\ q \in Seq(AnyFunctor) /\ Len(q) \in Nat
      /\ b \in Seq(AnyFunctor) /\ Len(b) \in Nat /\ n \in Nat
  BY Names, LenProperties DEF ClientThreads, QueuesTyped, LoopsTyped
<1>2. <<>> \in Seq(AnyFunctor) /\ <<>> \in Seq(AnyReport) /\ Len(<<>>) = 0
  BY EmptySeq
<1>3. ClientTyped' /\ UNCHANGED <<mutex_, client, channel_, state_>>
  BY DEF ClientThreads, ClientTyped, connectorVars, clientVars, Trying, Leaves
<1>4. /\ UNCHANGED <<conn, connections_, kept>> /\ Idle(Base)
      /\ calls[Base] = <<>> /\ ~Has(calls[Base], Resets) /\ Once(calls[Base], Resets)
      /\ ~Has(calls[Base], Locks \cup Ends)
  <2>1. UNCHANGED <<conn, connections_, kept>> /\ Idle(Base)
    BY DEF SwapQueue, RunFunctor, FunctorsDone, Abort
  <2>2. calls[Base] = <<>>
    BY <2>1 DEF Idle
  <2> QED
    BY <2>1, <2>2, ShortStacks
<1>5. ASSUME ~Abort("use_after_free"), UNCHANGED calls, QueuesTyped', LoopsTyped',
             OneReset'
      PROVE  ClientThreads'
  BY <1>3, <1>4, <1>5, RoundKept DEF ClientThreads, CallsTyped
<1>6. CASE SwapQueue(Base)
  <2>1. /\ functors' = [functors EXCEPT ![Base] = q]
        /\ queue_functors_' = [queue_functors_ EXCEPT ![Base] = <<>>]
        /\ active_channels_' = [active_channels_ EXCEPT ![Base] = <<>>]
        /\ current' = [current EXCEPT ![Base] = 0]
        /\ phase' = [phase EXCEPT ![Base] = "functors"]
        /\ UNCHANGED <<running, quit_flag_, calls>> /\ phase[Base] = "events"
    BY <1>6 DEF SwapQueue
  <2>2. QueuesTyped' /\ queue_functors_'[Base] = <<>>
    BY <1>2, <2>1, Names DEF ClientThreads, QueuesTyped
  <2>3. functors'[Base] = q /\ running'[Base] = 0 /\ b = <<>> /\ n = 0
    BY <2>1, Names DEF ClientThreads, LoopsTyped
  <2>4. LoopsTyped'
    <3>1. /\ functors' \in [AllLoops -> Seq(AnyFunctor)]
          /\ active_channels_' \in [AllLoops -> Seq(AnyReport)]
          /\ current' \in [AllLoops -> Nat] /\ running' \in [AllLoops -> Nat]
          /\ phase' \in [AllLoops -> {"poll", "events", "functors", "exited"}]
          /\ quit_flag_' \in [AllLoops -> BOOLEAN]
      BY <1>1, <1>2, <2>1 DEF ClientThreads, LoopsTyped
    <3>2. \A l \in AllLoops : l # Base =>
            /\ current'[l] = current[l] /\ active_channels_'[l] = active_channels_[l]
            /\ running'[l] = running[l] /\ functors'[l] = functors[l]
            /\ phase'[l] = phase[l]
      BY <2>1 DEF ClientThreads, LoopsTyped
    <3>3. /\ current'[Base] <= Len(active_channels_'[Base])
          /\ running'[Base] <= Len(functors'[Base]) /\ phase'[Base] = "functors"
      BY <1>1, <1>2, <2>1, <2>3, Names DEF ClientThreads, LoopsTyped
    <3> QED
      BY <3>1, <3>2, <3>3 DEF ClientThreads, LoopsTyped
  <2>5. OneReset'
    <3>2. HasFrom(q, 0, Resets) <=> Has(q, Resets)
      BY DEF Has
    <3>3. OnceFrom(q, 0, Resets) <=> Once(q, Resets)
      BY DEF Once
    <3>4. ~Has(<<>>, Resets) /\ Once(<<>>, Resets)
      BY ShortStacks
    <3> QED
      BY <1>3, <1>4, <2>1, <2>2, <2>3, <3>2, <3>3, <3>4
         DEF ClientThreads, OneReset, ResetAhead, Trying
  <2> QED
    BY <1>3, <1>4, <2>1, <2>2, <2>4, <2>5, RoundKept DEF ClientThreads, CallsTyped
<1>7. CASE RunFunctor(Base)
  <2> DEFINE f == b[n + 1]
             k == n + 1
             s == <<f>>
  <2>1. CASE Abort("use_after_free")
    BY <2>1, AbortKept DEF Leaves
  <2>2. CASE /\ running' = [running EXCEPT ![Base] = @ + 1]
             /\ calls' = [calls EXCEPT ![Base] = <<f>>]
             /\ UNCHANGED <<phase, active_channels_, current, queue_functors_, functors,
                            quit_flag_>>
    <3>1. n < Len(b) /\ phase[Base] = "functors" /\ k \in Nat /\ k <= Len(b)
      BY <1>1, <1>7 DEF RunFunctor
    <3>2. running' = [running EXCEPT ![Base] = k] /\ running'[Base] = k
      BY <2>2, Names DEF ClientThreads, LoopsTyped
    <3> HIDE DEF k
    <3>3. LoopsTyped'
      BY <2>2, <3>1, <3>2 DEF ClientThreads, LoopsTyped
    <3>4. /\ f \in AnyFunctor
          /\ HasFrom(b, n, Resets) <=> f \in Resets \/ HasFrom(b, k, Resets)
          /\ OnceFrom(b, n, Resets) => OnceFrom(b, k, Resets)
          /\ OnceFrom(b, n, Resets) /\ f \in Resets => ~HasFrom(b, k, Resets)
      <4> HIDE DEF b, n
      <4> QED
        BY <1>1, <3>1, Advance DEF k
    <3> HIDE DEF f
    <3>5. f \in AnyCall /\ f \notin Locks /\ f \notin Ends
      <4>1. /\ Resets \cap Locks = {} /\ Resets \cap Ends = {}
            /\ Endings \cap Locks = {} /\ Endings \cap Ends = {}
        BY DEF Resets, Endings, Locks, Ends, Call
      <4> QED
        BY <3>4, <4>1, Kinds DEF AnyFunctor
    <3>6. /\ s \in Seq(AnyCall) /\ (Has(s, Resets) <=> f \in Resets) /\ Once(s, Resets)
          /\ ~Has(s, Locks \cup Ends)
      BY <3>5, ShortStacks
    <3>7. calls' = [calls EXCEPT ![Base] = s] /\ calls'[Base] = s
      BY <2>2, Names DEF ClientThreads, CallsTyped
    <3> HIDE DEF s
    <3>8. CallsTyped' /\ \A u \in Users : calls'[u] = calls[u]
      BY <3>6, <3>7, Names DEF ClientThreads, CallsTyped
    <3>9. QueuesTyped' /\ queue_functors_'[Base] = q /\ functors'[Base] = b
      BY <2>2 DEF ClientThreads, QueuesTyped
    <3>10. OneReset'
      BY <1>3, <1>4, <3>2, <3>4, <3>6, <3>7, <3>9 DEF ClientThreads, OneReset, ResetAhead, Trying
    <3> QED
      BY <1>3, <1>4, <3>3, <3>6, <3>7, <3>8, <3>9, <3>10, RoundKept
  <2> QED
    BY <1>7, <2>1, <2>2 DEF RunFunctor
<1>8. CASE FunctorsDone(Base)
  <2>1. /\ functors' = [functors EXCEPT ![Base] = <<>>]
        /\ running' = [running EXCEPT ![Base] = 0]
        /\ UNCHANGED <<queue_functors_, active_channels_, current, quit_flag_, calls>>
        /\ n = Len(b) /\ phase[Base] = "functors"
    BY <1>8 DEF FunctorsDone
  <2>2. PICK p \in {"poll", "exited"} : phase' = [phase EXCEPT ![Base] = p]
    BY <1>8 DEF FunctorsDone
  <2>3. functors'[Base] = <<>> /\ running'[Base] = 0
    BY <2>1, Names DEF ClientThreads, LoopsTyped
  <2>4. LoopsTyped'
    <3>1. /\ functors' \in [AllLoops -> Seq(AnyFunctor)]
          /\ running' \in [AllLoops -> Nat]
          /\ phase' \in [AllLoops -> {"poll", "events", "functors", "exited"}]
      BY <1>2, <2>1, <2>2 DEF ClientThreads, LoopsTyped
    <3>2. \A l \in AllLoops : l # Base =>
            /\ running'[l] = running[l] /\ functors'[l] = functors[l]
            /\ phase'[l] = phase[l]
      BY <2>1, <2>2 DEF ClientThreads, LoopsTyped
    <3> QED
      BY <1>2, <2>1, <2>3, <3>1, <3>2 DEF ClientThreads, LoopsTyped
  <2>5. OneReset'
    <3>1. ~HasFrom(b, n, Resets)
      <4> HIDE DEF b, n
      <4> QED
        BY <1>1, <2>1, Exhausted
    <3>2. ~HasFrom(<<>>, 0, Resets) /\ OnceFrom(<<>>, 0, Resets)
      BY ShortStacks DEF Has, Once
    <3> QED
      BY <1>3, <2>1, <2>3, <3>1, <3>2 DEF ClientThreads, OneReset, ResetAhead, Trying
  <2> QED
    BY <1>3, <1>4, <2>1, <2>4, <2>5, RoundKept DEF ClientThreads, CallsTyped, QueuesTyped
<1> QED
  BY <1>6, <1>7, <1>8

-----------------------------------------------------------------------------
(* The Connector.                                                           *)

\* The Connector gives its Channel up: a functor that destroys it is queued.
LEMMA ResetQueued ==
  ASSUME ClientThreads, NEW more \in Seq(QuietCalls), BaseReturns(more, Resets), Trying,
         ConnsTyped', ClientTyped', UNCHANGED <<mutex_, client, connections_>>,
         channel_' # None, ~Trying'
  PROVE  ClientThreads'
<1> USE DEF ClientThreads
<1>1. /\ more \in Seq(AnyCall)
      /\ ~Has(more, Resets) /\ ~Has(more, Locks) /\ ~Has(more, Ends)
      /\ Once(more, Resets) /\ Once(more, Locks)
  BY QuietApart, SeqMonotonic, Without
<1>2. /\ CallsTyped'
      /\ \A x \in Threads : x # Base => calls'[x] = calls[x]
      /\ \A K : /\ Has(calls'[Base], K) <=> Has(more, K) \/ Has(Tail(calls[Base]), K)
                /\ Has(calls[Base], K) <=>
                     Head(calls[Base]) \in K \/ Has(Tail(calls[Base]), K)
                /\ Once(calls[Base], K) /\ Once(more, K)
                     /\ ~(Has(more, K) /\ Has(Tail(calls[Base]), K)) =>
                       Once(calls'[Base], K)
  BY <1>1, BaseStack
<1>3. Resets \in SUBSET AnyFunctor
  BY DEF AnyFunctor
<1>4. QueuesTyped'
  BY <1>3, QueueTyped DEF BaseReturns
<1>5. ~Has(queue_functors_[Base], Resets) => Once(queue_functors_'[Base], Resets)
  <2> DEFINE q == queue_functors_[Base]
  <2>1. q \in Seq(AnyFunctor)
    BY Names DEF QueuesTyped
  <2>2. CASE UNCHANGED queue_functors_
    BY <2>2 DEF OneReset
  <2>3. ASSUME NEW f \in Resets,
               queue_functors_' = [queue_functors_ EXCEPT ![Base] = Append(@, f)],
               ~Has(queue_functors_[Base], Resets)
        PROVE  Once(queue_functors_'[Base], Resets)
    <3>1. queue_functors_'[Base] = Append(q, f)
      BY <2>3, Names DEF QueuesTyped
    <3>2. Once(q, Resets) /\ ~Has(q, Resets) /\ f \in AnyFunctor
      BY <1>3, <2>3 DEF OneReset
    <3> HIDE DEF q
    <3>3. Once(Append(q, f), Resets)
      BY <2>1, <3>2, Queued
    <3> QED
      BY <3>1, <3>3
  <2> QED
    BY <2>2, <2>3 DEF BaseReturns
<1>6. LoopsTyped' /\ UNCHANGED <<functors, running>>
  BY DEF BaseReturns, loopVars, LoopsTyped
<1>7. OneReset'
  <2>1. ~ResetAhead
    BY DEF OneReset
  <2>2. ~Has(calls'[Base], Resets) /\ Once(calls'[Base], Resets)
    BY <1>1, <1>2, <2>1 DEF OneReset, ResetAhead
  <2> QED
    BY <1>5, <1>6, <2>1, <2>2 DEF OneReset, ResetAhead
<1>8. \A u \in Users : UserStack(u)' /\ calls'[u] = calls[u]
  BY <1>2, Names, UsersKept
<1>9. LockInv'
  BY <1>1, <1>2, <1>8 DEF LockInv, Idle
<1> QED
  BY <1>2, <1>4, <1>6, <1>7, <1>9

\* remove_and_reset_channel, at the end of a function of the Connector.
LEMMA RemoveAndResetKept ==
  ASSUME ClientThreads, NEW more \in Seq(QuietCalls), calls[Base] # <<>>,
         RemoveAndReset(Base, more), Trying, state_' \in {"DISCONNECTED", "CONNECTED"},
         retries' \in Nat, UNCHANGED <<started_, due, restVars, clientVars>>
  PROVE  ClientThreads'
<1>1. BaseReturns(more, Resets)
  BY DEF RemoveAndReset, ReturnQueueing, BaseReturns, Resets, restVars
<1>2. ConnsTyped'
  BY DEF ClientThreads, ConnsTyped, restVars
<1> DEFINE ch == Removed(DisableAll(channel_.channel))
           r == [channel_ EXCEPT !.channel = ch]
<1>3. channel_ \in [fd : Conns, channel : Channels]
  BY DEF ClientThreads, ClientTyped
<1>4. ch \in Channels /\ channel_' = r
  BY <1>3, ChannelOps DEF Interest, RemoveAndReset
<1> HIDE DEF ch
<1>5. r \in [fd : Conns, channel : Channels] /\ r # None
  <2>1. r \in [fd : Conns, channel : Channels]
    BY <1>3, <1>4
  <2> QED
    BY <2>1, ClientAssumption
<1> HIDE DEF r
<1>6. ClientTyped' /\ ~Trying' /\ UNCHANGED <<mutex_, client, connections_>>
  BY <1>4, <1>5 DEF ClientThreads, ClientTyped, clientVars, restVars, Trying
<1> QED
  BY <1>1, <1>2, <1>4, <1>5, <1>6, ResetQueued

\* No functor that would destroy it is on its way once the Connector's Channel is gone.
LEMMA NoReset ==
  ASSUME ClientThreads, channel_ = None \/ Trying
  PROVE  ~ResetAhead
  BY DEF ClientThreads, OneReset

\* A function of the Connector that leaves its Channel alone returns.
LEMMA ConnectorReturns ==
  ASSUME ClientThreads, NEW more \in Seq(QuietCalls), calls[Base] # <<>>, Return(Base, more),
         state_' \in {"DISCONNECTED", "CONNECTED"} \/ UNCHANGED state_,
         retries' \in Nat, {started_', connected_', wanted'} \subseteq BOOLEAN,
         UNCHANGED <<due, channel_, mutex_, client, restVars>>
  PROVE  ClientThreads'
<1>1. BaseReturns(more, PlainFunctors)
  BY ByReturn DEF restVars
<1>2. ConnsTyped' /\ UNCHANGED connections_
  BY DEF ClientThreads, ConnsTyped, restVars
<1>3. ClientTyped'
  BY DEF ClientThreads, ClientTyped, Trying
<1>4. ResetAhead => channel_' # None /\ ~Trying'
  BY DEF ClientThreads, OneReset, Trying
<1> QED
  BY <1>1, <1>2, <1>3, <1>4, QuietKept

\* An attempt: a new descriptor and a Channel for it.
LEMMA ConnectingKept ==
  ASSUME ClientThreads, calls[Base] # <<>>, Connecting(Base),
         UNCHANGED <<started_, retries, due, clientVars>>
  PROVE  ClientThreads'
<1>1. PICK s \in Usable :
        IF channel_ # None
        THEN Abort("connecting") /\ UNCHANGED <<state_, channel_>>
        ELSE /\ state_' = "CONNECTING"
             /\ channel_' = [fd |-> s, channel |-> Enable(NewChannel, "write")]
             /\ conn' = [conn EXCEPT ![s] = NewConn]
             /\ Return(Base, <<>>)
             /\ UNCHANGED <<connections_, kept, loopVars, aborted>>
  BY DEF Connecting
<1>2. CASE channel_ # None
  BY <1>1, <1>2, AbortKept DEF connectorVars
<1>3. CASE channel_ = None
  <2> DEFINE ch == Enable(NewChannel, "write")
             r == [fd |-> s, channel |-> ch]
             more == <<>>
  <2>1. s \in Conns /\ ch \in Channels
    BY ChannelOps DEF Usable, Channels, NewChannel, Interest, Flags
  <2> HIDE DEF ch
  <2>2. r \in [fd : Conns, channel : Channels]
    BY <2>1
  <2>3. state_' = "CONNECTING" /\ channel_' = r
    BY <1>1, <1>3 DEF ch
  <2> HIDE DEF r
  <2>4. ClientTyped'
    BY <2>2, <2>3 DEF ClientThreads, ClientTyped, clientVars, Trying
  <2>5. NewConn \in ConnRecords
    BY ChannelOps DEF NewConn, ConnRecords, States, NewChannel, Channels, Interest, Flags
  <2>6. conn' = [conn EXCEPT ![s] = NewConn]
        /\ UNCHANGED <<connections_, kept, loopVars>>
    BY <1>1, <1>3
  <2>7. ConnsTyped'
    BY <2>1, <2>5, <2>6, ConnSet DEF ClientThreads, ConnsTyped
  <2>8. more \in Seq(QuietCalls) /\ Return(Base, more)
    BY <1>1, <1>3, EmptySeq
  <2> HIDE DEF more
  <2>9. BaseReturns(more, PlainFunctors)
    BY <2>6, <2>8, ByReturn
  <2>10. UNCHANGED <<mutex_, client>>
    BY DEF clientVars
  <2>11. ~ResetAhead
    BY <1>3, NoReset
  <2> QED
    BY <2>4, <2>6, <2>7, <2>8, <2>9, <2>10, <2>11, QuietKept
<1> QED
  BY <1>2, <1>3

\* The functions of the Connector (connector.cpp).
LEMMA ConnectorKept ==
  ASSUME ClientThreads, NEW x \in Threads, ConnectorStep(x)
  PROVE  ClientThreads'
<1> DEFINE none == <<>>
<1>1. none \in Seq(QuietCalls)
  BY EmptySeq
<1> HIDE DEF none
<1>2. CASE UseAfterFree(x)
  BY <1>2, AbortKept DEF UseAfterFree
<1>3. ASSUME NEW fn \in {"start_in_loop", "stop_in_loop", "reset_channel", "handle_write",
                         "handle_error"},
             Executing(x, fn, Connector)
      PROVE  x = Base /\ calls[Base] # <<>>
  BY <1>3, OnBase DEF ClientThreads
<1>4. started_ \in BOOLEAN /\ connected_ \in BOOLEAN /\ wanted \in BOOLEAN
      /\ retries \in Nat /\ retries + 1 \in Nat
  BY DEF ClientThreads, ClientTyped
<1>5. CASE StartInLoop(x)
  <2>1. x = Base /\ calls[Base] # <<>>
    BY <1>3, <1>5 DEF StartInLoop, ConnectorCall
  <2>2. CASE Abort("start_in_loop") /\ UNCHANGED <<state_, channel_, retries>>
    BY <1>5, <2>2, AbortKept DEF StartInLoop, connectorVars
  <2>3. CASE Connecting(x) /\ UNCHANGED retries
    BY <1>5, <2>1, <2>3, ConnectingKept DEF StartInLoop
  <2>4. CASE Retry /\ Return(x, <<>>) /\ UNCHANGED <<channel_, restVars>>
    BY <1>1, <1>4, <1>5, <2>1, <2>4, ConnectorReturns
       DEF StartInLoop, Retry, clientVars, none
  <2>5. CASE Return(x, <<>>) /\ UNCHANGED <<state_, channel_, retries, restVars>>
    BY <1>1, <1>4, <1>5, <2>1, <2>5, ConnectorReturns DEF StartInLoop, clientVars, none
  <2> QED
    BY <1>5, <2>2, <2>3, <2>4, <2>5 DEF StartInLoop
<1>6. CASE StopInLoop(x)
  <2>1. x = Base /\ calls[Base] # <<>>
    BY <1>3, <1>6 DEF StopInLoop, ConnectorCall
  <2>2. CASE Trying
    BY <1>1, <1>4, <1>6, <2>1, <2>2, RemoveAndResetKept DEF StopInLoop, none
  <2>3. CASE ~Trying
    BY <1>1, <1>4, <1>6, <2>1, <2>3, ConnectorReturns DEF StopInLoop, clientVars, none
  <2> QED
    BY <2>2, <2>3
<1>7. CASE ConnectorError(x)
  <2>1. x = Base /\ calls[Base] # <<>>
    BY <1>3, <1>7 DEF ConnectorError, ConnectorCall
  <2>2. CASE Trying
    BY <1>1, <1>4, <1>7, <2>1, <2>2, RemoveAndResetKept DEF ConnectorError, Retry, none
  <2>3. CASE ~Trying
    BY <1>1, <1>4, <1>7, <2>1, <2>3, ConnectorReturns DEF ConnectorError, clientVars, none
  <2> QED
    BY <2>2, <2>3
<1>8. CASE ConnectorWrite(x)
  <2>1. x = Base /\ calls[Base] # <<>>
    BY <1>3, <1>8 DEF ConnectorWrite, ConnectorCall
  <2>2. CASE Trying /\ RemoveAndReset(x, <<>>) /\ Retry /\ UNCHANGED restVars
    BY <1>1, <1>4, <1>8, <2>1, <2>2, RemoveAndResetKept DEF ConnectorWrite, Retry, none
  <2>3. CASE /\ Trying /\ state_' = "CONNECTED" /\ UNCHANGED <<retries, restVars>>
             /\ RemoveAndReset(x, IF started_ THEN <<Call("new_connection", channel_.fd)>>
                                  ELSE <<>>)
    <3> DEFINE more == IF started_ THEN <<Call("new_connection", channel_.fd)>> ELSE <<>>
    <3>1. channel_.fd \in Conns
      BY <2>3 DEF ClientThreads, ClientTyped
    <3>2. Call("new_connection", channel_.fd) \in QuietCalls
      BY <3>1 DEF Call, QuietCalls, Installs
    <3>3. more \in Seq(QuietCalls)
      BY <1>1, <3>2 DEF none
    <3>4. RemoveAndReset(Base, more)
      BY <2>1, <2>3
    <3> HIDE DEF more
    <3> QED
      BY <1>4, <1>8, <2>1, <2>3, <3>3, <3>4, RemoveAndResetKept DEF ConnectorWrite
  <2>4. CASE Abort("handle_write") /\ UNCHANGED <<state_, channel_, retries>>
    BY <1>8, <2>4, AbortKept DEF ConnectorWrite, connectorVars
  <2>5. CASE Return(x, <<>>) /\ UNCHANGED <<restVars, state_, channel_, retries>>
    BY <1>1, <1>4, <1>8, <2>1, <2>5, ConnectorReturns DEF ConnectorWrite, clientVars, none
  <2> QED
    BY <1>8, <2>2, <2>3, <2>4, <2>5 DEF ConnectorWrite
<1>9. CASE ResetChannel(x)
  <2>1. x = Base /\ calls[Base] # <<>> /\ Executing(Base, "reset_channel", Connector)
    BY <1>3, <1>9 DEF ResetChannel, ConnectorCall
  <2>2. Return(Base, none) /\ UNCHANGED restVars /\ channel_' = None
    BY <1>9, <2>1 DEF ResetChannel, none
  <2>3. BaseReturns(none, PlainFunctors) /\ BaseReturns(none, {}) /\ UNCHANGED queue_functors_
    BY <2>1, <2>2, ByReturn DEF restVars, BaseReturns, Return
  <2>4. /\ none \in Seq(AnyCall)
        /\ ~Has(none, Resets) /\ ~Has(none, Locks) /\ ~Has(none, Ends)
        /\ Once(none, Resets) /\ Once(none, Locks)
    BY ShortStacks DEF none
  <2>5. /\ CallsTyped'
        /\ \A y \in Threads : y # Base => calls'[y] = calls[y]
        /\ \A K : /\ Has(calls'[Base], K) <=> Has(none, K) \/ Has(Tail(calls[Base]), K)
                  /\ Has(calls[Base], K) <=>
                       Head(calls[Base]) \in K \/ Has(Tail(calls[Base]), K)
                  /\ Once(calls[Base], K) /\ Head(calls[Base]) \in K =>
                       ~Has(Tail(calls[Base]), K)
                  /\ Once(calls[Base], K) /\ Once(none, K)
                       /\ ~(Has(none, K) /\ Has(Tail(calls[Base]), K)) =>
                         Once(calls'[Base], K)
    BY <2>3, <2>4, BaseStack DEF ClientThreads
  <2>6. Head(calls[Base]) \in Resets
    BY <2>1 DEF Executing, Resets
  <2>7. ~ResetAhead' /\ OneReset'
    BY <2>2, <2>3, <2>4, <2>5, <2>6
       DEF ClientThreads, OneReset, ResetAhead, restVars, loopVars
  <2>8. ClientTyped' /\ UNCHANGED <<mutex_, client>>
    <3>1. Has(calls[Base], Resets)
      BY <2>5, <2>6
    <3>2. ~Trying
      BY <3>1 DEF ClientThreads, OneReset, ResetAhead
    <3> QED
      BY <1>9, <3>2 DEF ResetChannel, ClientThreads, ClientTyped, clientVars, Trying
  <2>9. ConnsTyped' /\ QueuesTyped' /\ LoopsTyped' /\ UNCHANGED connections_
    BY <2>2, <2>3 DEF ClientThreads, ConnsTyped, QueuesTyped, LoopsTyped, restVars, loopVars
  <2>10. \A u \in Users : UserStack(u)' /\ calls'[u] = calls[u]
    BY <2>5, <2>8, <2>9, Names, UsersKept DEF ClientThreads
  <2>11. LockInv'
    BY <2>4, <2>5, <2>8, <2>10 DEF ClientThreads, LockInv, Idle
  <2> QED
    BY <2>5, <2>7, <2>8, <2>9, <2>11 DEF ClientThreads
<1> QED
  BY <1>2, <1>5, <1>6, <1>7, <1>8, <1>9 DEF ConnectorStep

-----------------------------------------------------------------------------
(* The TcpClient on the base loop's thread.                                 *)

\* The same as ByReturn, with a functor queued.
LEMMA ByQueueing ==
  ASSUME NEW more, NEW queued, NEW f \in queued, calls[Base] # <<>>,
         ReturnQueueing(Base, more, f), UNCHANGED loopVars
  PROVE  BaseReturns(more, queued)
  BY DEF BaseReturns, ReturnQueueing

\* A function that leaves the mutex, the life of the client and the Connector's Channel
\* alone returns.
LEMMA ClientReturns ==
  ASSUME ClientThreads, NEW more \in Seq(QuietCalls), BaseReturns(more, PlainFunctors),
         ConnsTyped', {started_', connected_', wanted'} \subseteq BOOLEAN,
         state_' = "DISCONNECTED" \/ UNCHANGED state_,
         UNCHANGED <<channel_, retries, due, mutex_, client>>,
         \/ connections_ \subseteq connections_'
         \/ mutex_ = None
         \/ client # "up"
  PROVE  ClientThreads'
<1>1. ClientTyped'
  BY DEF ClientThreads, ClientTyped, Trying
<1>2. ResetAhead => channel_' # None /\ ~Trying'
  BY DEF ClientThreads, OneReset, Trying
<1> QED
  BY <1>1, <1>2, QuietKept

\* Nothing, one quiet call.
LEMMA QuietMore ==
  ASSUME NEW a \in QuietCalls
  PROVE  <<>> \in Seq(QuietCalls) /\ <<a>> \in Seq(QuietCalls)
  BY EmptySeq

\* connect, stop, disconnect up to its lock, and what the user posted (tcp_client.cpp).
LEMMA WishesKept ==
  ASSUME ClientThreads, ClientConnect(Base) \/ ClientStop(Base) \/ ClientDisconnect(Base)
                          \/ IfUp(Base)
  PROVE  ClientThreads'
<1>1. calls[Base] # <<>>
  BY DEF ClientConnect, ClientStop, ClientDisconnect, IfUp, Executing
<1>2. started_ \in BOOLEAN /\ connected_ \in BOOLEAN /\ wanted \in BOOLEAN
  BY DEF ClientThreads, ClientTyped
<1>3. ASSUME UNCHANGED restVars PROVE ConnsTyped' /\ UNCHANGED <<connections_, loopVars>>
  BY <1>3 DEF ClientThreads, ConnsTyped, restVars
<1>4. \A a \in QuietCalls : <<>> \in Seq(QuietCalls) /\ <<a>> \in Seq(QuietCalls)
  BY QuietMore
<1>5. CASE ClientConnect(Base)
  <2> DEFINE more == <<Call("start_in_loop", Connector)>>
  <2>1. more \in Seq(QuietCalls)
    BY <1>4 DEF QuietCalls, Starts
  <2>2. Return(Base, more) /\ UNCHANGED restVars
    BY <1>5 DEF ClientConnect
  <2> HIDE DEF more
  <2>3. BaseReturns(more, PlainFunctors)
    BY <1>1, <1>3, <2>2, ByReturn
  <2> QED
    BY <1>3, <1>5, <2>1, <2>2, <2>3, ClientReturns DEF ClientConnect
<1>6. CASE ClientStop(Base)
  <2> DEFINE more == <<>>
             f == Call("stop_in_loop", Connector)
  <2>1. more \in Seq(QuietCalls) /\ f \in PlainFunctors
    BY EmptySeq DEF PlainFunctors
  <2>2. ReturnQueueing(Base, more, f) /\ UNCHANGED restVars
    BY <1>6 DEF ClientStop
  <2> HIDE DEF more, f
  <2>3. BaseReturns(more, PlainFunctors)
    BY <1>1, <1>3, <2>1, <2>2, ByQueueing
  <2> QED
    BY <1>3, <1>6, <2>1, <2>2, <2>3, ClientReturns DEF ClientStop
<1>7. CASE ClientDisconnect(Base)
  <2> DEFINE more == <<Call("disconnect_locked", Client)>>
  <2>1. more \in Seq(QuietCalls)
    BY <1>4 DEF QuietCalls, PlainCalls, Call
  <2>2. Return(Base, more) /\ UNCHANGED restVars
    BY <1>7 DEF ClientDisconnect
  <2> HIDE DEF more
  <2>3. BaseReturns(more, PlainFunctors)
    BY <1>1, <1>3, <2>2, ByReturn
  <2> QED
    BY <1>2, <1>3, <1>7, <2>1, <2>2, <2>3, ClientReturns DEF ClientDisconnect, connectorVars
<1>8. CASE IfUp(Base)
  <2> DEFINE op == Head(calls[Base]).c
             more == IF client = "up" THEN <<Call(op, Client)>> ELSE <<>>
  <2>1. Head(calls[Base]) \in AnyCall /\ Head(calls[Base]).fn = "if_up"
    BY <1>1, <1>8, Names, HeadOrTail DEF IfUp, ClientThreads, CallsTyped
  <2>2. op \in PostedOps
    BY <2>1 DEF AnyCall, PlainCalls, PlainFns, Raw, Ops, Closers, Installs, Removals, Endings,
       Starts, Resets, Locks, Ends, Call
  <2>3. Call(op, Client) \in QuietCalls
    BY <2>2, ClientAssumption DEF QuietCalls, PlainCalls, Call
  <2>4. more \in Seq(QuietCalls)
    BY <1>4, <2>3
  <2>5. Return(Base, more) /\ UNCHANGED restVars
    BY <1>8 DEF IfUp
  <2> HIDE DEF more
  <2>6. BaseReturns(more, PlainFunctors)
    BY <1>1, <1>3, <2>5, ByReturn
  <2> QED
    BY <1>2, <1>3, <1>8, <2>4, <2>5, <2>6, ClientReturns
       DEF IfUp, Leaves, connectorVars, clientVars
<1> QED
  BY <1>5, <1>6, <1>7, <1>8

\* new_connection, which the Connector calls (tcp_client.cpp).
LEMMA NewConnectionKept ==
  ASSUME ClientThreads, NEW c \in Conns, NewConnection(Base, c)
  PROVE  ClientThreads'
<1> DEFINE more == <<Call("connect_established", c)>>
           r == [conn[c] EXCEPT !.state = "CONNECTING"]
<1>1. more \in Seq(QuietCalls)
  BY QuietMore DEF QuietCalls, PlainCalls, PlainFns, Call
<1>2. /\ Return(Base, more) /\ conn' = [conn EXCEPT ![c] = r] /\ connections_' = {c}
      /\ mutex_ = None /\ UNCHANGED <<kept, loopVars, connectorVars, clientVars>>
      /\ calls[Base] # <<>>
  BY DEF NewConnection, Executing
<1>3. r \in ConnRecords
  BY DEF ClientThreads, ConnsTyped, ConnRecords, States
<1> HIDE DEF more, r
<1>4. BaseReturns(more, PlainFunctors)
  BY <1>2, ByReturn
<1>5. ConnsTyped'
  BY <1>2, <1>3, ConnSet DEF ClientThreads, ConnsTyped
<1> QED
  BY <1>1, <1>2, <1>4, <1>5, ClientReturns
     DEF ClientThreads, ClientTyped, connectorVars, clientVars

\* remove_connection, or the close callback of ~Impl (tcp_client.cpp).
LEMMA RemoveConnectionKept ==
  ASSUME ClientThreads, NEW c \in Conns, RemoveConnection(Base, c)
  PROVE  ClientThreads'
<1>1. calls[Base] # <<>>
  BY DEF RemoveConnection, Executing
<1>2. CASE client = "dead"
  BY <1>2, AbortKept DEF RemoveConnection, connectorVars, clientVars
<1>3. CASE client # "dead"
  <2> DEFINE f == Call("connect_destroyed", c)
  <2>1. PICK more \in {<<>>, <<Call("start_in_loop", Connector)>>} : ReturnQueueing(Base, more, f)
    BY <1>3 DEF RemoveConnection
  <2>2. f \in PlainFunctors /\ more \in Seq(QuietCalls)
    BY QuietMore DEF PlainFunctors, Endings, Call, QuietCalls, Starts
  <2> HIDE DEF f
  <2>3. /\ UNCHANGED <<conn, kept, loopVars, channel_, retries, due, clientVars>>
        /\ started_' \in {TRUE, started_} /\ state_' \in {"DISCONNECTED", state_}
        /\ UNCHANGED connections_ \/ (connections_' = {} /\ mutex_ = None)
    BY <1>3 DEF RemoveConnection, restVars
  <2>4. BaseReturns(more, PlainFunctors)
    BY <1>1, <2>1, <2>2, <2>3, ByQueueing
  <2>5. ConnsTyped'
    BY <2>3 DEF ClientThreads, ConnsTyped
  <2>6. {started_', connected_', wanted'} \subseteq BOOLEAN
        /\ UNCHANGED <<mutex_, client>>
    BY <2>3 DEF ClientThreads, ClientTyped, clientVars
  <2> QED
    BY <2>2, <2>3, <2>4, <2>5, <2>6, ClientReturns
<1> QED
  BY <1>2, <1>3

\* A call of the base loop's thread returned that concerned the mutex or the end of the
\* client.
LEMMA BaseKept ==
  ASSUME ClientThreads, NEW more \in Seq(AnyCall), ~Has(more, Resets), Once(more, Resets),
         BaseReturns(more, PlainFunctors), ConnsTyped', ClientTyped',
         UNCHANGED <<channel_, state_>>, LockInv'
  PROVE  ClientThreads'
<1> USE DEF ClientThreads
<1>1. /\ CallsTyped'
      /\ \A K : /\ Has(calls'[Base], K) <=> Has(more, K) \/ Has(Tail(calls[Base]), K)
                /\ Has(calls[Base], K) <=>
                     Head(calls[Base]) \in K \/ Has(Tail(calls[Base]), K)
                /\ Once(calls[Base], K) /\ Once(more, K)
                     /\ ~(Has(more, K) /\ Has(Tail(calls[Base]), K)) =>
                       Once(calls'[Base], K)
  BY BaseStack
<1>2. /\ QueuesTyped'
      /\ Has(queue_functors_'[Base], Resets) <=> Has(queue_functors_[Base], Resets)
      /\ Once(queue_functors_[Base], Resets) => Once(queue_functors_'[Base], Resets)
  <2>1. PlainFunctors \in SUBSET AnyFunctor
    BY DEF AnyFunctor
  <2> QED
    BY <2>1, Kinds, QueueTyped DEF BaseReturns
<1>3. LoopsTyped' /\ UNCHANGED <<functors, running>>
  BY DEF BaseReturns, loopVars, LoopsTyped
<1>4. OneReset'
  BY <1>1, <1>2, <1>3 DEF OneReset, ResetAhead, Trying
<1> QED
  BY <1>1, <1>2, <1>3, <1>4

\* Nobody of the users has the mutex: they are outside disconnect() or before its lock.
LEMMA UsersFree ==
  ASSUME LockInv, mutex_ \notin Users, \A u \in Users : calls'[u] = calls[u]
  PROVE  \A u \in Users : UserStack(u)'
  BY DEF LockInv, UserStack

\* disconnect takes the mutex and calls shutdown(), or has nothing to do; the mutex is
\* released (tcp_client.cpp).
LEMMA LocksKept ==
  ASSUME ClientThreads, DisconnectLocked(Base) \/ Unlock(Base)
  PROVE  ClientThreads'
<1> USE DEF ClientThreads
<1>1. calls[Base] # <<>> /\ UNCHANGED <<restVars, connectorVars, connected_, client, wanted>>
  BY DEF DisconnectLocked, Unlock, Executing
<1>2. ConnsTyped' /\ UNCHANGED <<connections_, loopVars, channel_, state_>>
  BY <1>1 DEF ConnsTyped, restVars, connectorVars
<1>3. ASSUME mutex_' \in Threads \cup {None} PROVE ClientTyped'
  BY <1>1, <1>3 DEF ClientTyped, connectorVars, Trying
<1>4. ASSUME NEW more \in Seq(AnyCall), BaseReturns(more, PlainFunctors)
      PROVE  /\ \A u \in Users : calls'[u] = calls[u]
             /\ \A K : /\ Has(calls'[Base], K) <=> Has(more, K) \/ Has(Tail(calls[Base]), K)
                       /\ Has(calls[Base], K) <=>
                            Head(calls[Base]) \in K \/ Has(Tail(calls[Base]), K)
                       /\ Once(calls[Base], K) /\ Head(calls[Base]) \in K =>
                            ~Has(Tail(calls[Base]), K)
                       /\ Once(calls[Base], K) /\ Once(more, K)
                            /\ ~(Has(more, K) /\ Has(Tail(calls[Base]), K)) =>
                              Once(calls'[Base], K)
  BY <1>4, Names, BaseStack
<1> DEFINE none == <<>>
<1>5. /\ none \in Seq(AnyCall) /\ none \in Seq(QuietCalls)
      /\ \A K : ~Has(none, K) /\ Once(none, K)
  BY ShortStacks
<1> HIDE DEF none
<1>6. CASE DisconnectLocked(Base) /\ connections_ = {} /\ Return(Base, none) /\ UNCHANGED mutex_
  <2>1. BaseReturns(none, PlainFunctors)
    BY <1>1, <1>2, <1>6, ByReturn
  <2>2. {started_', connected_', wanted'} \subseteq BOOLEAN
    BY <1>1 DEF ClientTyped, connectorVars
  <2> QED
    BY <1>1, <1>2, <1>5, <1>6, <2>1, <2>2, ClientReturns DEF connectorVars
<1>7. ASSUME DisconnectLocked(Base), NEW c \in connections_, mutex_' = Base,
             Return(Base, <<Call("shutdown", c), Call("unlock", Client)>>)
      PROVE  ClientThreads'
  <2> DEFINE more == <<Call("shutdown", c), Call("unlock", Client)>>
  <2>1. c \in Conns /\ mutex_ = None
    BY <1>7 DEF ConnsTyped, DisconnectLocked
  <2>2. Call("shutdown", c) \in PlainCalls /\ Call("unlock", Client) \in Locks
    BY <2>1 DEF PlainCalls, PlainFns, Ops, Call, Locks
  <2>3. Call("unlock", Client) \notin Resets /\ Call("unlock", Client) \notin Ends
    BY DEF Resets, Ends, Call
  <2>4. /\ Call("shutdown", c) \in AnyCall /\ Call("unlock", Client) \in AnyCall
        /\ \A K \in {Locks, Resets, Ends} : Call("shutdown", c) \notin K
    BY <2>2, Kinds
  <2>5. /\ more \in Seq(AnyCall)
        /\ ~Has(more, Resets) /\ Once(more, Resets) /\ ~Has(more, Ends)
        /\ Once(more, Locks)
    BY <2>3, <2>4, ShortStacks
  <2>6. Return(Base, more)
    BY <1>7
  <2> HIDE DEF more
  <2>7. BaseReturns(more, PlainFunctors)
    BY <1>1, <1>2, <2>6, ByReturn
  <2>8. mutex_ \notin Users /\ mutex_ # Base
    BY <2>1, Names
  <2>9. \A u \in Users : UserStack(u)' /\ calls'[u] = calls[u]
    BY <1>4, <2>5, <2>7, <2>8, UsersFree
  <2>10. ~Has(calls[Base], Locks)
    BY <2>8 DEF LockInv
  <2>11. LockInv'
    BY <1>1, <1>4, <1>7, <2>5, <2>7, <2>9, <2>10 DEF LockInv, Idle
  <2>12. ClientTyped'
    BY <1>3, <1>7, Names
  <2> QED
    BY <1>2, <2>5, <2>7, <2>11, <2>12, BaseKept
<1>8. CASE Unlock(Base)
  <2>1. Return(Base, none) /\ mutex_' = None /\ Head(calls[Base]) \in Locks
    BY <1>8 DEF Unlock, none, Executing, Locks
  <2>2. BaseReturns(none, PlainFunctors)
    BY <1>1, <1>2, <2>1, ByReturn
  <2>3. mutex_ = Base /\ mutex_ \notin Users
    BY <1>4, <1>5, <2>1, <2>2, Names DEF LockInv
  <2>4. \A u \in Users : UserStack(u)' /\ calls'[u] = calls[u]
    BY <1>4, <1>5, <2>2, <2>3, UsersFree
  <2>5. ~Has(calls'[Base], Locks) /\ Once(calls'[Base], Locks)
    BY <1>4, <1>5, <2>1, <2>2 DEF LockInv
  <2>6. LockInv'
    BY <1>1, <1>4, <1>5, <2>2, <2>4, <2>5 DEF LockInv, Idle
  <2>7. ClientTyped'
    BY <1>3, <2>1
  <2> QED
    BY <1>2, <1>5, <2>2, <2>6, <2>7, BaseKept
<1> QED
  BY <1>6, <1>7, <1>8 DEF DisconnectLocked, none

\* The sequence of a set that has no two members.
LEMMA ListedAlone ==
  ASSUME NEW S, \A a, b \in S : a = b
  PROVE  SetToSeq(S) \in Seq(S)
<1>1. CASE S = {}
  <2>1. Cardinality(S) = 0 /\ 1..0 = {}
    BY <1>1, FS_EmptySet
  <2>2. \E f \in [1..0 -> S] : IsInjective(f)
    <3> DEFINE f == [i \in 1..0 |-> i]
    <3>1. f \in [1..0 -> S] /\ IsInjective(f)
      BY <2>1 DEF IsInjective
    <3> QED
      BY <3>1
  <2>3. SetToSeq(S) \in [1..0 -> S]
    BY <2>1, <2>2 DEF SetToSeq
  <2> QED
    BY <2>3
<1>2. ASSUME NEW a \in S PROVE SetToSeq(S) \in Seq(S)
  <2>1. S = {a}
    BY <1>2
  <2>2. Cardinality(S) = 1
    BY <2>1, FS_Singleton
  <2>3. \E f \in [1..1 -> S] : IsInjective(f)
    <3> DEFINE f == [i \in 1..1 |-> a]
    <3>1. f \in [1..1 -> S] /\ IsInjective(f)
      BY DEF IsInjective
    <3> QED
      BY <3>1
  <2>4. SetToSeq(S) \in [1..1 -> S]
    BY <2>2, <2>3 DEF SetToSeq
  <2>5. \A n \in Nat : \A f \in [1..n -> S] : f \in Seq(S)
    OBVIOUS
  <2> QED
    BY <2>4, <2>5
<1> QED
  BY <1>1, <1>2

\* ~Impl, first what its body does and then the end of the members (tcp_client.cpp).
LEMMA EndsKept ==
  ASSUME ClientThreads, DestroyClient(Base) \/ ClientDestroyed(Base)
  PROVE  ClientThreads'
<1> USE DEF ClientThreads
<1>1. calls[Base] # <<>> /\ UNCHANGED <<conn, kept, loopVars, state_, channel_, retries, due,
                                        connected_, mutex_>>
  BY DEF DestroyClient, ClientDestroyed, Executing, restVars, connectorVars
<1>2. ASSUME NEW more \in Seq(AnyCall), BaseReturns(more, PlainFunctors)
      PROVE  /\ \A u \in Users : calls'[u] = calls[u]
             /\ \A K : /\ Has(calls'[Base], K) <=> Has(more, K) \/ Has(Tail(calls[Base]), K)
                       /\ Has(calls[Base], K) <=>
                            Head(calls[Base]) \in K \/ Has(Tail(calls[Base]), K)
                       /\ Once(calls[Base], K) /\ Once(more, K)
                            /\ ~(Has(more, K) /\ Has(Tail(calls[Base]), K)) =>
                              Once(calls'[Base], K)
  BY <1>2, Names, BaseStack
<1> DEFINE none == <<>>
<1>3. /\ none \in Seq(AnyCall) /\ none \in Seq(QuietCalls) /\ none \in Seq(PlainCalls)
      /\ \A K : ~Has(none, K) /\ Once(none, K)
  BY ShortStacks
<1> HIDE DEF none
<1>4. ASSUME NEW s \in Seq(PlainCalls)
      PROVE  /\ Append(s, Call("destroyed", Client)) \in Seq(AnyCall)
             /\ \A K \in {Resets, Locks} : /\ ~Has(Append(s, Call("destroyed", Client)), K)
                                           /\ Once(Append(s, Call("destroyed", Client)), K)
  <2> DEFINE f == Call("destroyed", Client)
  <2>1. f \in AnyCall /\ f \notin Resets /\ f \notin Locks
    BY DEF AnyCall, Ends, Resets, Locks, Call
  <2>2. s \in Seq(AnyCall) /\ \A K \in {Resets, Locks} : ~Has(s, K) /\ Once(s, K)
    BY Kinds, SeqMonotonic, Without
  <2> HIDE DEF f
  <2>3. Append(s, f) \in Seq(AnyCall)
        /\ \A K \in {Resets, Locks} : ~Has(Append(s, f), K) /\ Once(Append(s, f), K)
    BY <2>1, <2>2, Queued
  <2> QED
    BY <2>3 DEF f
<1>5. ASSUME MayDestroy, client' = "dying", NEW s \in Seq(PlainCalls), UNCHANGED connections_,
             wanted' = FALSE, started_' \in {FALSE, started_},
             BaseReturns(Append(s, Call("destroyed", Client)), PlainFunctors)
      PROVE  ClientThreads'
  <2> DEFINE more == Append(s, Call("destroyed", Client))
  <2>1. /\ more \in Seq(AnyCall) /\ BaseReturns(more, PlainFunctors)
        /\ ~Has(more, Resets) /\ ~Has(more, Locks) /\ Once(more, Resets) /\ Once(more, Locks)
    BY <1>4, <1>5
  <2> HIDE DEF more
  <2>2. \A u \in Users : calls'[u] = calls[u] /\ calls[u] = <<>>
    BY <1>2, <1>5, <2>1 DEF MayDestroy, Idle
  <2>3. LockInv'
    BY <1>1, <1>2, <1>5, <2>1, <2>2 DEF LockInv, UserStack, Idle
  <2>4. ConnsTyped' /\ ClientTyped'
    BY <1>1, <1>5 DEF ConnsTyped, ClientTyped, Trying
  <2> QED
    BY <1>1, <2>1, <2>3, <2>4, BaseKept
<1>6. CASE DestroyClient(Base) /\ MayDestroy /\ connections_ = {}
  <2> DEFINE f == Call("stop_in_loop", Connector)
             more == Append(none, Call("destroyed", Client))
  <2>1. /\ client' = "dying" /\ wanted' = FALSE /\ started_' = FALSE
        /\ UNCHANGED connections_
        /\ ReturnQueueing(Base, <<Call("destroyed", Client)>>, f)
    BY <1>6 DEF DestroyClient, restVars
  <2>2. more = <<Call("destroyed", Client)>> /\ f \in PlainFunctors
    BY DEF none, PlainFunctors
  <2>3. ReturnQueueing(Base, more, f)
    BY <2>1, <2>2
  <2> HIDE DEF f, more
  <2>4. BaseReturns(more, PlainFunctors)
    BY <1>1, <2>2, <2>3, ByQueueing
  <2> QED
    BY <1>3, <1>5, <1>6, <2>1, <2>4 DEF more
<1>7. CASE DestroyClient(Base) /\ MayDestroy /\ connections_ # {}
  <2> DEFINE S == {Call("force_close", c) : c \in connections_ \ kept}
             s == SetToSeq(S)
             more == Append(s, Call("destroyed", Client))
  <2>1. /\ client' = "dying" /\ wanted' = FALSE /\ UNCHANGED <<started_, connections_>>
        /\ Return(Base, more)
    BY <1>7 DEF DestroyClient, restVars
  <2>2. \A a, b \in S : a = b
    BY DEF ConnsTyped
  <2>3. S \subseteq PlainCalls
    BY DEF ConnsTyped, PlainCalls, PlainFns, Ops, Call
  <2> HIDE DEF S
  <2>4. s \in Seq(PlainCalls)
    BY <2>2, <2>3, ListedAlone, SeqMonotonic
  <2> HIDE DEF s, more
  <2>5. BaseReturns(more, PlainFunctors)
    BY <1>1, <2>1, ByReturn
  <2> QED
    BY <1>5, <1>7, <2>1, <2>4, <2>5 DEF more
<1>8. CASE DestroyClient(Base) /\ ~MayDestroy
  <2>1. Return(Base, none) /\ UNCHANGED <<restVars, started_, client, wanted>>
    BY <1>8 DEF DestroyClient, none
  <2>2. BaseReturns(none, PlainFunctors)
    BY <1>1, <2>1, ByReturn
  <2>3. ConnsTyped' /\ {started_', connected_', wanted'} \subseteq BOOLEAN
        /\ UNCHANGED connections_
    BY <1>1, <2>1 DEF ConnsTyped, ClientTyped, restVars
  <2> QED
    BY <1>1, <1>3, <2>1, <2>2, <2>3, ClientReturns
<1>9. CASE ClientDestroyed(Base)
  <2>1. /\ Return(Base, none) /\ client' = "dead" /\ connections_' = {}
        /\ UNCHANGED <<wanted, started_>> /\ Head(calls[Base]) \in Ends
    BY <1>9 DEF ClientDestroyed, none, connectorVars, Executing, Ends
  <2>2. BaseReturns(none, PlainFunctors)
    BY <1>1, <2>1, ByReturn
  <2>3. client # "up"
    BY <1>2, <1>3, <2>1, <2>2 DEF LockInv
  <2>4. \A u \in Users : calls'[u] = calls[u] /\ calls[u] = <<>>
    BY <1>2, <1>3, <2>2, <2>3 DEF LockInv, Idle
  <2>5. LockInv'
    BY <1>1, <1>2, <1>3, <2>1, <2>2, <2>4 DEF LockInv, UserStack, Idle
  <2>6. ConnsTyped' /\ ClientTyped'
    BY <1>1, <2>1 DEF ConnsTyped, ClientTyped, Trying
  <2> QED
    BY <1>1, <1>3, <2>2, <2>5, <2>6, BaseKept
<1> QED
  BY <1>6, <1>7, <1>8, <1>9

\* The functions of TcpConn, as far as the client's threads see them.
LEMMA ConnReturnsKept ==
  ASSUME ClientThreads, NEW c \in Conns, NEW more, ConnReturns(c, more), Leaves
  PROVE  ClientThreads'
<1>1. more \in Seq(QuietCalls)
  <2>1. CASE more \in Seq(PlainCalls)
    BY <2>1, SeqMonotonic DEF QuietCalls
  <2>2. CASE more = Append(UserCallback(c), Call("remove_connection", c))
    <3>1. UserCallback(c) \in Seq(PlainCalls)
      BY PlainMore DEF PlainFns
    <3>2. UserCallback(c) \in Seq(QuietCalls)
      BY <3>1, SeqMonotonic DEF QuietCalls
    <3>3. Call("remove_connection", c) \in QuietCalls
      BY DEF QuietCalls, Removals, Call
    <3> QED
      BY <2>2, <3>2, <3>3, AppendProperties
  <2>3. ASSUME NEW fn \in {"post_shutdown", "post_force_close"}, more = <<Call(fn, c)>>
        PROVE  more \in Seq(QuietCalls)
    <3>1. Call(fn, c) \in QuietCalls
      BY DEF QuietCalls, Closers, Call
    <3> QED
      BY <2>3, <3>1, QuietMore
  <2> QED
    BY <2>1, <2>2, <2>3 DEF ConnReturns
<1>2. BaseReturns(more, PlainFunctors) /\ ConnsTyped' /\ UNCHANGED connections_
  <2>1. Tellings \subseteq PlainFunctors
    BY DEF Tellings, PlainFunctors, Raw
  <2> QED
    BY <2>1 DEF ConnReturns, BaseReturns
<1>3. {started_', connected_', wanted'} \subseteq BOOLEAN
  BY DEF ClientThreads, ClientTyped, Leaves, connectorVars, clientVars
<1> QED
  BY <1>1, <1>2, <1>3, ClientReturns DEF Leaves, connectorVars, clientVars

\* The base loop's thread goes on with a function of a connection.
LEMMA ConnStepKept ==
  ASSUME ClientThreads, aborted = "no", ConnStep(Base), Leaves
  PROVE  ClientThreads'
<1>1. PICK c \in Conns :
        \/ ConnectEstablished(Base, c) \/ HandleRead(Base, c) \/ HandleError(Base, c)
        \/ HandleWrite(Base, c) \/ HandleWritten(Base, c) \/ HandleClose(Base, c)
        \/ ConnectDestroyed(Base, c) \/ RemoveChannel(Base, c) \/ SendInLoop(Base, c)
        \/ QueueOutputCallback(Base, c) \/ OutputCallback(Base, c) \/ ShutdownInLoop(Base, c)
        \/ ForceCloseInLoop(Base, c) \/ StartReadInLoop(Base, c) \/ StopReadInLoop(Base, c)
        \/ TestState(Base, c) \/ Post(Base, c) \/ UserReturns(Base, c)
  BY DEF ConnStep
<1>2. CASE /\ UNCHANGED aborted
           /\ ConnectEstablished(Base, c) \/ HandleClose(Base, c)
                \/ ConnectDestroyed(Base, c) \/ RemoveChannel(Base, c)
  <2>1. \E more : ConnReturns(c, more)
    BY <1>2, Names, LifeReturns
  <2> QED
    BY <2>1, ConnReturnsKept
<1>3. CASE /\ ~UNCHANGED aborted
           /\ ConnectEstablished(Base, c) \/ HandleClose(Base, c)
                \/ ConnectDestroyed(Base, c) \/ RemoveChannel(Base, c)
  <2>1. \E where : Abort(where)
    BY <1>3 DEF ConnectEstablished, HandleClose, ConnectDestroyed, RemoveChannel
  <2> QED
    BY <2>1, AbortKept DEF Leaves
<1>4. CASE HandleRead(Base, c) \/ HandleError(Base, c) \/ HandleWrite(Base, c)
             \/ HandleWritten(Base, c) \/ SendInLoop(Base, c) \/ QueueOutputCallback(Base, c)
             \/ OutputCallback(Base, c) \/ ShutdownInLoop(Base, c) \/ ForceCloseInLoop(Base, c)
             \/ StartReadInLoop(Base, c) \/ StopReadInLoop(Base, c) \/ UserReturns(Base, c)
  <2>1. \E more : ConnReturns(c, more)
    BY <1>4, Names, DataReturns
  <2> QED
    BY <2>1, ConnReturnsKept
<1>5. CASE TestState(Base, c) \/ Post(Base, c)
  <2>1. \E more : ConnReturns(c, more)
    BY <1>5, CallReturns
  <2> QED
    BY <2>1, ConnReturnsKept
<1> QED
  BY <1>1, <1>2, <1>3, <1>4, <1>5

-----------------------------------------------------------------------------
(* The user.                                                                *)

\* The innermost of two calls is replaced.
LEMMA OneForOne ==
  ASSUME NEW a, NEW b, NEW d
  PROVE  <<d>> \o Tail(<<a, b>>) = <<d, b>>
<1> DEFINE X == {b, d}
           z == <<d>> \o <<b>>
           y == <<d, b>>
<1>1. b \in X /\ d \in X
  OBVIOUS
<1> HIDE DEF X
<1>2. <<d>> \in Seq(X) /\ <<b>> \in Seq(X)
  BY <1>1
<1>3. z \in Seq(X) /\ Len(z) = 2 /\ z[1] = d /\ z[2] = b
  BY <1>2, ConcatProperties
<1>4. y \in Seq(X) /\ Len(y) = 2 /\ y[1] = d /\ y[2] = b
  BY <1>1
<1> HIDE DEF z, y
<1>5. \A i \in 1..2 : z[i] = y[i]
  BY <1>3, <1>4
<1>6. z = y
  BY <1>3, <1>4, <1>5, SeqEqual
<1>7. Tail(<<a, b>>) = <<b>>
  OBVIOUS
<1> QED
  BY <1>6, <1>7 DEF z, y

\* What follows on the stack of a thread inside disconnect().
LEMMA Unwound ==
  ASSUME NEW X, NEW a \in X, NEW b \in X, NEW d \in X
  PROVE  /\ <<>> \o Tail(<<a>>) = <<>>
         /\ <<d>> \o Tail(<<a>>) = <<d>>
         /\ <<d, b>> \o Tail(<<a>>) = <<d, b>>
         /\ <<>> \o Tail(<<a, b>>) = <<b>>
         /\ <<d>> \o Tail(<<a, b>>) = <<d, b>>
<1>1. /\ Tail(<<a>>) = <<>> /\ Tail(<<a, b>>) = <<b>>
      /\ <<>> \in Seq(X) /\ <<d>> \in Seq(X) /\ <<b>> \in Seq(X) /\ <<d, b>> \in Seq(X)
  BY EmptySeq
<1>2. ASSUME NEW s \in Seq(X) PROVE s \o <<>> = s /\ <<>> \o s = s
  BY ConcatEmptySeq
<1>3. <<d>> \o Tail(<<a, b>>) = <<d, b>>
  BY OneForOne
<1> QED
  BY <1>1, <1>2, <1>3

\* A step of another thread, inside disconnect().
LEMMA UserKept ==
  ASSUME ClientThreads, NEW u \in Users, NEW s \in Seq(AnyCall),
         calls' = [calls EXCEPT ![u] = s], UserStack(u)',
         \/ UNCHANGED queue_functors_
         \/ \E f \in PlainFunctors :
              queue_functors_' = [queue_functors_ EXCEPT ![Base] = Append(@, f)],
         ConnsTyped', UNCHANGED <<connections_, loopVars, connectorVars, client, wanted>>,
         connected_' \in BOOLEAN, client = "up",
         \/ UNCHANGED mutex_
         \/ mutex_ = None /\ mutex_' = u
         \/ mutex_ = u /\ mutex_' = None
  PROVE  ClientThreads'
<1> USE DEF ClientThreads
<1>1. u \in Threads /\ u # Base /\ u \notin IoLoops /\ u # None /\ Base # None
  BY Names DEF AllLoops
<1>2. CallsTyped' /\ calls'[Base] = calls[Base]
      /\ \A v \in Users : v # u => calls'[v] = calls[v]
  BY <1>1, Names DEF CallsTyped, AllLoops, Threads
<1>3. /\ QueuesTyped'
      /\ Has(queue_functors_'[Base], Resets) <=> Has(queue_functors_[Base], Resets)
      /\ Once(queue_functors_[Base], Resets) => Once(queue_functors_'[Base], Resets)
  <2>1. PlainFunctors \in SUBSET AnyFunctor
    BY DEF AnyFunctor
  <2> QED
    BY <2>1, Kinds, QueueTyped
<1>4. LoopsTyped' /\ UNCHANGED <<functors, running>>
  BY DEF loopVars, LoopsTyped
<1>5. UNCHANGED <<channel_, state_>>
  BY DEF connectorVars
<1>6. OneReset'
  BY <1>2, <1>3, <1>4, <1>5 DEF OneReset, ResetAhead, Trying
<1>7. ClientTyped'
  BY <1>1 DEF ClientTyped, connectorVars, Trying
<1>8. ASSUME NEW v \in Users, v # u PROVE UserStack(v)'
  <2>1. UserStack(v) /\ calls'[v] = calls[v] /\ v # None
    BY <1>2, <1>8, Names DEF LockInv
  <2>2. mutex_ = v => mutex_' = v
    BY <1>8, <2>1
  <2> QED
    BY <2>1, <2>2 DEF UserStack
<1>9. LockInv'
  BY <1>1, <1>2, <1>8 DEF LockInv, Idle
<1> QED
  BY <1>2, <1>3, <1>4, <1>6, <1>7, <1>9

\* disconnect() of another thread: called, up to the lock, and under the lock.
LEMMA ThreadsKept ==
  ASSUME ClientThreads, NEW u \in Users,
         \/ \E op \in ForeignOps : ThreadCallsClient(u, op)
         \/ ClientDisconnect(u) \/ DisconnectLocked(u) \/ Unlock(u)
  PROVE  ClientThreads'
<1> USE DEF ClientThreads
<1> DEFINE ask  == Call("disconnect", Client)
           lock == Call("disconnect_locked", Client)
           free == Call("unlock", Client)
<1>1. ask \in AnyCall /\ lock \in AnyCall /\ free \in AnyCall
      /\ ask # lock /\ ask # free /\ lock # free
      /\ \A c \in Conns : \A fn : Call(fn, c) \notin {ask, lock, free}
  BY ClientAssumption DEF AnyCall, PlainCalls, Locks, Call
<1>2. UserStack(u) /\ u \in Threads /\ calls[u] \in Seq(AnyCall)
      /\ (client # "up" => calls[u] = <<>>)
  BY Names DEF LockInv, Idle, CallsTyped
<1>3. ASSUME UNCHANGED restVars PROVE ConnsTyped' /\ UNCHANGED <<connections_, loopVars>>
  BY <1>3 DEF ConnsTyped, restVars
<1>4. connected_ \in BOOLEAN
  BY DEF ClientTyped
<1>5. \/ calls[u] \in {<<>>, <<ask>>, <<lock>>}
      \/ mutex_ = u /\ calls[u] = <<free>>
      \/ mutex_ = u /\ \E c \in Conns, fn \in {"shutdown", "post_shutdown"} :
                         calls[u] = <<Call(fn, c), free>>
  <2>1. connections_ \subseteq Conns
    BY DEF ConnsTyped
  <2>2. CASE mutex_ = u /\ \E c \in connections_, fn \in {"shutdown", "post_shutdown"} :
                              calls[u] = <<Call(fn, c), free>>
    BY <2>1, <2>2, Zenon
  <2> QED
    BY <1>2, <2>2 DEF UserStack, Holding
<1> HIDE DEF ask, lock, free
<1>6. \A a, b : Head(<<a>>) = a /\ Head(<<a, b>>) = a
  OBVIOUS
<1>7. ASSUME NEW op \in ForeignOps, ThreadCallsClient(u, op) PROVE ClientThreads'
  <2> DEFINE s == <<ask>>
  <2>1. s \in Seq(AnyCall) /\ calls' = [calls EXCEPT ![u] = s] /\ UNCHANGED queue_functors_
        /\ UNCHANGED <<restVars, connectorVars, clientVars>> /\ client = "up"
    <3>1. Call(op, Client) = ask
      BY ClientAssumption DEF ask
    <3>2. s \in Seq(AnyCall)
      BY <1>1
    <3> QED
      BY <1>7, <3>1, <3>2 DEF ThreadCallsClient, Leaves
  <2>2. UserStack(u)'
    BY <1>2, <2>1 DEF UserStack, CallsTyped, ask
  <2> HIDE DEF s
  <2> QED
    BY <1>3, <1>4, <2>1, <2>2, UserKept DEF clientVars
<1>8. CASE ClientDisconnect(u)
  <2> DEFINE s == <<lock>>
  <2>1. Head(calls[u]) = ask /\ calls[u] # <<>>
    BY <1>8 DEF ClientDisconnect, Executing, ask
  <2>2. calls[u] = <<ask>>
    BY <1>1, <1>5, <1>6, <2>1
  <2>3. <<lock>> \o Tail(<<ask>>) = s
    BY <1>1, Unwound
  <2>4. calls' = [calls EXCEPT ![u] = <<lock>> \o Tail(@)] /\ UNCHANGED queue_functors_
        /\ UNCHANGED <<restVars, connectorVars, mutex_, client, wanted>> /\ connected_' = FALSE
    BY <1>8 DEF ClientDisconnect, Return, lock
  <2>5. s \in Seq(AnyCall) /\ calls' = [calls EXCEPT ![u] = s] /\ calls'[u] = s
    BY <1>1, <1>2, <2>2, <2>3, <2>4 DEF CallsTyped
  <2>6. UserStack(u)'
    BY <2>5 DEF UserStack, lock
  <2>7. client = "up"
    BY <1>2, <2>1
  <2> HIDE DEF s
  <2> QED
    BY <1>3, <2>4, <2>5, <2>6, <2>7, UserKept
<1>9. CASE DisconnectLocked(u)
  <2>1. Head(calls[u]) = lock /\ calls[u] # <<>>
    BY <1>9 DEF DisconnectLocked, Executing, lock
  <2>2. calls[u] = <<lock>>
    BY <1>1, <1>5, <1>6, <2>1
  <2>3. client = "up"
    BY <1>2, <2>1
  <2>4. UNCHANGED <<restVars, connectorVars, connected_, client, wanted>> /\ mutex_ = None
    BY <1>9 DEF DisconnectLocked
  <2>5. CASE Return(u, <<>>) /\ UNCHANGED mutex_
    <3> DEFINE s == <<>>
    <3>1. <<>> \o Tail(<<lock>>) = s
      BY <1>1, Unwound
    <3>2. s \in Seq(AnyCall) /\ calls' = [calls EXCEPT ![u] = s] /\ calls'[u] = s
          /\ UNCHANGED queue_functors_
      BY <1>2, <2>2, <2>5, <3>1, EmptySeq DEF Return, CallsTyped
    <3>3. UserStack(u)'
      BY <3>2 DEF UserStack
    <3> HIDE DEF s
    <3> QED
      BY <1>3, <1>4, <2>3, <2>4, <2>5, <3>2, <3>3, UserKept
  <2>6. ASSUME NEW c \in connections_, mutex_' = u, Return(u, <<Call("shutdown", c), free>>)
        PROVE  ClientThreads'
    <3> DEFINE a == Call("shutdown", c)
               s == <<a, free>>
    <3>1. a \in AnyCall
      BY DEF AnyCall, PlainCalls, PlainFns, Ops, Call, ConnsTyped
    <3>2. Return(u, s)
      BY <2>6
    <3> HIDE DEF a
    <3>3. s \o Tail(<<lock>>) = s /\ s \in Seq(AnyCall)
      BY <1>1, <3>1, Unwound
    <3>4. calls' = [calls EXCEPT ![u] = s] /\ calls'[u] = s /\ UNCHANGED queue_functors_
      BY <1>2, <2>2, <3>2, <3>3 DEF Return, CallsTyped
    <3>5. c \in connections_'
      BY <1>3, <2>4
    <3>6. UserStack(u)'
      BY <2>6, <3>4, <3>5 DEF UserStack, a, free
    <3> HIDE DEF s
    <3> QED
      BY <1>3, <1>4, <2>3, <2>4, <2>6, <3>3, <3>4, <3>6, UserKept
  <2> QED
    BY <1>9, <2>5, <2>6 DEF DisconnectLocked, free
<1>10. CASE Unlock(u)
  <2> DEFINE s == <<>>
  <2>1. Head(calls[u]) = free /\ calls[u] # <<>>
    BY <1>10 DEF Unlock, Executing, free
  <2>2. calls[u] = <<free>> /\ mutex_ = u
    BY <1>1, <1>5, <1>6, <2>1
  <2>3. client = "up"
    BY <1>2, <2>1
  <2>4. UNCHANGED <<restVars, connectorVars, connected_, client, wanted>> /\ mutex_' = None
        /\ Return(u, s)
    BY <1>10 DEF Unlock
  <2>5. s \o Tail(<<free>>) = s
    BY <1>1, Unwound
  <2>6. s \in Seq(AnyCall) /\ calls' = [calls EXCEPT ![u] = s] /\ calls'[u] = s
        /\ UNCHANGED queue_functors_
    BY <1>2, <2>2, <2>4, <2>5, EmptySeq DEF Return, CallsTyped
  <2>7. UserStack(u)'
    BY <2>6 DEF UserStack
  <2> HIDE DEF s
  <2> QED
    BY <1>3, <1>4, <2>2, <2>3, <2>4, <2>6, <2>7, UserKept
<1> QED
  BY <1>7, <1>8, <1>9, <1>10

\* The same thread inside TcpConn::shutdown: the connection becomes DISCONNECTING and
\* the base loop gets a functor.
LEMMA ShutdownKept ==
  ASSUME ClientThreads, NEW u \in Users, NEW c \in Conns, Leaves,
         TestState(u, c) \/ Post(u, c)
  PROVE  ClientThreads'
<1> USE DEF ClientThreads
<1> DEFINE free == Call("unlock", Client)
           test == Call("shutdown", c)
           post == Call("post_shutdown", c)
<1>1. free \in AnyCall /\ test \in AnyCall /\ post \in AnyCall
  BY DEF AnyCall, PlainCalls, PlainFns, Ops, Closers, Locks, Call
<1>2. UserStack(u) /\ u \in Threads /\ u \notin AllLoops /\ calls[u] \in Seq(AnyCall)
      /\ (client # "up" => calls[u] = <<>>)
  BY Names DEF LockInv, Idle, CallsTyped
<1>3. calls[u] # <<>> /\ \E fn : Head(calls[u]) = Call(fn, c)
  BY DEF TestState, Post, Executing
<1>4. /\ UNCHANGED <<connections_, kept, loopVars, connectorVars, connected_, client, wanted,
                     mutex_>>
      /\ connected_ \in BOOLEAN /\ client = "up"
  BY <1>2, <1>3 DEF TestState, Post, Leaves, clientVars, ClientTyped
<1>5. \A a, b : Head(<<a>>) = a /\ Head(<<a, b>>) = a
  OBVIOUS
<1>6. \E fn \in {"shutdown", "post_shutdown"} : /\ calls[u] = <<Call(fn, c), free>>
                                                /\ mutex_ = u /\ c \in connections_
  <2>1. \A g : Call(g, Client) # Head(calls[u])
    BY <1>3, Names DEF Call
  <2>2. \A d, fn : Head(calls[u]) = Call(fn, d) => d = c
    BY <1>3 DEF Call
  <2>3. calls[u] \notin {<<>>, <<Call("disconnect", Client)>>,
                         <<Call("disconnect_locked", Client)>>, Holding}
    BY <1>3, <1>5, <2>1 DEF Holding
  <2>4. PICK d \in connections_ : \E fn \in {"shutdown", "post_shutdown"} :
          mutex_ = u /\ calls[u] = <<Call(fn, d), free>>
    BY <1>2, <2>3 DEF UserStack
  <2>5. d = c
    BY <1>5, <2>2, <2>4
  <2> QED
    BY <2>4, <2>5
<1> HIDE DEF free
<1>7. CASE TestState(u, c)
  <2>1. PICK op \in {"send", "shutdown", "force_close"} :
          /\ Executing(u, op, c)
          /\ Return(u, IF Passes(op, c) THEN <<Call(AfterTest[op], c)>> ELSE <<>>)
          /\ UNCHANGED <<conn, connections_, kept, loopVars>>
    BY <1>7 DEF TestState, AfterTest
  <2>2. op = "shutdown"
    BY <1>5, <1>6, <2>1 DEF Executing, Call
  <2>3. calls[u] = <<test, free>>
    BY <1>5, <1>6, <2>1, <2>2 DEF Executing, Call
  <2>4. ConnsTyped'
    BY <2>1 DEF ConnsTyped
  <2> HIDE DEF test, post
  <2>5. CASE Passes(op, c)
    <3> DEFINE s == <<post, free>>
    <3>1. <<post>> \o Tail(<<test, free>>) = s /\ s \in Seq(AnyCall)
      <4>2. <<post>> \o Tail(<<test, free>>) = <<post, free>>
        BY OneForOne
      <4> QED
        BY <1>1, <4>2
    <3>2. Return(u, <<post>>)
      BY <2>1, <2>2, <2>5 DEF post, AfterTest
    <3>3. calls' = [calls EXCEPT ![u] = s] /\ calls'[u] = s /\ UNCHANGED queue_functors_
      BY <1>2, <2>3, <3>1, <3>2 DEF Return, CallsTyped
    <3>4. UserStack(u)'
      BY <1>4, <1>6, <3>3 DEF UserStack, post, free
    <3> HIDE DEF s
    <3> QED
      BY <1>4, <2>4, <3>1, <3>3, <3>4, UserKept
  <2>6. CASE ~Passes(op, c)
    <3> DEFINE s == <<free>>
    <3>1. <<>> \o Tail(<<test, free>>) = s /\ s \in Seq(AnyCall)
      BY <1>1, Unwound
    <3>2. Return(u, <<>>)
      BY <2>1, <2>6
    <3>3. calls' = [calls EXCEPT ![u] = s] /\ calls'[u] = s /\ UNCHANGED queue_functors_
      BY <1>2, <2>3, <3>1, <3>2 DEF Return, CallsTyped
    <3>4. UserStack(u)'
      BY <1>4, <1>6, <3>3 DEF UserStack, Holding, free
    <3> HIDE DEF s
    <3> QED
      BY <1>4, <2>4, <3>1, <3>3, <3>4, UserKept
  <2> QED
    BY <2>5, <2>6
<1>8. CASE Post(u, c)
  <2>1. conn[c].loop = Base /\ u # Base
    BY <1>2, Names DEF ConnsTyped
  <2>2. PICK p \in DOMAIN PostedBy :
          /\ Executing(u, p, c)
          /\ conn' = IF p \in {"post_shutdown", "post_force_close"}
                     THEN [conn EXCEPT ![c].state = "DISCONNECTING"] ELSE conn
          /\ calls' = [calls EXCEPT ![u] = Tail(@)]
          /\ queue_functors_' = [queue_functors_ EXCEPT ![Base] = Append(@, Call(PostedBy[p], c))]
          /\ UNCHANGED <<connections_, kept, loopVars>>
    BY <1>8, <2>1 DEF Post, RunInLoop
  <2>3. p = "post_shutdown"
    BY <1>5, <1>6, <2>2 DEF Executing, Call, PostedBy
  <2>4. calls[u] = <<post, free>>
    BY <1>5, <1>6, <2>2, <2>3 DEF Executing, Call
  <2>5. Call(PostedBy[p], c) \in PlainFunctors
    BY <2>3 DEF PostedBy, PlainFunctors, Raw, Call
  <2> HIDE DEF test, post
  <2> DEFINE s == <<free>>
  <2>6. Tail(<<post, free>>) = s /\ s \in Seq(AnyCall)
    BY <1>1
  <2>7. calls' = [calls EXCEPT ![u] = s] /\ calls'[u] = s
    BY <1>2, <2>2, <2>4, <2>6 DEF CallsTyped
  <2>8. UserStack(u)'
    BY <1>4, <1>6, <2>7 DEF UserStack, Holding, free
  <2> DEFINE r == [conn[c] EXCEPT !.state = "DISCONNECTING"]
  <2>9. r \in ConnRecords /\ conn' = [conn EXCEPT ![c] = r]
    BY <2>2, <2>3 DEF ConnsTyped, ConnRecords, States
  <2> HIDE DEF r, s
  <2>10. ConnsTyped'
    BY <2>2, <2>9, ConnSet DEF ConnsTyped
  <2> QED
    BY <1>4, <2>2, <2>5, <2>6, <2>7, <2>8, <2>10, UserKept
<1> QED
  BY <1>7, <1>8

\* What callbacks call on the client.
LEMMA CallbackKept ==
  ASSUME ClientThreads, NEW c \in Conns, NEW op \in ClientOps,
         CallbackCallsClient(Base, c, op)
  PROVE  ClientThreads'
<1>1. calls[Base] # <<>>
  BY DEF CallbackCallsClient, Executing
<1>2. ConnsTyped' /\ UNCHANGED <<connections_, loopVars, connectorVars, clientVars>>
  BY DEF CallbackCallsClient, ClientThreads, ConnsTyped, restVars, Leaves
<1>3. {started_', connected_', wanted'} \subseteq BOOLEAN
  BY <1>2 DEF ClientThreads, ClientTyped, connectorVars, clientVars
<1>4. ASSUME NEW more \in Seq(QuietCalls), BaseReturns(more, PlainFunctors)
      PROVE  ClientThreads'
  BY <1>2, <1>3, <1>4, ClientReturns DEF connectorVars, clientVars
<1>5. CASE op = "destroy"
  <2> DEFINE more == <<>>
             f == Call("destroy", Client)
  <2>1. more \in Seq(QuietCalls) /\ f \in PlainFunctors /\ ReturnQueueing(Base, more, f)
    BY <1>5, EmptySeq DEF CallbackCallsClient, PlainFunctors
  <2> HIDE DEF more, f
  <2> QED
    BY <1>1, <1>2, <1>4, <2>1, ByQueueing
<1>6. CASE op # "destroy"
  <2> DEFINE more == <<Call(op, Client)>>
  <2>1. op \in {"connect", "stop", "disconnect"}
    BY <1>6, ClientAssumption
  <2>2. Call(op, Client) \in QuietCalls
    BY <2>1 DEF QuietCalls, PlainCalls, Starts, Call
  <2>3. more \in Seq(QuietCalls) /\ Return(Base, more)
    BY <1>6, <2>2, QuietMore DEF CallbackCallsClient
  <2> HIDE DEF more
  <2> QED
    BY <1>1, <1>2, <1>4, <2>3, ByReturn
<1> QED
  BY <1>5, <1>6

\* A functor of the user, a timer, and what happens in the kernel.
LEMMA OutsideKept ==
  ASSUME ClientThreads,
         \/ \E op \in PostedOps : UserPosts(op)
         \/ TimerExpires
         \/ KernelDoes
  PROVE  ClientThreads'
<1>1. ASSUME NEW op \in PostedOps, UserPosts(op) PROVE ClientThreads'
  <2> DEFINE f == Call("if_up", op)
  <2>1. f \in PlainFunctors
    BY DEF PlainFunctors, Call
  <2>2. queue_functors_' = [queue_functors_ EXCEPT ![Base] = Append(@, f)]
        /\ UNCHANGED <<calls, restVars, connectorVars, clientVars>>
    BY <1>1 DEF UserPosts, Leaves
  <2> HIDE DEF f
  <2>3. /\ QueuesTyped'
        /\ Has(queue_functors_'[Base], Resets) <=> Has(queue_functors_[Base], Resets)
        /\ Once(queue_functors_[Base], Resets) => Once(queue_functors_'[Base], Resets)
    <3>1. PlainFunctors \in SUBSET AnyFunctor
      BY DEF AnyFunctor
    <3> QED
      BY <2>1, <2>2, <3>1, Kinds, QueueTyped DEF ClientThreads
  <2>4. ConnsTyped' /\ CallsTyped' /\ LoopsTyped' /\ ClientTyped'
        /\ UNCHANGED <<functors, running, channel_, state_, connections_, mutex_, client>>
    BY <2>2 DEF ClientThreads, ConnsTyped, CallsTyped, LoopsTyped, ClientTyped, restVars,
       loopVars, connectorVars, clientVars, Trying
  <2>5. OneReset'
    BY <2>2, <2>3, <2>4 DEF ClientThreads, OneReset, ResetAhead, Trying
  <2>6. LockInv'
    BY <2>2, <2>4, UsersKept DEF ClientThreads, LockInv, Idle
  <2> QED
    BY <2>3, <2>4, <2>5, <2>6 DEF ClientThreads
<1>2. CASE TimerExpires
  <2>1. ConnsTyped' /\ ClientTyped'
        /\ UNCHANGED <<calls, queue_functors_, loopVars, mutex_, client, connections_,
                       channel_, state_>>
    BY <1>2 DEF TimerExpires, ClientThreads, ConnsTyped, ClientTyped, connVars, clientVars,
       Trying
  <2> QED
    BY <2>1, StillKept DEF ClientThreads, OneReset, Trying
<1>3. CASE KernelDoes
  <2>1. UNCHANGED <<conn, connections_, kept, loopVars, queue_functors_, calls,
                    connectorVars, clientVars>>
    BY <1>3 DEF KernelDoes, HandshakeEnds, PeerResetsEarly, PeerStep, PeerSends, PeerFinishes,
       PeerResets, PeerActs, Leaves
  <2>2. ConnsTyped' /\ ClientTyped' /\ UNCHANGED <<mutex_, client, channel_, state_>>
    BY <2>1 DEF ClientThreads, ConnsTyped, ClientTyped, connectorVars, clientVars, Trying
  <2> QED
    BY <2>1, <2>2, StillKept DEF ClientThreads, OneReset, Trying
<1> QED
  BY <1>1, <1>2, <1>3

-----------------------------------------------------------------------------
(* The first invariant holds, and with it the types and CallersHold.          *)

\* It holds when the owner has called connect() and has not yet called loop().
LEMMA ThreadsInitially ==
  ASSUME Init
  PROVE  ClientThreads
<1> USE DEF Init, ConnInit
<1>1. ConnsTyped
  <2>1. NewConn \in ConnRecords
    BY ChannelOps DEF NewConn, ConnRecords, States, NewChannel, Channels, Interest, Flags
  <2> QED
    BY <2>1 DEF ConnsTyped, ConnRecords
<1> DEFINE first == <<Call("connect", Client)>>
<1>2. /\ first \in Seq(AnyCall)
      /\ \A K \in {Resets, Locks, Ends} : ~Has(first, K) /\ Once(first, K)
  <2>1. /\ Call("connect", Client) \in AnyCall
        /\ \A K \in {Resets, Locks, Ends} : Call("connect", Client) \notin K
    BY DEF AnyCall, Starts, Resets, Locks, Ends, Call
  <2> QED
    BY <2>1, ShortStacks
<1> HIDE DEF first
<1>3. <<>> \in Seq(AnyCall) /\ <<>> \in Seq(AnyFunctor) /\ <<>> \in Seq(AnyReport)
      /\ Len(<<>>) = 0
  BY EmptySeq
<1>4. calls = [x \in Threads |-> IF x = Base THEN first ELSE <<>>] /\ calls[Base] = first
  BY Names DEF first
<1>5. CallsTyped
  BY <1>2, <1>3, <1>4, Names DEF CallsTyped, AllLoops, Threads
<1>6. QueuesTyped /\ LoopsTyped
  BY <1>3 DEF QueuesTyped, LoopsTyped
<1>7. ClientTyped
  BY DEF ClientTyped, Trying
<1>8. OneReset
  <2>1. \A K : ~Has(<<>>, K) /\ Once(<<>>, K) /\ ~HasFrom(<<>>, 0, K) /\ OnceFrom(<<>>, 0, K)
    BY ShortStacks DEF Has, Once
  <2>2. queue_functors_[Base] = <<>> /\ functors[Base] = <<>> /\ running[Base] = 0
    BY Names
  <2> QED
    BY <1>2, <1>4, <2>1, <2>2 DEF OneReset, ResetAhead
<1>9. LockInv
  <2>1. \A u \in Users : calls[u] = <<>>
    BY <1>4, Names
  <2> QED
    BY <1>2, <1>4, <2>1 DEF LockInv, UserStack
<1> QED
  BY <1>1, <1>5, <1>6, <1>7, <1>8, <1>9 DEF ClientThreads

\* Every step preserves it.
LEMMA ThreadsInductive ==
  ASSUME ClientThreads, [Next]_vars
  PROVE  ClientThreads'
<1>1. CASE UNCHANGED vars
  <2>1. /\ UNCHANGED <<conn, connections_, kept, loopVars, queue_functors_, calls,
                       connectorVars, clientVars>>
    BY <1>1 DEF vars, connVars
  <2>2. ConnsTyped' /\ ClientTyped' /\ UNCHANGED <<mutex_, client, channel_, state_>>
    BY <2>1 DEF ClientThreads, ConnsTyped, ClientTyped, connectorVars, clientVars, Trying
  <2> QED
    BY <2>1, <2>2, StillKept DEF ClientThreads, OneReset, Trying
<1>2. ASSUME NEW x \in Threads, aborted = "no", Continue(x) PROVE ClientThreads'
  <2>1. CASE ConnectorStep(x)
    BY <2>1, ConnectorKept
  <2>2. CASE ConnStep(x) /\ Leaves
    <3>1. PICK c \in Conns :
            \/ ConnectEstablished(x, c) \/ HandleRead(x, c) \/ HandleError(x, c)
            \/ HandleWrite(x, c) \/ HandleWritten(x, c) \/ HandleClose(x, c)
            \/ ConnectDestroyed(x, c) \/ RemoveChannel(x, c) \/ SendInLoop(x, c)
            \/ QueueOutputCallback(x, c) \/ OutputCallback(x, c) \/ ShutdownInLoop(x, c)
            \/ ForceCloseInLoop(x, c) \/ StartReadInLoop(x, c) \/ StopReadInLoop(x, c)
            \/ TestState(x, c) \/ Post(x, c) \/ UserReturns(x, c)
      BY <2>2 DEF ConnStep
    <3>2. CASE TestState(x, c) \/ Post(x, c)
      <4>1. x = Base \/ x \in Users
        BY <3>2, OnBase DEF TestState, Post, ClientThreads
      <4> QED
        BY <1>2, <2>2, <3>2, <4>1, ConnStepKept, ShutdownKept
    <3>3. CASE ~(TestState(x, c) \/ Post(x, c))
      <4>1. ASSUME NEW fn, Executing(x, fn, c),
                   fn \notin {"disconnect", "disconnect_locked", "unlock", "shutdown",
                              "post_shutdown"}
            PROVE  x = Base
        BY <4>1, OnBase DEF ClientThreads
      <4>2. x = Base
        BY <3>1, <3>3, <4>1 DEF ConnectEstablished, HandleRead, HandleError, HandleWrite,
           HandleWritten, HandleClose, ConnectDestroyed, RemoveChannel, SendInLoop,
           QueueOutputCallback, OutputCallback, ShutdownInLoop,
           ForceCloseInLoop, StartReadInLoop, StopReadInLoop, UserReturns
      <4> QED
        BY <1>2, <2>2, <4>2, ConnStepKept
    <3> QED
      BY <3>2, <3>3
  <2>3. CASE ClientStep(x)
    <3>1. CASE ClientDisconnect(x) \/ DisconnectLocked(x) \/ Unlock(x)
      <4>1. x = Base \/ x \in Users
        BY <3>1, OnBase DEF ClientDisconnect, DisconnectLocked, Unlock, ClientThreads
      <4> QED
        BY <3>1, <4>1, WishesKept, LocksKept, ThreadsKept
    <3>2. CASE IfUp(x)
      <4>1. x = Base
        <5>1. Head(calls[x]).fn = "if_up" /\ calls[x] # <<>>
          BY <3>2 DEF IfUp
        <5>2. Head(calls[x]) \in AnyCall
          BY <5>1, HeadOrTail DEF ClientThreads, CallsTyped
        <5>3. \E c : Head(calls[x]) = Call("if_up", c)
          BY <5>1, <5>2 DEF AnyCall, PlainCalls, Closers, Installs, Removals, Endings,
             Starts, Resets, Locks, Ends, Call
        <5> QED
          BY <5>1, <5>3, OnBase DEF Executing, ClientThreads
      <4> QED
        BY <3>2, <4>1, WishesKept
    <3>3. ASSUME NEW fn, NEW c, Executing(x, fn, c),
                 fn \notin {"disconnect", "disconnect_locked", "unlock", "shutdown",
                            "post_shutdown"}
          PROVE  x = Base
      BY <3>3, OnBase DEF ClientThreads
    <3>4. CASE ClientConnect(x) \/ ClientStop(x)
      BY <3>3, <3>4, WishesKept DEF ClientConnect, ClientStop
    <3>5. CASE DestroyClient(x) \/ ClientDestroyed(x)
      BY <3>3, <3>5, EndsKept DEF DestroyClient, ClientDestroyed
    <3>6. ASSUME NEW c \in Conns, NewConnection(x, c) \/ RemoveConnection(x, c)
          PROVE  ClientThreads'
      <4>1. x = Base
        BY <3>3, <3>6 DEF NewConnection, RemoveConnection
      <4> QED
        BY <3>6, <4>1, NewConnectionKept, RemoveConnectionKept
    <3> QED
      BY <2>3, <3>1, <3>2, <3>4, <3>5, <3>6 DEF ClientStep
  <2> QED
    BY <1>2, <2>1, <2>2, <2>3 DEF Continue
<1>3. CASE Loop
  BY <1>3, PollKept, HandleKept, BatchKept DEF Loop, LoopStep
<1>4. CASE TimerExpires \/ KernelDoes
  BY <1>4, OutsideKept
<1>5. CASE UserDoes
  <2>1. ASSUME NEW x \in Threads, NEW c \in Conns, Executing(x, "user", c) PROVE x = Base
    BY <2>1, OnBase DEF ClientThreads
  <2>2. ASSUME NEW x \in Threads, NEW c \in Conns, NEW op \in OwnOps, CallbackCallsConn(x, c, op)
        PROVE  ClientThreads'
    <3>1. x = Base
      BY <2>1, <2>2 DEF CallbackCallsConn
    <3>2. \E more : ConnReturns(c, more)
      BY <2>2, <3>1, CallReturns
    <3> QED
      BY <2>2, <3>2, ConnReturnsKept DEF CallbackCallsConn
  <2>3. ASSUME NEW x \in Threads, NEW c \in Conns, NEW op \in ClientOps,
               CallbackCallsClient(x, c, op)
        PROVE  ClientThreads'
    <3>1. x = Base
      BY <2>1, <2>3 DEF CallbackCallsClient
    <3> QED
      BY <2>3, <3>1, CallbackKept
  <2> QED
    BY <1>5, <2>2, <2>3, OutsideKept, ThreadsKept DEF UserDoes
<1> QED
  BY <1>1, <1>2, <1>3, <1>4, <1>5 DEF Next

\* The invariant gives the types, which say that the client has one connection or none.
LEMMA ThreadsTyped ==
  ASSUME ClientThreads
  PROVE  TypeOK
<1> USE DEF ClientThreads
<1>1. ConnTypeOK
  <2>1. conn \in [Conns -> [state : States, loop : AllLoops, channel : Channels,
                            output : BOOLEAN]]
    BY Names DEF ConnsTyped
  <2>2. \A l \in AllLoops : /\ current[l] \in 0..Len(active_channels_[l])
                            /\ running[l] \in 0..Len(functors[l])
    <3> SUFFICES ASSUME NEW l \in AllLoops
                 PROVE  /\ current[l] \in 0..Len(active_channels_[l])
                        /\ running[l] \in 0..Len(functors[l])
      OBVIOUS
    <3>1. Len(active_channels_[l]) \in Nat /\ Len(functors[l]) \in Nat
      BY LenProperties DEF LoopsTyped
    <3> QED
      BY <3>1 DEF LoopsTyped
  <2> QED
    BY <2>1, <2>2 DEF ConnTypeOK, ConnsTyped, LoopsTyped
<1>2. Cardinality(connections_) <= 1
  <2>1. CASE connections_ = {}
    BY <2>1, FS_EmptySet
  <2>2. ASSUME NEW c \in connections_ PROVE Cardinality(connections_) <= 1
    <3>1. \A a, b \in connections_ : a = b
      BY DEF ConnsTyped
    <3>2. connections_ = {c}
      BY <3>1
    <3> QED
      BY <3>2, FS_Singleton, SMTT(30)
  <2> QED
    BY <2>1, <2>2
<1> QED
  BY <1>1, <1>2 DEF TypeOK, ClientTyped

\* The types of the client's and the Connector's state, for any number of threads,
\* descriptors and calls (tcp_client.cpp, connector.cpp).
THEOREM TypeCorrect == Spec => []TypeOK
<1>1. Init => ClientThreads
  BY ThreadsInitially
<1>2. ClientThreads /\ [Next]_vars => ClientThreads'
  BY ThreadsInductive
<1>3. ClientThreads => TypeOK
  BY ThreadsTyped
<1> QED
  BY <1>1, <1>2, <1>3, PTL DEF Spec

\* Whatever other threads call, one that is inside TcpConn::shutdown, called by
\* disconnect, works on the connection that the client holds (tcp_client.cpp).
THEOREM LockKeepsConnection == Spec => []CallersHold
<1>1. Init => ClientThreads
  BY ThreadsInitially
<1>2. ClientThreads /\ [Next]_vars => ClientThreads'
  BY ThreadsInductive
<1>3. ClientThreads => CallersHold
  <2> SUFFICES ASSUME ClientThreads, NEW u \in Users, NEW i \in 1..Len(calls[u]),
                      calls[u][i].c \in Conns
               PROVE  calls[u][i].c \in connections_
    BY SMTT(30) DEF CallersHold
  <2>1. UserStack(u)
    BY DEF ClientThreads, LockInv
  <2>2. ASSUME NEW g, calls[u] = <<Call(g, Client)>> PROVE FALSE
    <3>1. i = 1 /\ calls[u][i] = Call(g, Client)
      BY <2>2
    <3> QED
      BY <3>1, Names DEF Call
  <2>3. ASSUME NEW c \in connections_, NEW fn,
               calls[u] = <<Call(fn, c), Call("unlock", Client)>>
        PROVE  calls[u][i].c \in connections_
    <3>1. \/ i = 1 /\ calls[u][i] = Call(fn, c)
          \/ i = 2 /\ calls[u][i] = Call("unlock", Client)
      BY <2>3
    <3> QED
      BY <3>1, Names DEF Call
  <2>4. calls[u] # <<>>
    OBVIOUS
  <2> QED
    BY <2>1, <2>2, <2>3, <2>4 DEF UserStack, Holding
<1> QED
  BY <1>1, <1>2, <1>3, PTL DEF Spec

-----------------------------------------------------------------------------
(* The second invariant: one attempt or connection at a time.  It is about a  *)
(* program that does not call connect() again.                                *)

\* What the base loop's thread has to do: to install a connection, to remove it, to
\* begin an attempt.
Adding(c)   == Has(calls[Base], {Call("new_connection", c)})
Dropping(c) == Has(calls[Base], {Call("remove_connection", c)})
Beginning   == Has(calls[Base], Starts)

\* A retry timer is set, or has expired and was not yet handled.
Waits == retries + due > 0

\* There is a connection, or will be, or was and the client does not know it yet.
Live(c) == Up(c) \/ Adding(c) \/ Dropping(c)

\* connect_destroyed() is called, or waits in the batch or in the queue.
DoomedBy(K) ==
  \/ Has(calls[Base], K)
  \/ HasFrom(functors[Base], running[Base], K)
  \/ Has(queue_functors_[Base], K)
Doomed(c) == DoomedBy({Call("connect_destroyed", c)})

\* The connection was taken down, or is about to be.
Gone(c) == conn[c].state \in {"DISCONNECTING", "DISCONNECTED"}

\* A timer, an attempt, an attempt about to begin and a connection exclude each other,
\* and of each there is one.
Exclusive ==
  /\ retries + due <= 1
  /\ \A c, d \in Conns : Live(c) /\ Live(d) => c = d
  /\ Waits => ~Trying /\ ~Beginning
  /\ Trying => ~Beginning
  /\ Waits \/ Trying \/ Beginning => \A c \in Conns : ~Live(c)

\* What the thread has to do once, and what it does before anything else: the second
\* half of a call that closes, and the owner's connect().
Closing(c) == Head(calls[Base]) \in {Call("post_shutdown", c), Call("post_force_close", c)}

Orderly ==
  /\ Once(calls[Base], Starts) /\ Once(calls[Base], Installs)
  /\ Has(calls[Base], Closers) => \E c \in Conns : Up(c) /\ Closing(c)
  /\ Once(calls[Base], Closers)
  /\ Has(calls[Base], {Call("connect", Client)}) =>
       /\ calls[Base] = <<Call("connect", Client)>> /\ connected_
       /\ \A u \in Users : Idle(u)

\* How far a connection has come, and that the client holds none that is over.
Held ==
  /\ \A c \in Conns : (Trying /\ channel_.fd = c) \/ Adding(c) => conn[c].state = "none"
  /\ \A c \in Conns : Dropping(c) \/ Doomed(c) => Gone(c)
  /\ client = "up" => \A c \in connections_ : Up(c) \/ Dropping(c)

\* While the client is to be connected nobody is inside disconnect(), and a connection
\* that is to be removed stays down.
Outside(u) == calls[u] \in {<<>>, <<Call("disconnect", Client)>>}

Wished == connected_ =>
  /\ \A u \in Users : Outside(u)
  /\ \A c \in Conns : Dropping(c) =>
       ~Up(c) /\ Once(calls[Base], {Call("remove_connection", c)})

Chain == Exclusive /\ Orderly /\ Held /\ Wished

\* The thread of the base loop has nothing more to do than before.
Less ==
  /\ Beginning' => Beginning
  /\ \A c \in Conns : /\ Adding(c)' => Adding(c)
                      /\ Dropping(c)' => Dropping(c)
                      /\ Once(calls[Base], {Call("remove_connection", c)}) =>
                           Once(calls'[Base], {Call("remove_connection", c)})

\* What a step may do to the state of a connection: it stays as it is as far as matters
\* here; the descriptor is used again; or a shutdown() that comes late changes it.
Stays(c) == /\ Up(c)' <=> Up(c)
            /\ conn'[c].state = "none" <=> conn[c].state = "none"
            /\ Gone(c) => Gone(c)'
Reused(c) == ~Live(c) /\ ~Doomed(c) /\ conn'[c].state = "none"
Belated(c) == /\ Live(c) /\ conn[c].state # "none" /\ conn'[c].state = "DISCONNECTING"
              /\ ~connected_

\* Steps that make nothing that there is once keep the invariant.
LEMMA ChainKept ==
  ASSUME Chain, Less, Orderly', connections_ \subseteq Conns,
         \A c \in Conns : Doomed(c)' => Doomed(c) \/ Gone(c)',
         \A c \in Conns : Stays(c) \/ Reused(c) \/ Belated(c),
         retries' + due' <= 1, Waits' => ~Trying',
         Waits' \/ Trying' => (Waits \/ Trying \/ Beginning) /\ ~Beginning',
         \A c \in Conns : Trying' /\ channel_'.fd = c => conn'[c].state = "none",
         client' = "up" => /\ client = "up" /\ connections_' \subseteq connections_
                           /\ \A c \in connections_' : Dropping(c) => Dropping(c)',
         connected_' => connected_ /\ \A u \in Users : Outside(u)'
  PROVE  Chain'
<1>1. \A c \in Conns : /\ Live(c)' => Live(c)
                       /\ Up(c) => Up(c)' \/ ~Live(c)
                       /\ connected_ => (Up(c)' => Up(c))
  <2> SUFFICES ASSUME NEW c \in Conns
               PROVE  /\ Live(c)' => Live(c)
                      /\ Up(c) => Up(c)' \/ ~Live(c)
                      /\ connected_ => (Up(c)' => Up(c))
    OBVIOUS
  <2>1. (Adding(c)' => Adding(c)) /\ (Dropping(c)' => Dropping(c))
    BY DEF Less
  <2>2. CASE Stays(c)
    BY <2>1, <2>2 DEF Stays, Live
  <2>3. CASE Reused(c)
    <3>1. ~Up(c)'
      BY <2>3 DEF Reused, Up
    <3> QED
      BY <2>1, <2>3, <3>1 DEF Reused, Live
  <2>4. CASE Belated(c)
    <3>1. Live(c) /\ Up(c)' /\ ~connected_
      BY <2>4 DEF Belated, Up
    <3> QED
      BY <3>1
  <2> QED
    BY <2>2, <2>3, <2>4
<1>2. Exclusive'
  <2>1. /\ \A c, d \in Conns : Live(c) /\ Live(d) => c = d
        /\ Waits \/ Trying \/ Beginning => \A c \in Conns : ~Live(c)
        /\ Beginning' => Beginning
    BY DEF Chain, Exclusive, Less
  <2>2. \A c, d \in Conns : Live(c)' /\ Live(d)' => c = d
    BY <1>1, <2>1
  <2>3. Waits' \/ Trying' \/ Beginning' => \A c \in Conns : ~Live(c)'
    BY <1>1, <2>1
  <2> QED
    BY <2>2, <2>3 DEF Exclusive
<1>3. Held'
  <2>1. ASSUME NEW c \in Conns
        PROVE  /\ Adding(c)' => conn'[c].state = "none"
               /\ Dropping(c)' \/ Doomed(c)' => Gone(c)'
    <3>1. /\ Adding(c) => conn[c].state = "none" /\ Live(c)
          /\ Dropping(c) \/ Doomed(c) => Gone(c)
          /\ Dropping(c) => Live(c)
      BY DEF Chain, Held, Live
    <3>2. /\ Adding(c)' => Adding(c)
          /\ Dropping(c)' => Dropping(c)
          /\ Doomed(c)' => Doomed(c) \/ Gone(c)'
      BY DEF Less
    <3>3. CASE Stays(c)
      BY <3>1, <3>2, <3>3 DEF Stays
    <3>4. CASE Reused(c)
      BY <3>1, <3>2, <3>4 DEF Reused
    <3>5. CASE Belated(c)
      BY <3>1, <3>2, <3>5 DEF Belated, Gone
    <3> QED
      BY <3>3, <3>4, <3>5
  <2>2. ASSUME client' = "up", NEW c \in connections_' PROVE Up(c)' \/ Dropping(c)'
    <3>1. /\ c \in Conns /\ (Up(c) \/ Dropping(c))
          /\ Dropping(c) => Dropping(c)'
      BY <2>2 DEF Chain, Held
    <3>2. Up(c) => Live(c)
      BY DEF Live
    <3> QED
      BY <1>1, <3>1, <3>2
  <2> QED
    BY <2>1, <2>2 DEF Held
<1>4. Wished'
  <2>1. ASSUME connected_', NEW c \in Conns, Dropping(c)'
        PROVE  ~Up(c)' /\ Once(calls'[Base], {Call("remove_connection", c)})
    <3>1. Dropping(c) /\ connected_
      BY <2>1 DEF Less
    <3>2. ~Up(c) /\ Once(calls[Base], {Call("remove_connection", c)})
      BY <3>1 DEF Chain, Wished
    <3> QED
      BY <1>1, <3>1, <3>2 DEF Less
  <2> QED
    BY <2>1 DEF Wished
<1> QED
  BY <1>2, <1>3, <1>4 DEF Chain

\* The stack and the queue after the innermost call of the base loop's thread returned.
LEMMA StackAfter ==
  ASSUME ClientThreads, Chain, NEW more \in Seq(AnyCall), NEW queued \in SUBSET AnyFunctor,
         BaseReturns(more, queued)
  PROVE  /\ \A K : /\ Has(calls'[Base], K) => Has(more, K) \/ Has(calls[Base], K)
                   /\ Has(more, K) => Has(calls'[Base], K)
                   /\ Has(calls[Base], K) => Head(calls[Base]) \in K \/ Has(calls'[Base], K)
                   /\ Once(calls[Base], K) /\ Head(calls[Base]) \in K =>
                        (Has(calls'[Base], K) => Has(more, K))
                   /\ Once(calls[Base], K) /\ Once(more, K)
                        /\ (~Has(more, K) \/ Head(calls[Base]) \in K \/ ~Has(calls[Base], K)) =>
                          Once(calls'[Base], K)
         /\ Has(calls'[Base], Closers) => Has(more, Closers)
         /\ Once(more, Closers) => Once(calls'[Base], Closers)
         /\ Has(calls'[Base], {Call("connect", Client)}) => Has(more, {Call("connect", Client)})
         /\ \A u \in Users : calls'[u] = calls[u]
         /\ \A c \in Conns : Doomed(c)' =>
              \/ Doomed(c)
              \/ Has(more, {Call("connect_destroyed", c)})
              \/ Call("connect_destroyed", c) \in queued
<1> DEFINE tail == Tail(calls[Base])
<1>1. /\ \A x \in Threads : x # Base => calls'[x] = calls[x]
      /\ calls'[Base] = more \o tail
      /\ \A K : /\ Has(calls'[Base], K) <=> Has(more, K) \/ Has(tail, K)
                /\ Has(calls[Base], K) <=> Head(calls[Base]) \in K \/ Has(tail, K)
                /\ Once(calls[Base], K) /\ Head(calls[Base]) \in K => ~Has(tail, K)
                /\ Once(calls[Base], K) /\ Once(more, K) /\ ~(Has(more, K) /\ Has(tail, K)) =>
                     Once(calls'[Base], K)
  BY BaseStack DEF ClientThreads
<1>2. ~Has(tail, Closers)
  <2>1. \A c \in Conns : Closing(c) => Head(calls[Base]) \in Closers
    BY DEF Closing, Closers, Call
  <2>2. /\ Once(calls[Base], Closers)
        /\ Has(calls[Base], Closers) => \E c \in Conns : Closing(c)
    BY DEF Chain, Orderly
  <2> HIDE DEF tail
  <2> QED
    BY <1>1, <2>1, <2>2
<1>3. ~Has(tail, {Call("connect", Client)})
  <2>1. CASE Has(calls[Base], {Call("connect", Client)})
    <3>1. calls[Base] = <<Call("connect", Client)>>
      BY <2>1 DEF Chain, Orderly
    <3>2. tail = <<>>
      BY <3>1
    <3> QED
      BY <3>2, ShortStacks
  <2> HIDE DEF tail
  <2> QED
    BY <1>1, <2>1
<1>4. ASSUME NEW c \in Conns, Doomed(c)'
      PROVE  \/ Doomed(c)
             \/ Has(more, {Call("connect_destroyed", c)})
             \/ Call("connect_destroyed", c) \in queued
  <2> DEFINE K == {Call("connect_destroyed", c)}
  <2>1. /\ Call("connect_destroyed", c) \notin queued =>
             (Has(queue_functors_'[Base], K) <=> Has(queue_functors_[Base], K))
        /\ UNCHANGED <<functors, running>>
    BY QueueTyped DEF ClientThreads, BaseReturns, loopVars
  <2>2. /\ Has(calls'[Base], K) => Has(more, K) \/ Has(calls[Base], K)
    BY <1>1
  <2> QED
    BY <1>4, <2>1, <2>2 DEF Doomed, DoomedBy
<1> HIDE DEF tail
<1>5. \A u \in Users : calls'[u] = calls[u]
  BY <1>1, Names
<1>6. ASSUME NEW K
      PROVE  /\ Has(calls'[Base], K) => Has(more, K) \/ Has(calls[Base], K)
             /\ Has(more, K) => Has(calls'[Base], K)
             /\ Has(calls[Base], K) => Head(calls[Base]) \in K \/ Has(calls'[Base], K)
             /\ Once(calls[Base], K) /\ Head(calls[Base]) \in K =>
                  (Has(calls'[Base], K) => Has(more, K))
             /\ Once(calls[Base], K) /\ Once(more, K)
                  /\ (~Has(more, K) \/ Head(calls[Base]) \in K \/ ~Has(calls[Base], K)) =>
                    Once(calls'[Base], K)
  BY <1>1, Zenon
<1>7. /\ Has(calls'[Base], Closers) => Has(more, Closers)
      /\ Once(more, Closers) => Once(calls'[Base], Closers)
      /\ Has(calls'[Base], {Call("connect", Client)}) => Has(more, {Call("connect", Client)})
  <2>1. Once(calls[Base], Closers)
    BY DEF Chain, Orderly
  <2> QED
    BY <1>1, <1>2, <1>3, <2>1, Zenon
<1> QED
  BY <1>4, <1>5, <1>6, <1>7

\* Calls that stand for nothing that there is once.
MildCalls == PlainCalls \cup Resets \cup Locks \cup Ends

\* They are none of the others.
LEMMA MildApart ==
  ASSUME NEW more \in Seq(MildCalls)
  PROVE  /\ more \in Seq(AnyCall)
         /\ \A K : K \subseteq Starts \cup Installs \cup Removals \cup Closers \cup Endings =>
              ~Has(more, K) /\ Once(more, K)
<1>1. MildCalls \cap (Starts \cup Installs \cup Removals \cup Closers \cup Endings) = {}
  <2>1. \A X \in {Resets, Locks, Ends} : X \cap Starts = {} /\ X \cap Installs = {}
          /\ X \cap Removals = {} /\ X \cap Closers = {} /\ X \cap Endings = {}
    BY DEF Resets, Locks, Ends, Starts, Installs, Removals, Closers, Endings, Call
  <2>2. PlainCalls \cap (Starts \cup Installs \cup Removals \cup Closers \cup Endings) = {}
    BY Kinds
  <2> QED
    BY <2>1, <2>2 DEF MildCalls
<1>2. ASSUME NEW K, K \subseteq Starts \cup Installs \cup Removals \cup Closers \cup Endings
      PROVE  ~Has(more, K) /\ Once(more, K)
  <2>1. MildCalls \cap K = {}
    BY <1>1, <1>2
  <2> QED
    BY <2>1, Without
<1>3. MildCalls \subseteq AnyCall
  BY Kinds DEF MildCalls, AnyCall
<1> QED
  BY <1>2, <1>3, SeqMonotonic

\* The members of each kind.
LEMMA Singles ==
  /\ {Call("connect", Client)} \subseteq Starts /\ {Call("start_in_loop", Connector)} \subseteq Starts
  /\ \A c \in Conns : /\ {Call("new_connection", c)} \subseteq Installs
                      /\ {Call("remove_connection", c)} \subseteq Removals
                      /\ {Call("connect_destroyed", c)} \subseteq Endings
  BY DEF Starts, Installs, Removals, Endings, Call

\* A call of the base loop's thread returned and made only such calls.
LEMMA MildAfter ==
  ASSUME ClientThreads, Chain, NEW more \in Seq(MildCalls), NEW queued \in SUBSET AnyFunctor,
         BaseReturns(more, queued)
  PROVE  /\ Less /\ Orderly' /\ connections_ \subseteq Conns
         /\ \A u \in Users : calls'[u] = calls[u]
         /\ \A c \in Conns : Doomed(c)' => Doomed(c) \/ Call("connect_destroyed", c) \in queued
         /\ Head(calls[Base]) \in Starts => ~Beginning'
         /\ \A c \in Conns :
              Dropping(c) => Dropping(c)' \/ Head(calls[Base]) = Call("remove_connection", c)
<1>1. /\ more \in Seq(AnyCall)
      /\ \A K : K \subseteq Starts \cup Installs \cup Removals \cup Closers \cup Endings =>
           ~Has(more, K) /\ Once(more, K)
  BY MildApart
<1>2. /\ \A K : /\ Has(calls'[Base], K) => Has(more, K) \/ Has(calls[Base], K)
                /\ Has(calls[Base], K) => Head(calls[Base]) \in K \/ Has(calls'[Base], K)
                /\ Once(calls[Base], K) /\ Head(calls[Base]) \in K =>
                     (Has(calls'[Base], K) => Has(more, K))
                /\ Once(calls[Base], K) /\ Once(more, K) /\ ~Has(more, K) =>
                     Once(calls'[Base], K)
      /\ Has(calls'[Base], Closers) => Has(more, Closers)
      /\ Once(more, Closers) => Once(calls'[Base], Closers)
      /\ Has(calls'[Base], {Call("connect", Client)}) => Has(more, {Call("connect", Client)})
      /\ \A u \in Users : calls'[u] = calls[u]
      /\ \A c \in Conns : Doomed(c)' =>
           \/ Doomed(c)
           \/ Has(more, {Call("connect_destroyed", c)})
           \/ Call("connect_destroyed", c) \in queued
  BY <1>1, StackAfter
<1>3. /\ ~Has(more, Starts) /\ ~Has(more, Closers) /\ ~Has(more, {Call("connect", Client)})
      /\ \A c \in Conns : /\ ~Has(more, {Call("new_connection", c)})
                          /\ ~Has(more, {Call("remove_connection", c)})
                          /\ ~Has(more, {Call("connect_destroyed", c)})
      /\ Once(more, Starts) /\ Once(more, Installs) /\ Once(more, Closers)
      /\ ~Has(more, Installs)
      /\ \A c \in Conns : Once(more, {Call("remove_connection", c)})
  BY <1>1, Singles
<1>4. Once(calls[Base], Starts) /\ Once(calls[Base], Installs)
  BY DEF Chain, Orderly
<1>5. Less
  BY <1>2, <1>3 DEF Less, Beginning, Adding, Dropping
<1>6. Orderly'
  BY <1>2, <1>3, <1>4 DEF Orderly
<1>7. Head(calls[Base]) \in Starts => ~Beginning'
  BY <1>2, <1>3, <1>4 DEF Beginning
<1>8. \A c \in Conns :
        Dropping(c) => Dropping(c)' \/ Head(calls[Base]) = Call("remove_connection", c)
  BY <1>2 DEF Dropping
<1> QED
  BY <1>2, <1>3, <1>5, <1>6, <1>7, <1>8 DEF ClientThreads, ConnsTyped

\* Such steps that leave the Connector alone.
LEMMA ChainCalm ==
  ASSUME Chain, Less, Orderly', connections_ \subseteq Conns, UNCHANGED connectorVars,
         \A c \in Conns : Doomed(c)' => Doomed(c) \/ Gone(c)',
         \A c \in Conns : Stays(c) \/ Belated(c),
         client' = "up" => /\ client = "up" /\ connections_' \subseteq connections_
                           /\ \A c \in connections_' : Dropping(c) => Dropping(c)',
         connected_' => connected_ /\ \A u \in Users : Outside(u)'
  PROVE  Chain'
<1>1. retries' + due' <= 1 /\ (Waits' => ~Trying') /\ (Waits' <=> Waits) /\ (Trying' <=> Trying)
  BY DEF Chain, Exclusive, connectorVars, Waits, Trying
<1>2. Waits' \/ Trying' => (Waits \/ Trying \/ Beginning) /\ ~Beginning'
  <2>1. (Waits => ~Beginning) /\ (Trying => ~Beginning) /\ (Beginning' => Beginning)
    BY DEF Chain, Exclusive, Less
  <2> QED
    BY <1>1, <2>1
<1>3. ASSUME NEW c \in Conns, Trying', channel_'.fd = c PROVE conn'[c].state = "none"
  <2>1. Trying /\ channel_.fd = c
    BY <1>3, <1>1 DEF connectorVars
  <2>2. conn[c].state = "none"
    BY <2>1 DEF Chain, Held
  <2>3. ~Live(c)
    BY <2>1 DEF Chain, Exclusive
  <2>4. Stays(c)
    BY <2>3 DEF Belated
  <2> QED
    BY <2>2, <2>4 DEF Stays
<1> QED
  BY <1>1, <1>2, <1>3, ChainKept

\* A call that closes something is about to be made: of a connection that is up.
LEMMA ClosingUp ==
  ASSUME ClientThreads, Chain, NEW c \in Conns, calls[Base] # <<>>, Closing(c)
  PROVE  Up(c)
<1>1. Head(calls[Base]) \in Closers
  BY DEF Closing, Closers, Call
<1>2. calls[Base] \in Seq(AnyCall)
  BY Names DEF ClientThreads, CallsTyped
<1>3. Has(calls[Base], Closers)
  <2> DEFINE s == calls[Base]
  <2> HIDE DEF s
  <2>1. Has(s, Closers) <=> Head(s) \in Closers \/ Has(Tail(s), Closers)
    BY <1>2, HeadOrTail DEF s
  <2> QED
    BY <1>1, <2>1 DEF s
<1>4. PICK d \in Conns : Up(d) /\ Closing(d)
  BY <1>3 DEF Chain, Orderly
<1>5. c = d
  BY <1>4 DEF Closing, Call
<1> QED
  BY <1>4, <1>5

\* The innermost call is one of those ahead.
LEMMA HeadAhead ==
  ASSUME ClientThreads, calls[Base] # <<>>, NEW K, Head(calls[Base]) \in K
  PROVE  Has(calls[Base], K)
<1> DEFINE s == calls[Base]
<1>1. s \in Seq(AnyCall)
  BY Names DEF ClientThreads, CallsTyped
<1> HIDE DEF s
<1>2. Has(s, K) <=> Head(s) \in K \/ Has(Tail(s), K)
  BY <1>1, HeadOrTail DEF s
<1> QED
  BY <1>2 DEF s

\* What a function of a connection that makes only mild calls does to its state.
LEMMA MovesStay ==
  ASSUME ClientThreads, Chain, NEW c \in Conns, NEW more \in Seq(PlainCalls), calls[Base] # <<>>,
         Moves(c, more)
  PROVE  Stays(c)
<1>1. CASE conn'[c].state = conn[c].state
  BY <1>1 DEF Stays, Up, Gone
<1>2. CASE conn[c].state = "CONNECTING" /\ conn'[c].state = "CONNECTED"
  BY <1>2 DEF Stays, Up, Gone
<1>3. CASE Closing(c) /\ conn'[c].state = "DISCONNECTING"
  <2>1. Up(c)
    BY <1>3, ClosingUp
  <2> QED
    BY <1>3, <2>1 DEF Stays, Up, Gone
<1>4. ASSUME more = Append(UserCallback(c), Call("remove_connection", c)) PROVE FALSE
  <2> DEFINE s == UserCallback(c)
             a == Call("remove_connection", c)
  <2>1. s \in Seq(PlainCalls)
    BY PlainMore DEF PlainFns
  <2>2. a \in Removals /\ a \in AnyCall
    BY Kinds DEF Removals, Call
  <2>3. s \in Seq(AnyCall) /\ ~Has(more, Removals)
    <3>1. PlainCalls \cap Removals = {} /\ PlainCalls \subseteq AnyCall
      BY Kinds
    <3> QED
      BY <2>1, <3>1, Without, SeqMonotonic
  <2> HIDE DEF s, a
  <2>4. Has(Append(s, a), Removals) <=> Has(s, Removals) \/ a \in Removals
    BY <2>2, <2>3, Queued
  <2> QED
    BY <1>4, <2>2, <2>3, <2>4 DEF s, a
<1>5. ASSUME conn[c].state = "CONNECTED", Head(calls[Base]) = Call("connect_destroyed", c)
      PROVE  FALSE
  <2>1. Has(calls[Base], {Call("connect_destroyed", c)})
    BY <1>5, HeadAhead
  <2>2. Gone(c)
    BY <2>1 DEF Doomed, DoomedBy, Chain, Held
  <2> QED
    BY <1>5, <2>2 DEF Gone
<1> QED
  BY <1>1, <1>2, <1>3, <1>4, <1>5 DEF Moves, Closing

\* A function of a connection that only makes mild calls keeps the invariant.
LEMMA MildConn ==
  ASSUME ClientThreads, Chain, NEW c \in Conns, NEW more \in Seq(PlainCalls),
         ConnReturns(c, more), Head(calls[Base]) \notin Removals,
         UNCHANGED <<connectorVars, clientVars>>
  PROVE  Chain'
<1>1. more \in Seq(MildCalls) /\ BaseReturns(more, Tellings) /\ calls[Base] # <<>>
  BY SeqMonotonic DEF MildCalls, ConnReturns, BaseReturns
<1>2. /\ Less /\ Orderly' /\ connections_ \subseteq Conns
      /\ \A u \in Users : calls'[u] = calls[u]
      /\ \A d \in Conns : Doomed(d)' => Doomed(d)
      /\ \A d \in Conns :
           Dropping(d) => Dropping(d)' \/ Head(calls[Base]) = Call("remove_connection", d)
  <2>1. Tellings \in SUBSET AnyFunctor
    BY DEF Tellings, AnyFunctor, PlainFunctors, Raw
  <2>2. \A d \in Conns : Call("connect_destroyed", d) \notin Tellings
    BY DEF Tellings, Call
  <2> QED
    BY <1>1, <2>1, <2>2, MildAfter
<1>3. \A d \in Conns : Stays(d)
  <2>1. Stays(c)
    BY <1>1, MovesStay DEF ConnReturns
  <2>2. \A d \in Conns : d # c => Stays(d)
    BY DEF ConnReturns, Stays, Up, Gone
  <2> QED
    BY <2>1, <2>2
<1>4. client' = "up" => /\ client = "up" /\ connections_' \subseteq connections_
                        /\ \A d \in connections_' : Dropping(d) => Dropping(d)'
  <2>1. \A d \in Conns : Head(calls[Base]) # Call("remove_connection", d)
    BY DEF Removals, Call
  <2> QED
    BY <1>2, <2>1 DEF clientVars, ConnReturns
<1>5. connected_' => connected_ /\ \A u \in Users : Outside(u)'
  BY <1>2 DEF clientVars, Chain, Wished, Outside
<1> QED
  BY <1>2, <1>3, <1>4, <1>5, ChainCalm

\* The second half of a call that closes is about to follow.
LEMMA ClosingNext ==
  ASSUME ClientThreads, Chain, NEW c \in Conns, NEW fn \in {"post_shutdown", "post_force_close"},
         BaseReturns(<<Call(fn, c)>>, {}), Open(c), Head(calls[Base]) \notin Removals,
         UNCHANGED <<conn, connections_, connectorVars, clientVars>>
  PROVE  Chain'
<1> DEFINE a == Call(fn, c)
           more == <<a>>
           queued == {}
<1>1. /\ a \in AnyCall /\ a \in Closers
      /\ \A K \in {Starts, Installs, Removals, Endings} : a \notin K
  BY Kinds DEF Closers, Starts, Installs, Removals, Endings, Call
<1>2. /\ BaseReturns(more, queued) /\ queued \in SUBSET AnyFunctor /\ \A f : f \notin queued
      /\ a \in {Call("post_shutdown", c), Call("post_force_close", c)}
  OBVIOUS
<1> HIDE DEF a, queued
<1>3. /\ more \in Seq(AnyCall) /\ Once(more, Closers)
      /\ \A K : (Has(more, K) <=> a \in K) /\ Once(more, K)
      /\ calls[Base] # <<>> /\ calls' = [calls EXCEPT ![Base] = more \o Tail(@)]
  BY <1>1, <1>2, ShortStacks DEF BaseReturns
<1>4. Head(calls'[Base]) = a
  <2>1. calls'[Base] = more \o Tail(calls[Base])
    BY <1>3, Names DEF ClientThreads, CallsTyped
  <2>2. Tail(calls[Base]) \in Seq(AnyCall)
    <3> DEFINE s == calls[Base]
    <3>1. s \in Seq(AnyCall) /\ s # <<>>
      BY <1>3, Names DEF ClientThreads, CallsTyped
    <3> HIDE DEF s
    <3>2. Tail(s) \in Seq(AnyCall)
      BY <3>1, HeadOrTail
    <3> QED
      BY <3>2 DEF s
  <2> DEFINE t == Tail(calls[Base])
  <2> HIDE DEF t
  <2>3. Head(<<a>> \o t) = a
    BY <1>1, <2>2 DEF t
  <2> QED
    BY <2>1, <2>3 DEF t
<1> HIDE DEF more
<1>5. /\ \A K : /\ Has(calls'[Base], K) => Has(more, K) \/ Has(calls[Base], K)
                /\ Has(calls[Base], K) => Head(calls[Base]) \in K \/ Has(calls'[Base], K)
                /\ Once(calls[Base], K) /\ Once(more, K) /\ ~Has(more, K) =>
                     Once(calls'[Base], K)
      /\ Once(more, Closers) => Once(calls'[Base], Closers)
      /\ Has(calls'[Base], {Call("connect", Client)}) => Has(more, {Call("connect", Client)})
      /\ \A u \in Users : calls'[u] = calls[u]
      /\ \A d \in Conns : Doomed(d)' =>
           \/ Doomed(d)
           \/ Has(more, {Call("connect_destroyed", d)})
           \/ Call("connect_destroyed", d) \in queued
  BY <1>2, <1>3, StackAfter
<1>6. /\ ~Has(more, Starts) /\ ~Has(more, Installs)
      /\ ~Has(more, {Call("connect", Client)})
      /\ \A d \in Conns : /\ ~Has(more, {Call("new_connection", d)})
                          /\ ~Has(more, {Call("remove_connection", d)})
                          /\ ~Has(more, {Call("connect_destroyed", d)})
  BY <1>1, <1>3, Singles
<1>7. Less
  BY <1>3, <1>5, <1>6 DEF Less, Beginning, Adding, Dropping
<1>8. Orderly'
  <2>1. Up(c)' /\ Closing(c)'
    BY <1>2, <1>4 DEF Closing, Up, Open
  <2> QED
    BY <1>3, <1>5, <1>6, <2>1 DEF Orderly, Chain
<1>9. \A d \in Conns : Stays(d)
  BY DEF Stays, Up, Gone
<1>10. client' = "up" => /\ client = "up" /\ connections_' \subseteq connections_
                         /\ \A d \in connections_' : Dropping(d) => Dropping(d)'
  <2>1. \A d \in Conns : Head(calls[Base]) # Call("remove_connection", d)
    BY DEF Removals, Call
  <2> QED
    BY <1>5, <2>1 DEF clientVars, Dropping, ClientThreads, ConnsTyped
<1>11. connected_' => connected_ /\ \A u \in Users : Outside(u)'
  BY <1>5 DEF clientVars, Chain, Wished, Outside
<1>12. connections_ \subseteq Conns /\ \A d \in Conns : Doomed(d)' => Doomed(d)
  BY <1>2, <1>5, <1>6 DEF ClientThreads, ConnsTyped
<1> QED
  BY <1>7, <1>8, <1>9, <1>10, <1>11, <1>12, ChainCalm

\* A connection was taken down, and the client will be told (handle_close).
LEMMA ClosedNext ==
  ASSUME ClientThreads, Chain, NEW c \in Conns,
         ConnReturns(c, Append(UserCallback(c), Call("remove_connection", c))),
         Open(c), conn'[c].state = "DISCONNECTED", UNCHANGED queue_functors_,
         Head(calls[Base]) \notin Removals,
         UNCHANGED <<connectorVars, clientVars>>
  PROVE  Chain'
<1> DEFINE s == UserCallback(c)
           a == Call("remove_connection", c)
           more == Append(s, a)
           queued == {}
<1>1. /\ a \in AnyCall /\ a \in Removals
      /\ \A K \in {Starts, Installs, Closers, Endings} : a \notin K
      /\ \A d \in Conns : d # c => a # Call("remove_connection", d)
  BY Kinds DEF Closers, Starts, Installs, Removals, Endings, Call
<1>2. s \in Seq(MildCalls)
  <2>1. s \in Seq(PlainCalls)
    BY PlainMore DEF PlainFns
  <2> HIDE DEF s
  <2> QED
    BY <2>1, SeqMonotonic DEF MildCalls
<1>3. /\ BaseReturns(more, queued) /\ queued \in SUBSET AnyFunctor /\ \A f : f \notin queued
      /\ UNCHANGED connections_ /\ \A d \in Conns : d # c => conn'[d] = conn[d]
  BY DEF ConnReturns, BaseReturns
<1> HIDE DEF a, queued, s
<1>4. /\ more \in Seq(AnyCall)
      /\ \A K : /\ Has(more, K) <=> Has(s, K) \/ a \in K
                /\ Once(s, K) /\ ~Has(s, K) => Once(more, K)
      /\ \A K : K \subseteq Starts \cup Installs \cup Removals \cup Closers \cup Endings =>
           ~Has(s, K) /\ Once(s, K)
  <2>1. /\ s \in Seq(AnyCall)
        /\ \A K : K \subseteq Starts \cup Installs \cup Removals \cup Closers \cup Endings =>
             ~Has(s, K) /\ Once(s, K)
    BY <1>2, MildApart
  <2> QED
    BY <1>1, <2>1, Queued
<1>5. /\ ~Has(more, Starts) /\ ~Has(more, Installs) /\ ~Has(more, Closers)
      /\ ~Has(more, {Call("connect", Client)})
      /\ \A d \in Conns : /\ ~Has(more, {Call("new_connection", d)})
                          /\ d # c => ~Has(more, {Call("remove_connection", d)})
                          /\ ~Has(more, {Call("connect_destroyed", d)})
      /\ Has(more, {Call("remove_connection", c)}) /\ Once(more, {Call("remove_connection", c)})
      /\ Once(more, Starts) /\ Once(more, Installs) /\ Once(more, Closers)
  <2>1. /\ ~Has(s, Starts) /\ ~Has(s, Installs) /\ ~Has(s, Closers)
        /\ ~Has(s, {Call("connect", Client)}) /\ Call("connect", Client) \in Starts
        /\ \A d \in Conns : /\ ~Has(s, {Call("new_connection", d)})
                            /\ Call("new_connection", d) \in Installs
                            /\ ~Has(s, {Call("remove_connection", d)})
                            /\ Once(s, {Call("remove_connection", d)})
                            /\ ~Has(s, {Call("connect_destroyed", d)})
                            /\ Call("connect_destroyed", d) \in Endings
        /\ Once(s, Starts) /\ Once(s, Installs) /\ Once(s, Closers)
    BY <1>4, Singles
  <2> HIDE DEF more
  <2>2. a \in {Call("remove_connection", c)}
    BY DEF a
  <2> QED
    BY <1>1, <1>4, <2>1, <2>2
<1> HIDE DEF more
<1>6. /\ \A K : /\ Has(calls'[Base], K) => Has(more, K) \/ Has(calls[Base], K)
                /\ Has(more, K) => Has(calls'[Base], K)
                /\ Has(calls[Base], K) => Head(calls[Base]) \in K \/ Has(calls'[Base], K)
                /\ Once(calls[Base], K) /\ Once(more, K)
                     /\ (~Has(more, K) \/ ~Has(calls[Base], K)) => Once(calls'[Base], K)
      /\ Has(calls'[Base], Closers) => Has(more, Closers)
      /\ Once(more, Closers) => Once(calls'[Base], Closers)
      /\ Has(calls'[Base], {Call("connect", Client)}) => Has(more, {Call("connect", Client)})
      /\ \A u \in Users : calls'[u] = calls[u]
      /\ \A d \in Conns : Doomed(d)' =>
           \/ Doomed(d)
           \/ Has(more, {Call("connect_destroyed", d)})
           \/ Call("connect_destroyed", d) \in queued
  BY <1>3, <1>4, StackAfter
<1>7. /\ Up(c) /\ Live(c) /\ ~Up(c)' /\ Gone(c)' /\ Dropping(c)'
      /\ \A d \in Conns : d # c => (Up(d)' <=> Up(d)) /\ (Gone(d)' <=> Gone(d))
  BY <1>3, <1>5, <1>6 DEF Up, Open, Gone, Live, Dropping
<1>8. /\ Beginning' => Beginning
      /\ \A d \in Conns : /\ Adding(d)' => Adding(d)
                          /\ Dropping(d)' => Dropping(d) \/ d = c
                          /\ Dropping(d) => Dropping(d)'
                          /\ Doomed(d)' => Doomed(d)
  <2>1. \A d \in Conns : Head(calls[Base]) # Call("remove_connection", d)
    BY DEF Removals, Call
  <2> QED
    BY <1>3, <1>5, <1>6, <2>1 DEF Beginning, Adding, Dropping
<1>9. \A d \in Conns : Live(d)' => Live(d)
  BY <1>7, <1>8 DEF Live
<1>10. \A d \in Conns : Live(d) => d = c
  BY <1>7 DEF Chain, Exclusive
<1>11. Exclusive'
  <2>1. /\ retries' + due' <= 1
        /\ Waits' => ~Trying' /\ ~Beginning'
        /\ Trying' => ~Beginning'
        /\ (Waits' => Waits) /\ (Trying' => Trying)
    BY <1>8 DEF Chain, Exclusive, connectorVars, Waits, Trying
  <2>2. Waits \/ Trying \/ Beginning => FALSE
    BY <1>7 DEF Chain, Exclusive
  <2>3. \A d, e \in Conns : Live(d)' /\ Live(e)' => d = e
    BY <1>9, <1>10
  <2> QED
    BY <1>8, <2>1, <2>2, <2>3 DEF Exclusive
<1>12. Orderly'
  BY <1>5, <1>6 DEF Orderly, Chain
<1>13. Held'
  <2>1. ASSUME NEW d \in Conns, (Trying' /\ channel_'.fd = d) \/ Adding(d)'
        PROVE  conn'[d].state = "none"
    <3>1. conn[d].state = "none"
      BY <1>8, <2>1 DEF Chain, Held, connectorVars, Trying
    <3>2. d # c
      BY <3>1 DEF Open
    <3> QED
      BY <1>3, <3>1, <3>2
  <2>2. ASSUME NEW d \in Conns, Dropping(d)' \/ Doomed(d)' PROVE Gone(d)'
    BY <1>7, <1>8, <2>2 DEF Chain, Held
  <2>3. ASSUME client' = "up", NEW d \in connections_' PROVE Up(d)' \/ Dropping(d)'
    <3>1. d \in Conns /\ (Up(d) \/ Dropping(d))
      BY <1>3, <2>3 DEF Chain, Held, clientVars, ClientThreads, ConnsTyped
    <3> QED
      BY <1>7, <1>8, <3>1
  <2> QED
    BY <2>1, <2>2, <2>3 DEF Held
<1>14. Wished'
  <2>1. ASSUME connected_', NEW d \in Conns, Dropping(d)'
        PROVE  ~Up(d)' /\ Once(calls'[Base], {Call("remove_connection", d)})
    <3>1. connected_ /\ d = c
      BY <1>7, <1>8, <1>10, <2>1 DEF clientVars, Live
    <3>2. ~Has(calls[Base], {Call("remove_connection", c)})
      BY <1>7, <3>1 DEF Chain, Wished, Dropping
    <3>3. Once(calls[Base], {Call("remove_connection", c)})
      BY <3>2 DEF Has, HasFrom, Once, OnceFrom
    <3> QED
      BY <1>5, <1>6, <1>7, <3>1, <3>2, <3>3
  <2>2. connected_' => \A u \in Users : Outside(u)'
    BY <1>6 DEF clientVars, Chain, Wished, Outside
  <2> QED
    BY <2>1, <2>2 DEF Wished
<1> QED
  BY <1>11, <1>12, <1>13, <1>14 DEF Chain

\* The base loop's thread goes on with a function of a connection.
LEMMA ConnReturnsChain ==
  ASSUME ClientThreads, Chain, NEW c \in Conns, NEW more, ConnReturns(c, more), Leaves,
         Head(calls[Base]) \notin Removals
  PROVE  Chain'
<1>1. CASE more \in Seq(PlainCalls)
  BY <1>1, MildConn DEF Leaves
<1>2. CASE /\ more = Append(UserCallback(c), Call("remove_connection", c))
           /\ Open(c) /\ conn'[c].state = "DISCONNECTED" /\ UNCHANGED queue_functors_
  BY <1>2, ClosedNext DEF Leaves
<1>3. ASSUME NEW fn \in {"post_shutdown", "post_force_close"}, more = <<Call(fn, c)>>,
             Open(c), UNCHANGED <<conn, queue_functors_>>
      PROVE  Chain'
  <2>1. BaseReturns(<<Call(fn, c)>>, {}) /\ UNCHANGED connections_
    BY <1>3 DEF ConnReturns, BaseReturns
  <2> QED
    BY <1>3, <2>1, ClosingNext DEF Leaves
<1> QED
  BY <1>1, <1>2, <1>3 DEF ConnReturns

\* An assertion fails, and nothing else happens.
LEMMA AbortChain ==
  ASSUME Chain, NEW where, Abort(where), UNCHANGED <<connectorVars, clientVars>>
  PROVE  Chain'
<1>1. UNCHANGED <<conn, connections_, functors, running, queue_functors_, calls>>
  BY DEF Abort, loopVars
<1>2. Exclusive'
  BY <1>1 DEF Chain, Exclusive, Waits, Trying, Beginning, Live, Up, Adding, Dropping, connectorVars
<1>3. Orderly'
  BY <1>1 DEF Chain, Orderly, Up, Closing, Idle, clientVars
<1>4. Held'
  BY <1>1 DEF Chain, Held, Trying, Adding, Dropping, Doomed, DoomedBy, Gone, Up, connectorVars,
     clientVars
<1>5. Wished'
  BY <1>1 DEF Chain, Wished, Outside, Dropping, Up, clientVars
<1> QED
  BY <1>2, <1>3, <1>4, <1>5 DEF Chain

\* The functions of the connections (tcp_conn.cpp).
LEMMA ConnStepChain ==
  ASSUME ClientThreads, Chain, aborted = "no", ConnStep(Base), Leaves
  PROVE  Chain'
<1>1. PICK c \in Conns :
        \/ ConnectEstablished(Base, c) \/ HandleRead(Base, c) \/ HandleError(Base, c)
        \/ HandleWrite(Base, c) \/ HandleWritten(Base, c) \/ HandleClose(Base, c)
        \/ ConnectDestroyed(Base, c) \/ RemoveChannel(Base, c) \/ SendInLoop(Base, c)
        \/ QueueOutputCallback(Base, c) \/ OutputCallback(Base, c) \/ ShutdownInLoop(Base, c)
        \/ ForceCloseInLoop(Base, c) \/ StartReadInLoop(Base, c) \/ StopReadInLoop(Base, c)
        \/ TestState(Base, c) \/ Post(Base, c) \/ UserReturns(Base, c)
  BY DEF ConnStep
<1>2. Head(calls[Base]) \notin Removals
  <2>1. ASSUME NEW fn, Executing(Base, fn, c), fn # "remove_connection"
        PROVE  Head(calls[Base]) \notin Removals
    BY <2>1 DEF Executing, Removals, Call
  <2>2. CASE TestState(Base, c)
    BY <2>1, <2>2 DEF TestState, AfterTest
  <2>3. CASE Post(Base, c)
    BY <2>1, <2>3 DEF Post, PostedBy
  <2>4. CASE ~(TestState(Base, c) \/ Post(Base, c))
    BY <1>1, <2>1, <2>4 DEF ConnectEstablished, HandleRead, HandleError, HandleWrite,
       HandleWritten, HandleClose, ConnectDestroyed, RemoveChannel, SendInLoop,
       QueueOutputCallback, OutputCallback, ShutdownInLoop,
       ForceCloseInLoop, StartReadInLoop, StopReadInLoop, UserReturns
  <2> QED
    BY <2>2, <2>3, <2>4
<1>3. ASSUME NEW more, ConnReturns(c, more) PROVE Chain'
  BY <1>2, <1>3, ConnReturnsChain
<1>4. CASE /\ UNCHANGED aborted
           /\ ConnectEstablished(Base, c) \/ HandleClose(Base, c)
                \/ ConnectDestroyed(Base, c) \/ RemoveChannel(Base, c)
  <2>1. \E more : ConnReturns(c, more)
    BY <1>4, Names, LifeReturns
  <2> QED
    BY <1>3, <2>1
<1>5. CASE /\ ~UNCHANGED aborted
           /\ ConnectEstablished(Base, c) \/ HandleClose(Base, c)
                \/ ConnectDestroyed(Base, c) \/ RemoveChannel(Base, c)
  <2>1. \E where : Abort(where)
    BY <1>5 DEF ConnectEstablished, HandleClose, ConnectDestroyed, RemoveChannel
  <2> QED
    BY <2>1, AbortChain DEF Leaves
<1>6. CASE HandleRead(Base, c) \/ HandleError(Base, c) \/ HandleWrite(Base, c)
             \/ HandleWritten(Base, c) \/ SendInLoop(Base, c) \/ QueueOutputCallback(Base, c)
             \/ OutputCallback(Base, c) \/ ShutdownInLoop(Base, c) \/ ForceCloseInLoop(Base, c)
             \/ StartReadInLoop(Base, c) \/ StopReadInLoop(Base, c) \/ UserReturns(Base, c)
  <2>1. \E more : ConnReturns(c, more)
    BY <1>6, Names, DataReturns
  <2> QED
    BY <1>3, <2>1
<1>7. CASE TestState(Base, c) \/ Post(Base, c)
  <2>1. \E more : ConnReturns(c, more)
    BY <1>7, CallReturns
  <2> QED
    BY <1>3, <2>1
<1> QED
  BY <1>1, <1>4, <1>5, <1>6, <1>7

-----------------------------------------------------------------------------
(* What happens on other threads and in the kernel.                           *)

\* A step that leaves the stack of the base loop's thread alone.
LEMMA BaseUntouched ==
  ASSUME ClientThreads, Chain, calls'[Base] = calls[Base], UNCHANGED <<functors, running>>,
         \/ UNCHANGED queue_functors_
         \/ \E f \in PlainFunctors \ Endings :
              queue_functors_' = [queue_functors_ EXCEPT ![Base] = Append(@, f)],
         \A c \in Conns : Up(c) => Up(c)',
         Has(calls[Base], {Call("connect", Client)}) =>
           connected_' /\ \A u \in Users : Idle(u)'
  PROVE  /\ Less /\ Orderly' /\ connections_ \subseteq Conns
         /\ \A c \in Conns : Doomed(c)' => Doomed(c)
         /\ \A c \in Conns : Dropping(c) => Dropping(c)'
<1>1. Less /\ \A c \in Conns : Dropping(c) => Dropping(c)'
  BY DEF Less, Beginning, Adding, Dropping
<1>2. Orderly'
  <2>1. \A c \in Conns : Closing(c)' <=> Closing(c)
    BY DEF Closing
  <2> QED
    BY <2>1 DEF Chain, Orderly
<1>3. \A c \in Conns : Doomed(c)' => Doomed(c)
  <2> DEFINE queued == PlainFunctors \ Endings
  <2>1. queued \in SUBSET AnyFunctor
    BY DEF AnyFunctor
  <2>2. \A c \in Conns : queued \cap {Call("connect_destroyed", c)} = {}
    BY DEF Endings, Call
  <2>3. \/ UNCHANGED queue_functors_
        \/ \E f \in queued : queue_functors_' = [queue_functors_ EXCEPT ![Base] = Append(@, f)]
    OBVIOUS
  <2> HIDE DEF queued
  <2>4. \A K : queued \cap K = {} =>
          (Has(queue_functors_'[Base], K) <=> Has(queue_functors_[Base], K))
    BY <2>1, <2>3, QueueTyped DEF ClientThreads
  <2> QED
    BY <2>2, <2>4 DEF Doomed, DoomedBy
<1> QED
  BY <1>1, <1>2, <1>3 DEF ClientThreads, ConnsTyped

\* A retry timer that expires is waiting all the same.
LEMMA ExpiresChain ==
  ASSUME ClientThreads, Chain, TimerExpires
  PROVE  Chain'
<1>1. /\ UNCHANGED <<conn, connections_, functors, running, queue_functors_, calls, channel_,
                     state_, connected_, client>>
      /\ retries' + due' = retries + due
  BY DEF TimerExpires, connVars, loopVars, clientVars, ClientThreads, ClientTyped
<1>2. /\ Less /\ Orderly' /\ connections_ \subseteq Conns
      /\ \A c \in Conns : Doomed(c)' => Doomed(c)
      /\ \A c \in Conns : Dropping(c) => Dropping(c)'
  <2>1. /\ \A c \in Conns : Up(c) => Up(c)'
        /\ Has(calls[Base], {Call("connect", Client)}) =>
             connected_' /\ \A u \in Users : Idle(u)'
    BY <1>1 DEF Up, Chain, Orderly, Idle
  <2> QED
    BY <1>1, <2>1, BaseUntouched
<1>3. \A c \in Conns : Stays(c)
  BY <1>1 DEF Stays, Up, Gone
<1>4. (Waits' <=> Waits) /\ (Trying' <=> Trying) /\ retries' + due' <= 1
  BY <1>1 DEF Waits, Trying, Chain, Exclusive
<1>5. /\ Waits' => ~Trying'
      /\ Waits' \/ Trying' => (Waits \/ Trying \/ Beginning) /\ ~Beginning'
  <2>1. (Waits => ~Beginning /\ ~Trying) /\ (Trying => ~Beginning) /\ (Beginning' => Beginning)
    BY <1>2 DEF Chain, Exclusive, Less
  <2> QED
    BY <1>4, <2>1
<1>6. \A c \in Conns : Trying' /\ channel_'.fd = c => conn'[c].state = "none"
  BY <1>1, <1>4 DEF Chain, Held
<1>7. connected_' => connected_ /\ \A u \in Users : Outside(u)'
  BY <1>1 DEF Chain, Wished, Outside
<1> QED
  BY <1>1, <1>2, <1>3, <1>4, <1>5, <1>6, <1>7, ChainKept

\* A thread of the user goes on: the base loop's thread does not, and the client is not
\* wished for again.
LEMMA UserChain ==
  ASSUME ClientThreads, Chain, NEW u \in Users, NEW s, calls' = [calls EXCEPT ![u] = s],
         \/ UNCHANGED queue_functors_
         \/ \E f \in PlainFunctors \ Endings :
              queue_functors_' = [queue_functors_ EXCEPT ![Base] = Append(@, f)],
         UNCHANGED <<functors, running, connections_, connectorVars, client>>,
         \A c \in Conns : (Stays(c) \/ Belated(c)) /\ (Up(c) => Up(c)'),
         ~Has(calls[Base], {Call("connect", Client)}),
         connected_' => connected_ /\ Outside(u)'
  PROVE  Chain'
<1>1. calls'[Base] = calls[Base] /\ \A v \in Users : v # u => calls'[v] = calls[v]
  BY Names DEF ClientThreads, CallsTyped
<1>2. /\ Less /\ Orderly' /\ connections_ \subseteq Conns
      /\ \A c \in Conns : Doomed(c)' => Doomed(c)
      /\ \A c \in Conns : Dropping(c) => Dropping(c)'
  <2>1. \A c \in Conns : Up(c) => Up(c)'
    OBVIOUS
  <2>2. Has(calls[Base], {Call("connect", Client)}) =>
           connected_' /\ \A v \in Users : Idle(v)'
    OBVIOUS
  <2>3. /\ calls'[Base] = calls[Base] /\ UNCHANGED <<functors, running>>
        /\ \/ UNCHANGED queue_functors_
           \/ \E f \in PlainFunctors \ Endings :
                queue_functors_' = [queue_functors_ EXCEPT ![Base] = Append(@, f)]
    BY <1>1
  <2> QED
    BY <2>1, <2>2, <2>3, BaseUntouched
<1>3. connected_' => connected_ /\ \A v \in Users : Outside(v)'
  BY <1>1 DEF Chain, Wished, Outside
<1>4. client' = "up" => /\ client = "up" /\ connections_' \subseteq connections_
                        /\ \A c \in connections_' : Dropping(c) => Dropping(c)'
  BY <1>2
<1> QED
  BY <1>2, <1>3, <1>4, ChainCalm

\* A thread that is inside disconnect() is behind the assignment to connected_, and the
\* owner has connected before.
LEMMA InsideDisconnect ==
  ASSUME Chain, NEW u \in Users, NEW fn, NEW c, Executing(u, fn, c)
  PROVE  /\ fn # "disconnect" => ~connected_
         /\ ~Has(calls[Base], {Call("connect", Client)})
<1>1. fn # "disconnect" => ~Outside(u)
  <2>1. ASSUME calls[u] = <<Call("disconnect", Client)>> PROVE fn = "disconnect"
    BY <2>1 DEF Executing, Call
  <2> QED
    BY <2>1 DEF Outside, Executing
<1>2. ~Idle(u)
  BY DEF Executing, Idle
<1> QED
  BY <1>1, <1>2 DEF Chain, Wished, Orderly

\* What other threads call on the client (tcp_client.cpp).
LEMMA ThreadsChain ==
  ASSUME ClientThreads, Chain, NEW u \in Users,
         \/ \E op \in ForeignOps : ThreadCallsClient(u, op)
         \/ ClientDisconnect(u) \/ DisconnectLocked(u) \/ Unlock(u)
  PROVE  Chain'
<1>1. CASE \E op \in ForeignOps : ThreadCallsClient(u, op)
  <2>1. PICK op \in ForeignOps : ThreadCallsClient(u, op)
    BY <1>1
  <2> DEFINE s == <<Call(op, Client)>>
  <2>2. s = <<Call("disconnect", Client)>>
    BY ClientAssumption
  <2>3. ~Has(calls[Base], {Call("connect", Client)})
    <3>1. ASSUME Has(calls[Base], {Call("connect", Client)}) PROVE FALSE
      <4>1. calls[Base] = <<Call("connect", Client)>>
        BY <3>1 DEF Chain, Orderly
      <4> QED
        BY <2>1, <4>1 DEF ThreadCallsClient, Executing
    <3> QED
      BY <3>1
  <2>4. calls'[u] = s
    BY <2>1, Names DEF ThreadCallsClient, ClientThreads, CallsTyped
  <2>5. \A c \in Conns : (Stays(c) \/ Belated(c)) /\ (Up(c) => Up(c)')
    BY <2>1 DEF ThreadCallsClient, restVars, Stays, Up, Gone
  <2>6. /\ UNCHANGED queue_functors_
        /\ UNCHANGED <<functors, running, connections_, connectorVars, client>>
        /\ calls' = [calls EXCEPT ![u] = s]
        /\ connected_' => connected_ /\ Outside(u)'
    BY <2>1, <2>2, <2>4 DEF ThreadCallsClient, restVars, loopVars, Leaves, clientVars, Outside
  <2> HIDE DEF s
  <2> QED
    BY <2>3, <2>5, <2>6, UserChain
<1>2. CASE ClientDisconnect(u) \/ DisconnectLocked(u) \/ Unlock(u)
  <2>1. \E more : Return(u, more)
    BY <1>2 DEF ClientDisconnect, DisconnectLocked, Unlock
  <2>2. \E s : calls' = [calls EXCEPT ![u] = s]
    <3>1. PICK more : Return(u, more)
      BY <2>1
    <3>2. calls' = [calls EXCEPT ![u] = more \o Tail(calls[u])]
      BY <3>1, Names DEF Return, ClientThreads, CallsTyped
    <3> QED
      BY <3>2
  <2>3. UNCHANGED queue_functors_
    BY <2>1 DEF Return
  <2>4. \A c \in Conns : (Stays(c) \/ Belated(c)) /\ (Up(c) => Up(c)')
    BY <1>2 DEF ClientDisconnect, DisconnectLocked, Unlock, restVars, Stays, Up, Gone
  <2>5. ~Has(calls[Base], {Call("connect", Client)}) /\ ~connected_'
    <3>1. CASE ClientDisconnect(u)
      <4>1. Executing(u, "disconnect", Client) /\ connected_' = FALSE
        BY <3>1 DEF ClientDisconnect
      <4> QED
        BY <4>1, InsideDisconnect
    <3>2. ASSUME NEW fn \in {"disconnect_locked", "unlock"}, Executing(u, fn, Client),
                 UNCHANGED connected_
          PROVE  ~Has(calls[Base], {Call("connect", Client)}) /\ ~connected_'
      BY <3>2, InsideDisconnect
    <3>3. CASE DisconnectLocked(u)
      BY <3>2, <3>3 DEF DisconnectLocked
    <3>4. CASE Unlock(u)
      BY <3>2, <3>4 DEF Unlock
    <3> QED
      BY <1>2, <3>1, <3>3, <3>4
  <2>6. UNCHANGED <<functors, running, connections_, connectorVars, client>>
    BY <1>2 DEF ClientDisconnect, DisconnectLocked, Unlock, restVars, loopVars
  <2> QED
    BY <2>2, <2>3, <2>4, <2>5, <2>6, UserChain
<1> QED
  BY <1>1, <1>2

\* The same threads inside TcpConn::shutdown: the connection may have gone down since
\* the test, but it is still the client's (tcp_conn.cpp).
LEMMA ShutdownChain ==
  ASSUME ClientThreads, Chain, NEW u \in Users, NEW c \in Conns, Leaves,
         TestState(u, c) \/ Post(u, c)
  PROVE  Chain'
<1>1. CASE TestState(u, c)
  <2>1. PICK op \in DOMAIN AfterTest : /\ Executing(u, op, c)
                                       /\ \E more : Return(u, more)
    BY <1>1 DEF TestState
  <2>2. op # "disconnect"
    BY DEF AfterTest
  <2>3. \E s : calls' = [calls EXCEPT ![u] = s]
    <3>1. PICK more : Return(u, more)
      BY <2>1
    <3>2. calls' = [calls EXCEPT ![u] = more \o Tail(calls[u])]
      BY <3>1, Names DEF Return, ClientThreads, CallsTyped
    <3> QED
      BY <3>2
  <2>4. ~Has(calls[Base], {Call("connect", Client)}) /\ ~connected_ /\ UNCHANGED queue_functors_
    BY <2>1, <2>2, InsideDisconnect DEF Return
  <2>5. \A d \in Conns : (Stays(d) \/ Belated(d)) /\ (Up(d) => Up(d)')
    BY <1>1 DEF TestState, Stays, Up, Gone
  <2>6. UNCHANGED <<functors, running, connections_, connectorVars, connected_, client>>
    BY <1>1 DEF TestState, loopVars, Leaves, clientVars
  <2> QED
    BY <2>3, <2>4, <2>5, <2>6, UserChain
<1>2. CASE Post(u, c)
  <2>1. PICK p \in DOMAIN PostedBy :
          /\ Executing(u, p, c)
          /\ conn' = IF p \in {"post_shutdown", "post_force_close"}
                     THEN [conn EXCEPT ![c].state = "DISCONNECTING"] ELSE conn
          /\ RunInLoop(u, conn[c].loop, Call(PostedBy[p], c))
    BY <1>2 DEF Post
  <2>2. p # "disconnect"
    BY DEF PostedBy
  <2>3. ~Has(calls[Base], {Call("connect", Client)}) /\ ~connected_
    BY <2>1, <2>2, InsideDisconnect
  <2>4. c \in connections_ /\ p = "post_shutdown"
    <3>1. UserStack(u) /\ calls[u] # <<>> /\ Head(calls[u]) = Call(p, c)
      BY <2>1 DEF ClientThreads, LockInv, Executing
    <3>2. ASSUME NEW g, calls[u] = <<Call(g, Client)>> PROVE FALSE
      BY <3>1, <3>2, Names DEF Call
    <3>3. ASSUME NEW d \in connections_, NEW g \in {"shutdown", "post_shutdown"},
                 calls[u] = <<Call(g, d), Call("unlock", Client)>>
          PROVE  c \in connections_ /\ p = "post_shutdown"
      <4>1. Head(calls[u]) = Call(g, d)
        BY <3>3
      <4> QED
        BY <3>1, <3>3, <4>1 DEF Call, PostedBy
    <3> QED
      BY <3>1, <3>2, <3>3 DEF UserStack, Holding
  <2>5. client = "up"
    <3>1. ~Idle(u)
      BY <2>1 DEF Executing, Idle
    <3> QED
      BY <3>1 DEF ClientThreads, LockInv
  <2>6. Live(c) /\ conn[c].state # "none"
    BY <2>4, <2>5 DEF Chain, Held, Live, Up, Gone
  <2>7. /\ \A d \in Conns : d # c => conn'[d] = conn[d]
        /\ conn'[c].state = "DISCONNECTING" /\ conn[c].loop = Base
    BY <2>1, <2>4 DEF ClientThreads, ConnsTyped
  <2>8. \A d \in Conns : (Stays(d) \/ Belated(d)) /\ (Up(d) => Up(d)')
    <3>1. \A d \in Conns : d # c => Stays(d) /\ (Up(d) => Up(d)')
      BY <2>7 DEF Stays, Up, Gone
    <3>2. Belated(c) /\ Up(c)'
      BY <2>3, <2>6, <2>7 DEF Belated, Up
    <3> QED
      BY <3>1, <3>2
  <2>9. /\ \E s : calls' = [calls EXCEPT ![u] = s]
        /\ queue_functors_' =
             [queue_functors_ EXCEPT ![Base] = Append(@, Call("shutdown_in_loop", c))]
    <3>1. PostedBy[p] = "shutdown_in_loop"
      BY <2>4 DEF PostedBy
    <3>2. calls' = [calls EXCEPT ![u] = Tail(calls[u])]
      BY <2>1, <2>7, Names DEF RunInLoop, ClientThreads, CallsTyped
    <3> QED
      BY <2>1, <2>7, <3>1, <3>2, Names DEF RunInLoop
  <2>10. Call("shutdown_in_loop", c) \in PlainFunctors \ Endings
    BY DEF PlainFunctors, Raw, Endings, Call
  <2>11. UNCHANGED <<functors, running, connections_, connectorVars, connected_, client>>
    BY <1>2 DEF Post, loopVars, Leaves, clientVars
  <2> QED
    BY <2>3, <2>8, <2>9, <2>10, <2>11, UserChain
<1> QED
  BY <1>1, <1>2

-----------------------------------------------------------------------------
(* The Connector.                                                           *)

\* A function of the client or of the Connector that makes only mild calls and leaves
\* the connections alone, or has the descriptor of one used again.
LEMMA MildBase ==
  ASSUME ClientThreads, Chain, NEW more \in Seq(MildCalls), NEW queued \in SUBSET AnyFunctor,
         BaseReturns(more, queued), \A c \in Conns : Call("connect_destroyed", c) \notin queued,
         Head(calls[Base]) \notin Removals,
         \A c \in Conns : Stays(c) \/ Reused(c),
         retries' + due' <= 1, Waits' => ~Trying',
         Waits' \/ Trying' => Waits \/ Trying \/ Head(calls[Base]) \in Starts,
         \A c \in Conns : Trying' /\ channel_'.fd = c => conn'[c].state = "none",
         client' = "up" => client = "up" /\ connections_' \subseteq connections_,
         connected_' => connected_
  PROVE  Chain'
<1>1. /\ Less /\ Orderly' /\ connections_ \subseteq Conns
      /\ \A u \in Users : calls'[u] = calls[u]
      /\ \A c \in Conns : Doomed(c)' => Doomed(c) \/ Call("connect_destroyed", c) \in queued
      /\ Head(calls[Base]) \in Starts => ~Beginning'
      /\ \A c \in Conns :
           Dropping(c) => Dropping(c)' \/ Head(calls[Base]) = Call("remove_connection", c)
  BY MildAfter
<1>2. \A c \in Conns : Doomed(c)' => Doomed(c)
  BY <1>1
<1>3. Waits' \/ Trying' => (Waits \/ Trying \/ Beginning) /\ ~Beginning'
  <2>1. Head(calls[Base]) \in Starts => Beginning
    BY HeadAhead DEF BaseReturns, Beginning
  <2>2. (Waits => ~Beginning) /\ (Trying => ~Beginning) /\ (Beginning' => Beginning)
    BY <1>1 DEF Chain, Exclusive, Less
  <2> QED
    BY <1>1, <2>1, <2>2
<1>4. client' = "up" => /\ client = "up" /\ connections_' \subseteq connections_
                        /\ \A c \in connections_' : Dropping(c) => Dropping(c)'
  <2>1. \A c \in Conns : Head(calls[Base]) # Call("remove_connection", c)
    BY DEF Removals, Call
  <2> QED
    BY <1>1, <2>1
<1>5. connected_' => connected_ /\ \A u \in Users : Outside(u)'
  BY <1>1 DEF Chain, Wished, Outside
<1>6. \A c \in Conns : Stays(c) \/ Reused(c) \/ Belated(c)
  OBVIOUS
<1> QED
  BY <1>1, <1>2, <1>3, <1>4, <1>5, <1>6, ChainKept

\* One that leaves the Connector as it is, apart from what it is told to do.
LEMMA MildCalm ==
  ASSUME ClientThreads, Chain, NEW more \in Seq(MildCalls), NEW queued \in SUBSET AnyFunctor,
         BaseReturns(more, queued), \A c \in Conns : Call("connect_destroyed", c) \notin queued,
         Head(calls[Base]) \notin Removals,
         UNCHANGED <<conn, state_, channel_, retries, due>>,
         client' = "up" => client = "up" /\ connections_' \subseteq connections_,
         connected_' => connected_
  PROVE  Chain'
<1>1. \A c \in Conns : Stays(c) \/ Reused(c)
  BY DEF Stays, Up, Gone
<1>2. /\ retries' + due' <= 1
      /\ Waits' => ~Trying'
      /\ Waits' \/ Trying' => Waits \/ Trying \/ Head(calls[Base]) \in Starts
  BY DEF Chain, Exclusive, Waits, Trying
<1>3. \A c \in Conns : Trying' /\ channel_'.fd = c => conn'[c].state = "none"
  BY DEF Chain, Held, Trying
<1> QED
  BY <1>1, <1>2, <1>3, MildBase

\* What is to be destroyed is alive.
LEMMA DoomedAlive ==
  ASSUME ClientThreads, NEW c \in Conns, Doomed(c), Created(c)
  PROVE  Alive(c)
<1>1. Base \in AllLoops /\ Base \in Threads
  BY Names
<1>2. /\ Len(calls[Base]) \in Nat /\ Len(functors[Base]) \in Nat
      /\ Len(queue_functors_[Base]) \in Nat /\ running[Base] \in Nat
  BY <1>1, LenProperties DEF ClientThreads, CallsTyped, LoopsTyped, QueuesTyped
<1>3. CASE Has(calls[Base], {Call("connect_destroyed", c)})
  <2>1. \E i \in 1..Len(calls[Base]) : calls[Base][i].c = c
    BY <1>2, <1>3, HasAt DEF Call
  <2> QED
    BY <1>1, <2>1 DEF Alive
<1>4. CASE HasFrom(functors[Base], running[Base], {Call("connect_destroyed", c)})
  <2>1. Captured(functors[Base], c)
    BY <1>2, <1>4 DEF HasFrom, Captured, Owning, Call
  <2> QED
    BY <1>1, <2>1 DEF Alive
<1>5. CASE Has(queue_functors_[Base], {Call("connect_destroyed", c)})
  <2>1. Captured(queue_functors_[Base], c)
    BY <1>2, <1>5, HasAt DEF Captured, Owning, Call
  <2> QED
    BY <1>1, <2>1 DEF Alive
<1> QED
  BY <1>3, <1>4, <1>5 DEF Doomed, DoomedBy

\* An attempt begins, when there is nothing else: in progress, to be retried, or given up
\* (Connector::start_in_loop, connect).
LEMMA StartChain ==
  ASSUME ClientThreads, Chain, StartInLoop(Base)
  PROVE  Chain'
<1>1. /\ calls[Base] # <<>> /\ Head(calls[Base]) = Call("start_in_loop", Connector)
      /\ UNCHANGED <<started_, due, clientVars>>
  BY DEF StartInLoop, ConnectorCall, Executing
<1>2. Head(calls[Base]) \in Starts /\ Head(calls[Base]) \notin Removals
  BY <1>1 DEF Starts, Removals, Call
<1>3. /\ Beginning /\ ~Waits /\ ~Trying /\ \A c \in Conns : ~Live(c)
  <2>1. Beginning
    BY <1>1, <1>2, HeadAhead DEF Beginning
  <2> QED
    BY <2>1 DEF Chain, Exclusive
<1>4. /\ retries \in Nat /\ due \in Nat /\ retries + due <= 0
  BY <1>3 DEF Waits, ClientThreads, ClientTyped
<1>5. ASSUME Return(Base, <<>>), UNCHANGED loopVars
      PROVE  \E more \in Seq(MildCalls), queued \in SUBSET AnyFunctor :
               /\ BaseReturns(more, queued)
               /\ \A c \in Conns : Call("connect_destroyed", c) \notin queued
  <2>1. BaseReturns(<<>>, {})
    BY <1>1, <1>5 DEF BaseReturns, Return
  <2>2. <<>> \in Seq(MildCalls) /\ {} \in SUBSET AnyFunctor
    BY EmptySeq
  <2> QED
    BY <2>1, <2>2
<1>6. CASE \E where : Abort(where) /\ UNCHANGED <<state_, channel_, retries>>
  <2>1. UNCHANGED <<connectorVars, clientVars>>
    BY <1>1, <1>6 DEF connectorVars
  <2> QED
    BY <1>6, <2>1, AbortChain
<1>7. CASE Connecting(Base) /\ UNCHANGED retries
  <2>1. PICK s \in Usable :
          IF channel_ # None
          THEN Abort("connecting") /\ UNCHANGED <<state_, channel_>>
          ELSE /\ state_' = "CONNECTING"
               /\ channel_' = [fd |-> s, channel |-> Enable(NewChannel, "write")]
               /\ conn' = [conn EXCEPT ![s] = NewConn]
               /\ Return(Base, <<>>)
               /\ UNCHANGED <<connections_, kept, loopVars, aborted>>
    BY <1>7 DEF Connecting
  <2>2. CASE channel_ # None
    BY <1>6, <1>7, <2>1, <2>2
  <2>3. CASE channel_ = None
    <3>1. s \in Conns /\ ~Alive(s)
      BY DEF Usable
    <3>2. /\ conn'[s].state = "none" /\ channel_'.fd = s
          /\ \A c \in Conns : c # s => conn'[c] = conn[c]
      BY <2>1, <2>3, <3>1 DEF ClientThreads, ConnsTyped, NewConn
    <3>3. Reused(s)
      <4>1. ASSUME Doomed(s) PROVE FALSE
        <5>1. Created(s)
          BY <3>1, <4>1 DEF Chain, Held, Gone, Created
        <5> QED
          BY <3>1, <4>1, <5>1, DoomedAlive
      <4> QED
        BY <1>3, <3>1, <3>2, <4>1 DEF Reused
    <3>4. \A c \in Conns : Stays(c) \/ Reused(c)
      BY <3>2, <3>3 DEF Stays, Up, Gone
    <3>5. ~Waits' /\ retries' + due' <= 1 /\ Trying'
      BY <1>1, <1>3, <1>4, <1>7, <2>1, <2>3 DEF Waits, Trying
    <3>6. \A c \in Conns : Trying' /\ channel_'.fd = c => conn'[c].state = "none"
      BY <3>2
    <3>7. UNCHANGED <<client, connected_, connections_>>
      BY <1>1, <2>1, <2>3 DEF clientVars
    <3>8. PICK more \in Seq(MildCalls), queued \in SUBSET AnyFunctor :
               /\ BaseReturns(more, queued)
               /\ \A c \in Conns : Call("connect_destroyed", c) \notin queued
      BY <1>5, <2>1, <2>3
    <3> QED
      BY <1>2, <3>4, <3>5, <3>6, <3>7, <3>8, MildBase
  <2> QED
    BY <2>2, <2>3
<1>8. CASE /\ Return(Base, <<>>) /\ UNCHANGED restVars
           /\ retries' \in {retries, retries + 1} /\ (state_' = "DISCONNECTED" \/ UNCHANGED state_)
  <2>1. UNCHANGED <<conn, connections_, loopVars, client, connected_>>
    BY <1>1, <1>8 DEF restVars, clientVars
  <2>2. ~Trying' /\ retries' + due' <= 1
    BY <1>1, <1>3, <1>4, <1>8 DEF Trying
  <2>3. \A c \in Conns : Stays(c) \/ Reused(c)
    BY <2>1 DEF Stays, Up, Gone
  <2>4. PICK more \in Seq(MildCalls), queued \in SUBSET AnyFunctor :
             /\ BaseReturns(more, queued)
             /\ \A c \in Conns : Call("connect_destroyed", c) \notin queued
    BY <1>5, <1>8, <2>1
  <2> QED
    BY <1>2, <2>1, <2>2, <2>3, <2>4, MildBase
<1> QED
  <2>1. \/ state_ # "DISCONNECTED" /\ Abort("start_in_loop") /\ UNCHANGED <<state_, channel_, retries>>
        \/ Connecting(Base) /\ UNCHANGED retries
        \/ Retry /\ Return(Base, <<>>) /\ UNCHANGED <<channel_, restVars>>
        \/ Return(Base, <<>>) /\ UNCHANGED <<state_, channel_, retries, restVars>>
    BY DEF StartInLoop
  <2> QED
    BY <1>6, <1>7, <1>8, <2>1 DEF Retry

\* The attempt is over and its Channel is to be destroyed.
LEMMA OverChain ==
  ASSUME ClientThreads, Chain, NEW more \in Seq(MildCalls), calls[Base] # <<>>,
         Head(calls[Base]) \notin Removals, Trying, ~Trying',
         ReturnQueueing(Base, more, Call("reset_channel", Connector)),
         retries' \in {retries, retries + 1}, UNCHANGED <<due, restVars, clientVars>>
  PROVE  Chain'
<1>1. /\ BaseReturns(more, Resets) /\ Resets \in SUBSET AnyFunctor
      /\ \A c \in Conns : Call("connect_destroyed", c) \notin Resets
  <2>1. Call("reset_channel", Connector) \in Resets
    BY DEF Resets
  <2>2. UNCHANGED loopVars
    BY DEF restVars
  <2> QED
    BY <2>1, <2>2, ByQueueing DEF Resets, Call, AnyFunctor
<1>2. UNCHANGED <<conn, connections_, client, connected_>>
  BY DEF restVars, clientVars
<1>3. \A c \in Conns : Stays(c) \/ Reused(c)
  BY <1>2 DEF Stays, Up, Gone
<1>4. retries' + due' <= 1
  <2>1. ~Waits /\ retries \in Nat /\ due \in Nat
    BY DEF Chain, Exclusive, ClientThreads, ClientTyped
  <2>2. retries = 0 /\ due = 0
    BY <2>1 DEF Waits
  <2>3. due' = 0 /\ (retries' = 0 \/ retries' = 1)
    BY <2>2
  <2> QED
    BY <2>3
<1>5. /\ Waits' => ~Trying'
      /\ Waits' \/ Trying' => Waits \/ Trying \/ Head(calls[Base]) \in Starts
      /\ \A c \in Conns : Trying' /\ channel_'.fd = c => conn'[c].state = "none"
  OBVIOUS
<1> QED
  BY <1>1, <1>2, <1>3, <1>4, <1>5, MildBase

\* The handshake ended well: the client is to install the connection
\* (Connector::handle_write).
LEMMA MadeChain ==
  ASSUME ClientThreads, Chain, Trying, ~Trying', calls[Base] # <<>>,
         ReturnQueueing(Base, <<Call("new_connection", channel_.fd)>>,
                        Call("reset_channel", Connector)),
         UNCHANGED <<retries, due, restVars, clientVars>>
  PROVE  Chain'
<1> DEFINE s == channel_.fd
           a == Call("new_connection", s)
           more == <<a>>
<1>1. s \in Conns /\ conn[s].state = "none" /\ a \in Installs
  BY DEF ClientThreads, ClientTyped, Chain, Held, Installs, Call
<1>2. /\ BaseReturns(more, Resets) /\ Resets \in SUBSET AnyFunctor
      /\ \A c \in Conns : Call("connect_destroyed", c) \notin Resets
  <2>1. Call("reset_channel", Connector) \in Resets
    BY DEF Resets
  <2>2. UNCHANGED loopVars
    BY DEF restVars
  <2> QED
    BY <2>1, <2>2, ByQueueing DEF Resets, Call, AnyFunctor
<1>3. UNCHANGED <<conn, connections_, client, connected_, retries, due>>
  BY DEF restVars, clientVars
<1>4. /\ a \in AnyCall /\ a \notin Starts /\ a \notin Closers /\ a # Call("connect", Client)
      /\ \A c \in Conns : /\ a = Call("new_connection", c) => c = s
                          /\ a # Call("remove_connection", c)
                          /\ a # Call("connect_destroyed", c)
  BY <1>1, Kinds DEF Installs, Starts, Closers, Call
<1> HIDE DEF a
<1>5. more \in Seq(AnyCall) /\ \A K : (Has(more, K) <=> a \in K) /\ Once(more, K)
  BY <1>4, ShortStacks
<1> HIDE DEF more, s
<1>6. /\ \A K : /\ Has(calls'[Base], K) => Has(more, K) \/ Has(calls[Base], K)
                /\ Once(calls[Base], K) /\ Once(more, K)
                     /\ (~Has(more, K) \/ ~Has(calls[Base], K)) => Once(calls'[Base], K)
      /\ Has(calls'[Base], Closers) => Has(more, Closers)
      /\ Once(more, Closers) => Once(calls'[Base], Closers)
      /\ Has(calls'[Base], {Call("connect", Client)}) => Has(more, {Call("connect", Client)})
      /\ \A u \in Users : calls'[u] = calls[u]
      /\ \A c \in Conns : Doomed(c)' =>
           \/ Doomed(c)
           \/ Has(more, {Call("connect_destroyed", c)})
           \/ Call("connect_destroyed", c) \in Resets
  BY <1>2, <1>5, StackAfter
<1>7. ~Waits /\ ~Beginning /\ \A c \in Conns : ~Live(c)
  BY DEF Chain, Exclusive
<1>8. ~Has(calls[Base], Installs)
  <2>1. ASSUME Has(calls[Base], Installs) PROVE \E c \in Conns : Adding(c)
    BY <2>1 DEF Has, HasFrom, Adding, Installs, Call
  <2> QED
    BY <1>7, <2>1 DEF Live
<1>9. /\ ~Waits' /\ ~Beginning'
      /\ \A c \in Conns : /\ Adding(c)' => c = s
                          /\ ~Dropping(c)' /\ ~Up(c)' /\ ~Up(c)
                          /\ Doomed(c)' => Doomed(c)
  <2>1. ~Waits'
    BY <1>3, <1>7 DEF Waits
  <2>2. ~Beginning'
    BY <1>4, <1>5, <1>6, <1>7 DEF Beginning
  <2>3. ASSUME NEW c \in Conns
        PROVE  /\ Adding(c)' => c = s
               /\ ~Dropping(c)' /\ ~Up(c)' /\ ~Up(c)
               /\ Doomed(c)' => Doomed(c)
    <3>1. ~Up(c) /\ ~Adding(c) /\ ~Dropping(c)
      BY <1>7 DEF Live
    <3>2. ~Up(c)'
      BY <1>3, <3>1 DEF Up
    <3>3. Adding(c)' => c = s
      BY <1>4, <1>5, <1>6, <3>1 DEF Adding
    <3>4. ~Dropping(c)'
      BY <1>4, <1>5, <1>6, <3>1 DEF Dropping
    <3>5. Doomed(c)' => Doomed(c)
      BY <1>2, <1>4, <1>5, <1>6
    <3> QED
      BY <3>1, <3>2, <3>3, <3>4, <3>5
  <2> QED
    BY <2>1, <2>2, <2>3
<1>10. Exclusive'
  BY <1>3, <1>9 DEF Exclusive, Live, Chain
<1>11. Orderly'
  BY <1>4, <1>5, <1>6, <1>8 DEF Orderly, Chain
<1>12. Held'
  <2>1. \A c \in Conns : Adding(c)' => conn'[c].state = "none"
    BY <1>1, <1>3, <1>9 DEF s
  <2>2. \A c \in Conns : Doomed(c)' => Gone(c)'
    BY <1>3, <1>9 DEF Chain, Held, Gone
  <2>3. client' = "up" => \A c \in connections_' : Up(c)' \/ Dropping(c)'
    <3>1. \A c \in connections_ : client = "up" => Up(c) \/ Dropping(c)
      BY DEF Chain, Held
    <3>2. connections_ \subseteq Conns
      BY DEF ClientThreads, ConnsTyped
    <3> QED
      BY <1>3, <1>7, <3>1, <3>2 DEF Live
  <2> QED
    BY <1>9, <2>1, <2>2, <2>3 DEF Held
<1>13. Wished'
  BY <1>3, <1>6, <1>9 DEF Chain, Wished, Outside
<1> QED
  BY <1>10, <1>11, <1>12, <1>13 DEF Chain

\* The functions of the Connector (connector.cpp).
LEMMA ConnectorChain ==
  ASSUME ClientThreads, Chain, ConnectorStep(Base)
  PROVE  Chain'
<1>1. ASSUME NEW fn, ConnectorCall(Base, fn), fn # "remove_connection"
      PROVE  calls[Base] # <<>> /\ Head(calls[Base]) \notin Removals
  BY <1>1 DEF ConnectorCall, Executing, Removals, Call
<1>2. <<>> \in Seq(MildCalls) /\ {} \in SUBSET AnyFunctor
  BY EmptySeq
<1>3. ASSUME NEW fn, ConnectorCall(Base, fn), fn # "remove_connection", Return(Base, <<>>),
             UNCHANGED <<state_, retries, due, restVars, clientVars>>,
             UNCHANGED channel_ \/ ~Trying
      PROVE  Chain'
  <2>1. calls[Base] # <<>> /\ Head(calls[Base]) \notin Removals
    BY <1>1, <1>3
  <2>2. UNCHANGED <<conn, connections_, loopVars, client, connected_>>
    BY <1>3 DEF restVars, clientVars
  <2> DEFINE none == <<>>
             queued == {}
  <2>3. /\ BaseReturns(none, queued) /\ none \in Seq(MildCalls) /\ queued \in SUBSET AnyFunctor
        /\ \A f : f \notin queued
    BY <1>2, <1>3, <2>1, <2>2 DEF BaseReturns, Return
  <2> HIDE DEF none, queued
  <2>4. \A c \in Conns : Stays(c) \/ Reused(c)
    BY <2>2 DEF Stays, Up, Gone
  <2>5. /\ retries' + due' <= 1
        /\ Waits' => ~Trying'
        /\ Waits' \/ Trying' => Waits \/ Trying \/ Head(calls[Base]) \in Starts
    BY <1>3 DEF Chain, Exclusive, Waits, Trying
  <2>6. \A c \in Conns : Trying' /\ channel_'.fd = c => conn'[c].state = "none"
    BY <1>3, <2>2 DEF Chain, Held, Trying
  <2> QED
    BY <2>1, <2>2, <2>3, <2>4, <2>5, <2>6, MildBase
<1>4. CASE StopInLoop(Base)
  <2>1. ConnectorCall(Base, "stop_in_loop") /\ UNCHANGED <<started_, retries, due, restVars, clientVars>>
    BY <1>4 DEF StopInLoop
  <2>2. CASE Trying
    <3>1. ReturnQueueing(Base, <<>>, Call("reset_channel", Connector)) /\ ~Trying'
      BY <1>4, <2>2 DEF StopInLoop, RemoveAndReset, Trying
    <3> QED
      BY <1>1, <1>2, <2>1, <2>2, <3>1, OverChain
  <2>3. CASE ~Trying
    <3>1. Return(Base, <<>>) /\ UNCHANGED <<state_, channel_>>
      BY <1>4, <2>3 DEF StopInLoop
    <3> QED
      BY <1>3, <2>1, <3>1
  <2> QED
    BY <2>2, <2>3
<1>5. CASE ResetChannel(Base)
  <2>1. /\ ConnectorCall(Base, "reset_channel") /\ Return(Base, <<>>)
        /\ UNCHANGED <<state_, started_, retries, due, restVars, clientVars>>
    BY <1>5 DEF ResetChannel
  <2>2. ~Trying
    <3>1. calls[Base] # <<>> /\ Head(calls[Base]) \in Resets
      BY <2>1 DEF ConnectorCall, Executing, Resets
    <3>2. Has(calls[Base], Resets)
      BY <3>1, HeadAhead
    <3> QED
      BY <3>2 DEF ClientThreads, OneReset, ResetAhead
  <2> QED
    BY <1>3, <2>1, <2>2
<1>6. CASE ConnectorError(Base)
  <2>1. ConnectorCall(Base, "handle_error") /\ UNCHANGED <<started_, due, restVars, clientVars>>
    BY <1>6 DEF ConnectorError
  <2>2. CASE Trying
    <3>1. /\ ReturnQueueing(Base, <<>>, Call("reset_channel", Connector)) /\ ~Trying'
          /\ retries' \in {retries, retries + 1}
      BY <1>6, <2>2 DEF ConnectorError, RemoveAndReset, Retry, Trying
    <3> QED
      BY <1>1, <1>2, <2>1, <2>2, <3>1, OverChain
  <2>3. CASE ~Trying
    <3>1. Return(Base, <<>>) /\ UNCHANGED <<state_, channel_, retries>>
      BY <1>6, <2>3 DEF ConnectorError
    <3> QED
      BY <1>3, <2>1, <3>1
  <2> QED
    BY <2>2, <2>3
<1>7. CASE ConnectorWrite(Base)
  <2>1. ConnectorCall(Base, "handle_write") /\ UNCHANGED <<started_, due, clientVars>>
    BY <1>7 DEF ConnectorWrite
  <2>2. CASE Trying /\ RemoveAndReset(Base, <<>>) /\ Retry /\ UNCHANGED restVars
    <3>1. /\ ReturnQueueing(Base, <<>>, Call("reset_channel", Connector)) /\ ~Trying'
          /\ retries' \in {retries, retries + 1}
      BY <2>2 DEF RemoveAndReset, Retry, Trying
    <3> QED
      BY <1>1, <1>2, <2>1, <2>2, <3>1, OverChain
  <2>3. CASE /\ Trying
             /\ RemoveAndReset(Base, IF started_ THEN <<Call("new_connection", channel_.fd)>>
                                     ELSE <<>>)
             /\ state_' = "CONNECTED" /\ UNCHANGED <<retries, restVars>>
    <3>1. ~Trying'
      BY <2>3 DEF Trying
    <3>2. CASE started_
      <4>1. ReturnQueueing(Base, <<Call("new_connection", channel_.fd)>>,
                           Call("reset_channel", Connector))
        BY <2>3, <3>2 DEF RemoveAndReset
      <4> QED
        BY <1>1, <2>1, <2>3, <3>1, <4>1, MadeChain
    <3>3. CASE ~started_
      <4>1. ReturnQueueing(Base, <<>>, Call("reset_channel", Connector))
        BY <2>3, <3>3 DEF RemoveAndReset
      <4> QED
        BY <1>1, <1>2, <2>1, <2>3, <3>1, <4>1, OverChain
    <3> QED
      BY <3>2, <3>3
  <2>4. CASE /\ ~Trying /\ UNCHANGED <<state_, channel_, retries>>
             /\ Return(Base, <<>>) /\ UNCHANGED restVars
    BY <1>3, <2>1, <2>4
  <2>5. CASE Abort("handle_write") /\ UNCHANGED <<state_, channel_, retries>>
    BY <2>1, <2>5, AbortChain DEF connectorVars
  <2> QED
    BY <1>7, <2>2, <2>3, <2>4, <2>5 DEF ConnectorWrite
<1>8. CASE UseAfterFree(Base)
  BY <1>8, AbortChain DEF UseAfterFree
<1> QED
  BY <1>4, <1>5, <1>6, <1>7, <1>8, StartChain DEF ConnectorStep

-----------------------------------------------------------------------------
(* The client.                                                              *)

\* A call of the base loop's thread returned and made one other.
LEMMA OneAfter ==
  ASSUME ClientThreads, Chain, NEW a \in AnyCall, NEW queued \in SUBSET AnyFunctor,
         BaseReturns(<<a>>, queued)
  PROVE  /\ \A K : /\ Has(calls'[Base], K) => a \in K \/ Has(calls[Base], K)
                   /\ Once(calls[Base], K) /\ Head(calls[Base]) \in K =>
                        (Has(calls'[Base], K) => a \in K)
                   /\ Once(calls[Base], K)
                        /\ (a \notin K \/ Head(calls[Base]) \in K \/ ~Has(calls[Base], K)) =>
                          Once(calls'[Base], K)
                   /\ Has(calls[Base], K) => Head(calls[Base]) \in K \/ Has(calls'[Base], K)
         /\ Has(calls'[Base], Closers) => a \in Closers
         /\ Once(calls'[Base], Closers)
         /\ Has(calls'[Base], {Call("connect", Client)}) => a = Call("connect", Client)
         /\ \A u \in Users : calls'[u] = calls[u]
         /\ \A c \in Conns : Doomed(c)' =>
              \/ Doomed(c) \/ a = Call("connect_destroyed", c)
              \/ Call("connect_destroyed", c) \in queued
<1> DEFINE more == <<a>>
<1>1. more \in Seq(AnyCall) /\ \A K : (Has(more, K) <=> a \in K) /\ Once(more, K)
  BY ShortStacks
<1>2. BaseReturns(more, queued)
  OBVIOUS
<1> HIDE DEF more
<1>3. /\ \A K : /\ Has(calls'[Base], K) => Has(more, K) \/ Has(calls[Base], K)
                /\ Has(calls[Base], K) => Head(calls[Base]) \in K \/ Has(calls'[Base], K)
                /\ Once(calls[Base], K) /\ Head(calls[Base]) \in K =>
                     (Has(calls'[Base], K) => Has(more, K))
                /\ Once(calls[Base], K) /\ Once(more, K)
                     /\ (~Has(more, K) \/ Head(calls[Base]) \in K \/ ~Has(calls[Base], K)) =>
                       Once(calls'[Base], K)
      /\ Has(calls'[Base], Closers) => Has(more, Closers)
      /\ Once(more, Closers) => Once(calls'[Base], Closers)
      /\ Has(calls'[Base], {Call("connect", Client)}) => Has(more, {Call("connect", Client)})
      /\ \A u \in Users : calls'[u] = calls[u]
      /\ \A c \in Conns : Doomed(c)' =>
           \/ Doomed(c)
           \/ Has(more, {Call("connect_destroyed", c)})
           \/ Call("connect_destroyed", c) \in queued
  BY <1>1, <1>2, StackAfter
<1>4. ASSUME NEW K
      PROVE  /\ Has(calls'[Base], K) => a \in K \/ Has(calls[Base], K)
             /\ Once(calls[Base], K) /\ Head(calls[Base]) \in K =>
                  (Has(calls'[Base], K) => a \in K)
             /\ Once(calls[Base], K)
                  /\ (a \notin K \/ Head(calls[Base]) \in K \/ ~Has(calls[Base], K)) =>
                    Once(calls'[Base], K)
             /\ Has(calls[Base], K) => Head(calls[Base]) \in K \/ Has(calls'[Base], K)
  BY <1>1, <1>3, Zenon
<1>5. /\ Has(calls'[Base], Closers) => a \in Closers
      /\ Once(calls'[Base], Closers)
      /\ Has(calls'[Base], {Call("connect", Client)}) => a = Call("connect", Client)
  BY <1>1, <1>3
<1>6. ASSUME NEW c \in Conns, Doomed(c)'
      PROVE  \/ Doomed(c) \/ a = Call("connect_destroyed", c)
             \/ Call("connect_destroyed", c) \in queued
  BY <1>1, <1>3, <1>6
<1> QED
  BY <1>3, <1>4, <1>5, <1>6

\* The owner's connect(), before which there was nothing.
LEMMA ConnectChain ==
  ASSUME ClientThreads, Chain, ClientConnect(Base)
  PROVE  Chain'
<1> DEFINE a == Call("start_in_loop", Connector)
           queued == {}
<1>1. /\ calls[Base] # <<>> /\ Head(calls[Base]) = Call("connect", Client)
      /\ UNCHANGED <<state_, channel_, retries, due, mutex_, client, conn, connections_>>
      /\ BaseReturns(<<a>>, {})
  BY DEF ClientConnect, Executing, restVars, Return, BaseReturns
<1>2. /\ a \in AnyCall /\ a \in Starts /\ a \notin Installs /\ a \notin Closers
      /\ a # Call("connect", Client) /\ Head(calls[Base]) \in Starts
      /\ \A c \in Conns : /\ a # Call("new_connection", c) /\ a # Call("remove_connection", c)
                          /\ a # Call("connect_destroyed", c)
                          /\ Head(calls[Base]) # Call("remove_connection", c)
  BY <1>1, Kinds DEF Starts, Installs, Closers, Call
<1>3. queued \in SUBSET AnyFunctor /\ BaseReturns(<<a>>, queued) /\ \A f : f \notin queued
  BY <1>1
<1> HIDE DEF a, queued
<1>4. /\ \A K : /\ Has(calls'[Base], K) => a \in K \/ Has(calls[Base], K)
                /\ Once(calls[Base], K)
                     /\ (a \notin K \/ Head(calls[Base]) \in K \/ ~Has(calls[Base], K)) =>
                       Once(calls'[Base], K)
                /\ Has(calls[Base], K) => Head(calls[Base]) \in K \/ Has(calls'[Base], K)
      /\ Has(calls'[Base], Closers) => a \in Closers
      /\ Once(calls'[Base], Closers)
      /\ Has(calls'[Base], {Call("connect", Client)}) => a = Call("connect", Client)
      /\ \A u \in Users : calls'[u] = calls[u]
      /\ \A c \in Conns : Doomed(c)' =>
           \/ Doomed(c) \/ a = Call("connect_destroyed", c)
           \/ Call("connect_destroyed", c) \in queued
  BY <1>2, <1>3, OneAfter
<1>5. Beginning /\ Has(calls[Base], {Call("connect", Client)})
  BY <1>1, <1>2, HeadAhead DEF Beginning
<1>6. connected_ /\ \A u \in Users : Outside(u)'
  BY <1>4, <1>5 DEF Chain, Orderly, Outside, Idle
<1>7. Less
  BY <1>2, <1>4, <1>5 DEF Less, Adding, Dropping
<1>8. Orderly'
  BY <1>2, <1>4 DEF Chain, Orderly
<1>9. ~Waits' /\ ~Trying' /\ retries' + due' <= 1
  BY <1>1, <1>5 DEF Chain, Exclusive, Waits, Trying
<1>10. \A c \in Conns : Stays(c)
  BY <1>1 DEF Stays, Up, Gone
<1>11. \A c \in Conns : (Dropping(c) => Dropping(c)') /\ (Doomed(c)' => Doomed(c))
  BY <1>2, <1>3, <1>4 DEF Dropping
<1>12. connections_ \subseteq Conns
  BY DEF ClientThreads, ConnsTyped
<1> QED
  BY <1>1, <1>6, <1>7, <1>8, <1>9, <1>10, <1>11, <1>12, ChainKept

\* The connection of the attempt is there (new_connection).
LEMMA NewChain ==
  ASSUME ClientThreads, Chain, NEW c \in Conns, NewConnection(Base, c)
  PROVE  Chain'
<1> DEFINE a == Call("connect_established", c)
           queued == {}
<1>1. /\ calls[Base] # <<>> /\ Head(calls[Base]) = Call("new_connection", c)
      /\ UNCHANGED <<state_, channel_, retries, due, client, connected_>>
      /\ conn' = [conn EXCEPT ![c].state = "CONNECTING"] /\ connections_' = {c}
      /\ BaseReturns(<<a>>, {})
  BY DEF NewConnection, Executing, Return, BaseReturns, connectorVars, clientVars
<1>2. /\ a \in AnyCall /\ a \notin Starts /\ a \notin Installs /\ a \notin Closers
      /\ a # Call("connect", Client) /\ Head(calls[Base]) \in Installs
      /\ \A d \in Conns : /\ a # Call("new_connection", d) /\ a # Call("remove_connection", d)
                          /\ a # Call("connect_destroyed", d)
                          /\ Call("new_connection", d) \in Installs
  <2>1. a \in PlainCalls
    BY DEF PlainCalls, PlainFns, Call
  <2> QED
    BY <1>1, <2>1, Kinds DEF Starts, Installs, Closers, Call
<1>3. queued \in SUBSET AnyFunctor /\ BaseReturns(<<a>>, queued) /\ \A f : f \notin queued
  BY <1>1
<1>4. /\ conn'[c].state = "CONNECTING" /\ \A d \in Conns : d # c => conn'[d] = conn[d]
  BY <1>1 DEF ClientThreads, ConnsTyped
<1> HIDE DEF a, queued
<1>5. /\ \A K : /\ Has(calls'[Base], K) => a \in K \/ Has(calls[Base], K)
                /\ Once(calls[Base], K) /\ Head(calls[Base]) \in K =>
                     (Has(calls'[Base], K) => a \in K)
                /\ Once(calls[Base], K)
                     /\ (a \notin K \/ Head(calls[Base]) \in K \/ ~Has(calls[Base], K)) =>
                       Once(calls'[Base], K)
      /\ Has(calls'[Base], Closers) => a \in Closers
      /\ Once(calls'[Base], Closers)
      /\ Has(calls'[Base], {Call("connect", Client)}) => a = Call("connect", Client)
      /\ \A u \in Users : calls'[u] = calls[u]
      /\ \A d \in Conns : Doomed(d)' =>
           \/ Doomed(d) \/ a = Call("connect_destroyed", d)
           \/ Call("connect_destroyed", d) \in queued
  BY <1>2, <1>3, OneAfter
<1>6. Adding(c) /\ Live(c)
  BY <1>1, HeadAhead DEF Adding, Live
<1>7. /\ ~Waits /\ ~Trying /\ ~Beginning /\ conn[c].state = "none"
      /\ \A d \in Conns : Live(d) => d = c
  BY <1>6 DEF Chain, Exclusive, Held
<1>8. ~Waits' /\ ~Trying' /\ ~Beginning' /\ retries' + due' <= 1
  BY <1>1, <1>2, <1>5, <1>7 DEF Waits, Trying, Beginning, Chain, Exclusive
<1>9. ~Has(calls'[Base], Installs)
  <2>1. Once(calls[Base], Installs)
    BY DEF Chain, Orderly
  <2> QED
    BY <1>2, <1>5, <2>1
<1>10. ASSUME NEW d \in Conns
       PROVE  /\ ~Adding(d)' /\ ~Dropping(d)' /\ (Up(d)' => d = c)
              /\ Doomed(d)' => Doomed(d)
  <2>1. ~Adding(d)'
    <3>1. Has(calls'[Base], {Call("new_connection", d)}) => Has(calls'[Base], Installs)
      BY <1>2 DEF Has, HasFrom
    <3> QED
      BY <1>9, <3>1 DEF Adding
  <2>2. Dropping(d)' => Dropping(d)
    BY <1>2, <1>5 DEF Dropping
  <2>3. ~Dropping(d)
    <3>1. ASSUME Dropping(d) PROVE FALSE
      <4>1. d = c /\ Gone(d)
        BY <1>7, <3>1 DEF Live, Chain, Held
      <4> QED
        BY <1>7, <4>1 DEF Gone
    <3> QED
      BY <3>1
  <2>4. Up(d)' => d = c
    BY <1>4, <1>7 DEF Up, Live
  <2>5. Doomed(d)' => Doomed(d)
    BY <1>2, <1>3, <1>5
  <2> QED
    BY <2>1, <2>2, <2>3, <2>4, <2>5
<1>11. Exclusive'
  BY <1>8, <1>10 DEF Exclusive, Live
<1>12. Orderly'
  BY <1>2, <1>5 DEF Orderly, Chain
<1>13. Held'
  <2>1. \A d \in Conns : Doomed(d)' => Gone(d)'
    <3>1. \A d \in Conns : Doomed(d) => Gone(d) /\ d # c
      BY <1>7 DEF Chain, Held, Gone
    <3> QED
      BY <1>4, <1>10, <3>1 DEF Gone
  <2>2. \A d \in connections_' : Up(d)'
    BY <1>1, <1>4 DEF Up
  <2> QED
    BY <1>8, <1>10, <2>1, <2>2 DEF Held
<1>14. Wished'
  BY <1>1, <1>5, <1>10 DEF Chain, Wished, Outside
<1> QED
  BY <1>11, <1>12, <1>13, <1>14 DEF Chain

\* The client hears that its connection is down and starts over (remove_connection, with
\* Connector::restart).
LEMMA RestartChain ==
  ASSUME ClientThreads, Chain, NEW c \in Conns, Executing(Base, "remove_connection", c),
         connected_, connections_' = {}, state_' = "DISCONNECTED",
         ReturnQueueing(Base, <<Call("start_in_loop", Connector)>>, Call("connect_destroyed", c)),
         UNCHANGED <<conn, loopVars, channel_, retries, due, clientVars>>
  PROVE  Chain'
<1> DEFINE a == Call("start_in_loop", Connector)
           queued == {Call("connect_destroyed", c)}
<1>1. calls[Base] # <<>> /\ Head(calls[Base]) = Call("remove_connection", c)
  BY DEF Executing
<1>2. /\ a \in AnyCall /\ a \in Starts /\ a \notin Installs /\ a \notin Closers
      /\ a # Call("connect", Client)
      /\ \A d \in Conns : /\ a # Call("new_connection", d) /\ a # Call("remove_connection", d)
                          /\ a # Call("connect_destroyed", d)
  BY Kinds DEF Starts, Installs, Closers, Call
<1>3. /\ queued \in SUBSET AnyFunctor /\ BaseReturns(<<a>>, queued)
      /\ \A d \in Conns : Call("connect_destroyed", d) \in queued => d = c
  <2>1. Call("connect_destroyed", c) \in queued
    OBVIOUS
  <2>2. queued \in SUBSET AnyFunctor
    BY DEF AnyFunctor, PlainFunctors, Endings, Call
  <2> QED
    BY <1>1, <2>1, <2>2, ByQueueing DEF Call
<1> HIDE DEF a, queued
<1>4. /\ \A K : /\ Has(calls'[Base], K) => a \in K \/ Has(calls[Base], K)
                /\ Once(calls[Base], K) /\ Head(calls[Base]) \in K =>
                     (Has(calls'[Base], K) => a \in K)
                /\ Once(calls[Base], K)
                     /\ (a \notin K \/ Head(calls[Base]) \in K \/ ~Has(calls[Base], K)) =>
                       Once(calls'[Base], K)
      /\ Has(calls'[Base], Closers) => a \in Closers
      /\ Once(calls'[Base], Closers)
      /\ Has(calls'[Base], {Call("connect", Client)}) => a = Call("connect", Client)
      /\ \A u \in Users : calls'[u] = calls[u]
      /\ \A d \in Conns : Doomed(d)' =>
           \/ Doomed(d) \/ a = Call("connect_destroyed", d)
           \/ Call("connect_destroyed", d) \in queued
  BY <1>2, <1>3, OneAfter
<1>5. Dropping(c) /\ Live(c)
  BY <1>1, HeadAhead DEF Dropping, Live
<1>6. /\ ~Waits /\ ~Beginning /\ Gone(c) /\ ~Up(c)
      /\ Once(calls[Base], {Call("remove_connection", c)})
      /\ \A d \in Conns : Live(d) => d = c
  BY <1>5 DEF Chain, Exclusive, Held, Wished
<1>7. ~Waits' /\ ~Trying' /\ retries' + due' <= 1
  BY <1>6 DEF Waits, Trying, Chain, Exclusive
<1>8. ASSUME NEW d \in Conns
      PROVE  /\ ~Adding(d)' /\ ~Dropping(d)' /\ ~Up(d)'
             /\ Doomed(d)' => Doomed(d) \/ d = c
  <2>1. Adding(d)' => Adding(d)
    BY <1>2, <1>4 DEF Adding
  <2>2. ~Adding(d)
    <3>1. ASSUME Adding(d) PROVE FALSE
      <4>1. d = c /\ conn[d].state = "none"
        BY <1>6, <3>1 DEF Live, Chain, Held
      <4> QED
        BY <1>6, <4>1 DEF Gone
    <3> QED
      BY <3>1
  <2>3. Dropping(d)' => Dropping(d)
    BY <1>2, <1>4 DEF Dropping
  <2>4. ~Dropping(c)'
    BY <1>1, <1>2, <1>4, <1>6 DEF Dropping
  <2>5. ~Up(d)'
    BY <1>6 DEF Up, Live
  <2>6. Dropping(d) => d = c
    BY <1>6 DEF Live
  <2> QED
    BY <1>2, <1>3, <1>4, <2>1, <2>2, <2>3, <2>4, <2>5, <2>6
<1>9. Exclusive'
  BY <1>7, <1>8 DEF Exclusive, Live
<1>10. Orderly'
  BY <1>2, <1>4, <1>6 DEF Orderly, Chain, Beginning
<1>11. Held'
  <2>1. \A d \in Conns : Doomed(d)' => Gone(d)'
    BY <1>6, <1>8 DEF Chain, Held, Gone
  <2> QED
    BY <1>7, <1>8, <2>1 DEF Held
<1>12. Wished'
  BY <1>4, <1>8 DEF Chain, Wished, Outside, clientVars
<1> QED
  BY <1>9, <1>10, <1>11, <1>12 DEF Chain

\* The client hears it and leaves it at that.
LEMMA RemovedChain ==
  ASSUME ClientThreads, Chain, NEW c \in Conns, Executing(Base, "remove_connection", c),
         ReturnQueueing(Base, <<>>, Call("connect_destroyed", c)),
         client = "up" => connections_' = {},
         UNCHANGED <<conn, loopVars, connectorVars, clientVars>>
  PROVE  Chain'
<1> DEFINE none == <<>>
           queued == {Call("connect_destroyed", c)}
<1>1. calls[Base] # <<>> /\ Head(calls[Base]) = Call("remove_connection", c)
  BY DEF Executing
<1>2. /\ none \in Seq(MildCalls) /\ queued \in SUBSET AnyFunctor /\ BaseReturns(none, queued)
      /\ \A d \in Conns : Call("connect_destroyed", d) \in queued => d = c
  <2>1. Call("connect_destroyed", c) \in queued
    OBVIOUS
  <2>2. queued \in SUBSET AnyFunctor
    BY DEF AnyFunctor, PlainFunctors, Endings, Call
  <2>3. none \in Seq(MildCalls)
    BY EmptySeq
  <2> QED
    BY <1>1, <2>1, <2>2, <2>3, ByQueueing DEF Call
<1> HIDE DEF none, queued
<1>3. /\ Less /\ Orderly' /\ connections_ \subseteq Conns
      /\ \A u \in Users : calls'[u] = calls[u]
      /\ \A d \in Conns : Doomed(d)' => Doomed(d) \/ Call("connect_destroyed", d) \in queued
  BY <1>2, MildAfter
<1>4. \A d \in Conns : Doomed(d)' => Doomed(d) \/ Gone(d)'
  <2>1. Dropping(c)
    BY <1>1, HeadAhead DEF Dropping
  <2>2. Gone(c)'
    BY <2>1 DEF Chain, Held, Gone
  <2> QED
    BY <1>2, <1>3, <2>2
<1>5. \A d \in Conns : Stays(d)
  BY DEF Stays, Up, Gone
<1>6. connected_' => connected_ /\ \A u \in Users : Outside(u)'
  BY <1>3 DEF clientVars, Chain, Wished, Outside
<1>7. client' = "up" => /\ client = "up" /\ connections_' \subseteq connections_
                        /\ \A d \in connections_' : Dropping(d) => Dropping(d)'
  BY DEF clientVars
<1> QED
  BY <1>3, <1>4, <1>5, <1>6, <1>7, ChainCalm

\* remove_connection, while the client is there, is being destroyed, or is gone.
LEMMA RemoveChain ==
  ASSUME ClientThreads, Chain, NEW c \in Conns, RemoveConnection(Base, c)
  PROVE  Chain'
<1>1. /\ Executing(Base, "remove_connection", c)
      /\ UNCHANGED <<channel_, retries, due, clientVars>>
  BY DEF RemoveConnection
<1>2. CASE /\ client = "up" /\ connections_' = {}
           /\ IF retry_ /\ connected_
              THEN /\ state_' = "DISCONNECTED"
                   /\ ReturnQueueing(Base, <<Call("start_in_loop", Connector)>>,
                                     Call("connect_destroyed", c))
              ELSE /\ ReturnQueueing(Base, <<>>, Call("connect_destroyed", c))
                   /\ UNCHANGED <<state_, started_>>
           /\ UNCHANGED <<conn, loopVars>>
  <2>1. CASE retry_ /\ connected_
    BY <1>1, <1>2, <2>1, RestartChain
  <2>2. CASE ~(retry_ /\ connected_)
    <3>1. /\ ReturnQueueing(Base, <<>>, Call("connect_destroyed", c))
          /\ UNCHANGED connectorVars
      BY <1>1, <1>2, <2>2 DEF connectorVars
    <3> QED
      BY <1>1, <1>2, <3>1, RemovedChain
  <2> QED
    BY <2>1, <2>2
<1>3. CASE /\ client = "dying"
           /\ ReturnQueueing(Base, <<>>, Call("connect_destroyed", c))
           /\ UNCHANGED <<state_, started_, restVars>>
  <2>1. UNCHANGED <<conn, loopVars, connectorVars>>
    BY <1>1, <1>3 DEF restVars, connectorVars
  <2> QED
    BY <1>1, <1>3, <2>1, RemovedChain
<1>4. CASE Abort("use_after_free") /\ UNCHANGED <<state_, started_>>
  BY <1>1, <1>4, AbortChain DEF connectorVars
<1> QED
  BY <1>2, <1>3, <1>4 DEF RemoveConnection

\* The other functions of the client: stop, disconnect, the release of its mutex, its
\* end, and what the user posted.
LEMMA ClientChain ==
  ASSUME ClientThreads, Chain,
         ClientStop(Base) \/ ClientDisconnect(Base) \/ DisconnectLocked(Base) \/ Unlock(Base)
           \/ DestroyClient(Base) \/ ClientDestroyed(Base) \/ IfUp(Base)
  PROVE  Chain'
<1> DEFINE quiet == {Call("stop_in_loop", Connector)}
<1>1. /\ UNCHANGED <<conn, state_, channel_, retries, due>> /\ UNCHANGED loopVars
      /\ client' = "up" => client = "up" /\ connections_' \subseteq connections_
      /\ connected_' => connected_
  <2>1. CASE ClientStop(Base)
    BY <2>1 DEF ClientStop, restVars
  <2>2. CASE ClientDisconnect(Base) \/ DisconnectLocked(Base) \/ Unlock(Base)
    BY <2>2 DEF ClientDisconnect, DisconnectLocked, Unlock, restVars, connectorVars
  <2>3. CASE DestroyClient(Base) \/ ClientDestroyed(Base)
    BY <2>3 DEF DestroyClient, ClientDestroyed, restVars, connectorVars
  <2>4. CASE IfUp(Base)
    BY <2>4 DEF IfUp, Leaves, restVars, connectorVars, clientVars
  <2> QED
    BY <2>1, <2>2, <2>3, <2>4
<1>2. calls[Base] # <<>> /\ Head(calls[Base]) \notin Removals
  <2>1. ASSUME NEW fn, Executing(Base, fn, Client), fn # "remove_connection"
        PROVE  calls[Base] # <<>> /\ Head(calls[Base]) \notin Removals
    BY <2>1 DEF Executing, Removals, Call
  <2>2. CASE IfUp(Base)
    BY <2>2 DEF IfUp, Removals
  <2> QED
    BY <2>1, <2>2 DEF ClientStop, ClientDisconnect, DisconnectLocked, Unlock, DestroyClient,
       ClientDestroyed
<1>3. /\ quiet \in SUBSET AnyFunctor
      /\ \A c \in Conns : Call("connect_destroyed", c) \notin quiet
  BY DEF AnyFunctor, PlainFunctors, Call
<1>4. ASSUME NEW more \in Seq(MildCalls),
             \/ Return(Base, more)
             \/ ReturnQueueing(Base, more, Call("stop_in_loop", Connector))
      PROVE  Chain'
  <2>1. BaseReturns(more, quiet)
    <3>1. Call("stop_in_loop", Connector) \in quiet
      OBVIOUS
    <3>2. CASE Return(Base, more)
      BY <1>1, <1>2, <3>2 DEF BaseReturns, Return
    <3> HIDE DEF quiet
    <3>3. CASE ReturnQueueing(Base, more, Call("stop_in_loop", Connector))
      BY <1>1, <1>2, <3>1, <3>3, ByQueueing
    <3> QED
      BY <1>4, <3>2, <3>3
  <2> HIDE DEF quiet
  <2> QED
    BY <1>1, <1>2, <1>3, <2>1, MildCalm
<1>5. /\ <<>> \in Seq(MildCalls)
      /\ \A a \in MildCalls : <<a>> \in Seq(MildCalls)
      /\ \A a, b \in MildCalls : <<a, b>> \in Seq(MildCalls)
  BY EmptySeq
<1>6. CASE ClientStop(Base) \/ Unlock(Base) \/ ClientDestroyed(Base)
  BY <1>4, <1>5, <1>6 DEF ClientStop, Unlock, ClientDestroyed
<1>7. CASE ClientDisconnect(Base)
  <2>1. Call("disconnect_locked", Client) \in MildCalls
    BY DEF MildCalls, PlainCalls, Call
  <2> QED
    BY <1>4, <1>5, <1>7, <2>1 DEF ClientDisconnect
<1>8. CASE DisconnectLocked(Base)
  <2>1. CASE Return(Base, <<>>)
    BY <1>4, <1>5, <2>1
  <2>2. ASSUME NEW c \in connections_, Return(Base, <<Call("shutdown", c), Call("unlock", Client)>>)
        PROVE  Chain'
    <3>1. c \in Conns
      BY DEF ClientThreads, ConnsTyped
    <3>2. Call("shutdown", c) \in MildCalls
      BY <3>1 DEF MildCalls, PlainCalls, PlainFns, Ops, Call
    <3>3. Call("unlock", Client) \in MildCalls
      BY DEF MildCalls, Locks
    <3> QED
      BY <1>4, <1>5, <2>2, <3>2, <3>3
  <2> QED
    BY <1>8, <2>1, <2>2 DEF DisconnectLocked
<1>9. CASE IfUp(Base)
  <2>1. CASE Return(Base, <<>>)
    BY <1>4, <1>5, <2>1
  <2>2. CASE Return(Base, <<Call(Head(calls[Base]).c, Client)>>)
    <3>1. Head(calls[Base]) \in AnyCall /\ Head(calls[Base]).fn = "if_up"
      BY <1>2, <1>9, Names, HeadOrTail DEF IfUp, ClientThreads, CallsTyped
    <3>2. Head(calls[Base]).c \in PostedOps
      BY <3>1 DEF AnyCall, PlainCalls, PlainFns, Raw, Ops, Closers, Installs, Removals,
         Endings, Starts, Resets, Locks, Ends, Call
    <3>3. Call(Head(calls[Base]).c, Client) \in MildCalls
      BY <3>2, ClientAssumption DEF MildCalls, PlainCalls, Call
    <3> QED
      BY <1>4, <1>5, <2>2, <3>3
  <2> QED
    BY <1>9, <2>1, <2>2 DEF IfUp
<1>10. CASE DestroyClient(Base)
  <2> DEFINE S == {Call("force_close", c) : c \in connections_ \ kept}
             a == Call("destroyed", Client)
  <2>1. a \in MildCalls
    BY DEF MildCalls, Ends
  <2>2. Append(SetToSeq(S), a) \in Seq(MildCalls)
    <3>1. S \subseteq MildCalls
      BY DEF MildCalls, PlainCalls, PlainFns, Ops, Call, ClientThreads, ConnsTyped
    <3>2. \A x, y \in S : x = y
      BY DEF ClientThreads, ConnsTyped
    <3> HIDE DEF S, a
    <3>3. SetToSeq(S) \in Seq(MildCalls)
      BY <3>1, <3>2, ListedAlone, SeqMonotonic
    <3> QED
      BY <2>1, <3>3, AppendProperties
  <2>3. \/ ReturnQueueing(Base, <<a>>, Call("stop_in_loop", Connector))
        \/ Return(Base, Append(SetToSeq(S), a))
        \/ Return(Base, <<>>)
    BY <1>10 DEF DestroyClient
  <2> HIDE DEF S, a
  <2> QED
    BY <1>4, <1>5, <2>1, <2>2, <2>3
<1> QED
  BY <1>6, <1>7, <1>8, <1>9, <1>10

\* What callbacks call on their connection or on the client (which here is not connect()).
LEMMA CallbackChain ==
  ASSUME ClientThreads, Chain, NEW c \in Conns, NEW op,
         \/ op \in OwnOps /\ CallbackCallsConn(Base, c, op)
         \/ op \in ClientOps \ {"connect"} /\ CallbackCallsClient(Base, c, op)
  PROVE  Chain'
<1>1. calls[Base] # <<>> /\ Head(calls[Base]) \notin Removals
  <2>1. Executing(Base, "user", c)
    BY DEF CallbackCallsConn, CallbackCallsClient
  <2> QED
    BY <2>1 DEF Executing, Removals, Call
<1>2. CASE op \in OwnOps /\ CallbackCallsConn(Base, c, op)
  <2>1. (\E more : ConnReturns(c, more)) /\ Leaves
    BY <1>2, CallReturns DEF CallbackCallsConn
  <2> QED
    BY <1>1, <2>1, ConnReturnsChain
<1>3. CASE op \in ClientOps \ {"connect"} /\ CallbackCallsClient(Base, c, op)
  <2> DEFINE destroy == {Call("destroy", Client)}
  <2>1. UNCHANGED <<conn, connections_, loopVars, state_, channel_, retries, due, client, connected_>>
    BY <1>3 DEF CallbackCallsClient, restVars, Leaves, connectorVars, clientVars
  <2>2. /\ destroy \in SUBSET AnyFunctor
        /\ \A d \in Conns : Call("connect_destroyed", d) \notin destroy
    BY DEF AnyFunctor, PlainFunctors, Call
  <2>3. \E more \in Seq(MildCalls) : BaseReturns(more, destroy)
    <3>1. CASE op = "destroy"
      <4>1. ReturnQueueing(Base, <<>>, Call("destroy", Client))
        BY <1>3, <3>1 DEF CallbackCallsClient
      <4>2. Call("destroy", Client) \in destroy
        OBVIOUS
      <4> HIDE DEF destroy
      <4>3. BaseReturns(<<>>, destroy)
        BY <1>1, <2>1, <4>1, <4>2, ByQueueing
      <4> QED
        BY <4>3, EmptySeq
    <3>2. CASE op # "destroy"
      <4>1. Return(Base, <<Call(op, Client)>>)
        BY <1>3, <3>2 DEF CallbackCallsClient
      <4>2. Call(op, Client) \in MildCalls
        BY <1>3, <3>2, ClientAssumption DEF MildCalls, PlainCalls, Call
      <4>3. <<Call(op, Client)>> \in Seq(MildCalls)
        BY <4>2
      <4>4. BaseReturns(<<Call(op, Client)>>, destroy)
        BY <1>1, <2>1, <4>1 DEF BaseReturns, Return
      <4> QED
        BY <4>3, <4>4
    <3> QED
      BY <3>1, <3>2
  <2> HIDE DEF destroy
  <2> QED
    BY <1>1, <2>1, <2>2, <2>3, MildCalm
<1> QED
  BY <1>2, <1>3

-----------------------------------------------------------------------------
(* The loop, the user's functors and the kernel.                              *)

\* Steps that change none of what matters here, but perhaps queue what the user posts.
LEMMA WorldChain ==
  ASSUME ClientThreads, Chain,
         UNCHANGED <<conn, connections_, calls, functors, running, connectorVars, clientVars>>,
         \/ UNCHANGED queue_functors_
         \/ \E f \in PlainFunctors \ Endings :
              queue_functors_' = [queue_functors_ EXCEPT ![Base] = Append(@, f)]
  PROVE  Chain'
<1>1. /\ Less /\ Orderly' /\ connections_ \subseteq Conns
      /\ \A c \in Conns : Doomed(c)' => Doomed(c)
      /\ \A c \in Conns : Dropping(c) => Dropping(c)'
  <2>1. \A c \in Conns : Up(c) => Up(c)'
    BY DEF Up
  <2>2. Has(calls[Base], {Call("connect", Client)}) =>
           connected_' /\ \A u \in Users : Idle(u)'
    BY DEF clientVars, Chain, Orderly, Idle
  <2> QED
    BY <2>1, <2>2, BaseUntouched
<1>2. \A c \in Conns : Stays(c)
  BY DEF Stays, Up, Gone
<1>3. connected_' => connected_ /\ \A u \in Users : Outside(u)'
  BY DEF clientVars, Chain, Wished, Outside
<1>4. client' = "up" => /\ client = "up" /\ connections_' \subseteq connections_
                        /\ \A c \in connections_' : Dropping(c) => Dropping(c)'
  BY <1>1 DEF clientVars
<1> QED
  BY <1>1, <1>2, <1>3, <1>4, ChainCalm

\* A functor of the user, a timer, what happens in the kernel, and what poll() reports.
LEMMA OutsideChain ==
  ASSUME ClientThreads, Chain,
         \/ \E op \in PostedOps : UserPosts(op)
         \/ TimerExpires
         \/ KernelDoes
         \/ PollClient(Base)
  PROVE  Chain'
<1>1. ASSUME NEW op \in PostedOps, UserPosts(op) PROVE Chain'
  <2> DEFINE f == Call("if_up", op)
  <2>1. f \in PlainFunctors \ Endings
    BY DEF PlainFunctors, Endings, Call
  <2>2. /\ queue_functors_' = [queue_functors_ EXCEPT ![Base] = Append(@, f)]
        /\ UNCHANGED <<conn, connections_, calls, functors, running, connectorVars, clientVars>>
    BY <1>1 DEF UserPosts, Leaves, restVars, loopVars
  <2> HIDE DEF f
  <2> QED
    BY <2>1, <2>2, WorldChain
<1>2. CASE KernelDoes
  <2>1. UNCHANGED <<conn, connections_, queue_functors_, calls, functors, running,
                    connectorVars, clientVars>>
    BY <1>2 DEF KernelDoes, HandshakeEnds, PeerResetsEarly, PeerStep, PeerSends, PeerFinishes,
       PeerResets, PeerActs, Leaves, loopVars
  <2> QED
    BY <2>1, WorldChain
<1>3. CASE PollClient(Base)
  <2>1. \/ Abort("fill_active_channels")
        \/ UNCHANGED <<conn, connections_, queue_functors_, calls, functors, running>>
    BY <1>3 DEF PollClient, Poll
  <2>2. UNCHANGED <<connectorVars, clientVars>>
    BY <1>3 DEF PollClient, Leaves
  <2> QED
    BY <2>1, <2>2, WorldChain, AbortChain
<1> QED
  BY <1>1, <1>2, <1>3, ExpiresChain

\* The idle loop takes up calls, none of them of what there is once.
LEMMA FreshChain ==
  ASSUME ClientThreads, Chain, Idle(Base),
         UNCHANGED <<conn, connections_, connectorVars, clientVars>>,
         \A u \in Users : calls'[u] = calls[u],
         \A K \in {Starts, Installs, Removals, Closers} : ~Has(calls'[Base], K),
         \A c \in Conns : Doomed(c)' => Doomed(c)
  PROVE  Chain'
<1>1. \A K : ~Has(calls[Base], K)
  BY ShortStacks DEF Idle
<1>2. \A K, M : K \subseteq M /\ ~Has(calls'[Base], M) =>
        ~Has(calls'[Base], K) /\ Once(calls'[Base], K)
  BY DEF Has, HasFrom, Once, OnceFrom
<1>3. /\ ~Has(calls'[Base], Starts) /\ Once(calls'[Base], Starts)
      /\ Once(calls'[Base], Installs)
      /\ ~Has(calls'[Base], Closers) /\ Once(calls'[Base], Closers)
      /\ ~Has(calls'[Base], {Call("connect", Client)})
      /\ \A c \in Conns : /\ ~Has(calls'[Base], {Call("new_connection", c)})
                          /\ ~Has(calls'[Base], {Call("remove_connection", c)})
                          /\ Once(calls'[Base], {Call("remove_connection", c)})
  BY <1>2, Singles
<1>4. Less
  BY <1>3 DEF Less, Beginning, Adding, Dropping
<1>5. Orderly'
  BY <1>3 DEF Orderly
<1>6. \A c \in Conns : ~Dropping(c)
  BY <1>1 DEF Dropping
<1>7. \A c \in Conns : Stays(c)
  BY DEF Stays, Up, Gone
<1>8. connected_' => connected_ /\ \A u \in Users : Outside(u)'
  BY DEF clientVars, Chain, Wished, Outside
<1>9. connections_ \subseteq Conns
  BY DEF ClientThreads, ConnsTyped
<1>10. client' = "up" => /\ client = "up" /\ connections_' \subseteq connections_
                         /\ \A c \in connections_' : Dropping(c) => Dropping(c)'
  BY <1>6, <1>9 DEF clientVars
<1> QED
  BY <1>4, <1>5, <1>7, <1>8, <1>9, <1>10, ChainCalm

\* Plain calls, a functor or none are no such calls.
LEMMA PlainFresh ==
  ASSUME NEW s \in Seq(PlainCalls \cup Endings \cup Resets),
         NEW K \in {Starts, Installs, Removals, Closers}
  PROVE  ~Has(s, K)
<1>1. (PlainCalls \cup Endings \cup Resets) \cap K = {}
  <2>1. PlainCalls \cap K = {}
    BY Kinds
  <2>2. Endings \cap K = {} /\ Resets \cap K = {}
    BY DEF Endings, Resets, Starts, Installs, Removals, Closers, Call
  <2> QED
    BY <2>1, <2>2
<1> QED
  BY <1>1, Without

\* The base loop handles a connection's channel or the Connector's.
LEMMA HandleChain ==
  ASSUME ClientThreads, Chain, HandleConnector(Base) \/ (HandleEvent(Base) /\ Leaves)
  PROVE  Chain'
<1>1. ASSUME NEW s \in Seq(PlainCalls), Handling(Base), Dispatches(Base, s), Leaves
      PROVE  Chain'
  <2>1. /\ calls'[Base] = s /\ \A u \in Users : calls'[u] = calls[u]
        /\ UNCHANGED <<conn, connections_, queue_functors_, functors, running, connectorVars,
                       clientVars>>
    BY <1>1, Names DEF Dispatches, Leaves, ClientThreads, CallsTyped
  <2>2. s \in Seq(PlainCalls \cup Endings \cup Resets)
    BY <1>1, SeqMonotonic
  <2>3. \A K \in {Starts, Installs, Removals, Closers} : ~Has(calls'[Base], K)
    BY <2>1, <2>2, PlainFresh
  <2>4. \A c \in Conns : ~Has(s, {Call("connect_destroyed", c)})
    <3> SUFFICES ASSUME NEW c \in Conns PROVE ~Has(s, {Call("connect_destroyed", c)})
      OBVIOUS
    <3>1. PlainCalls \cap {Call("connect_destroyed", c)} = {}
      BY Kinds, Singles
    <3> QED
      BY <1>1, <3>1, Without
  <2>5. \A c \in Conns : Doomed(c)' => Doomed(c)
    BY <2>1, <2>4 DEF Doomed, DoomedBy
  <2>6. Idle(Base)
    BY <1>1 DEF Handling
  <2> QED
    BY <2>1, <2>3, <2>5, <2>6, FreshChain
<1>2. CASE HandleConnector(Base)
  <2> DEFINE H == {"handle_error", "handle_write"}
             handlers == Dispatch(NextActive(Base).events \cap {"ERR", "OUT"})
             s == [i \in 1..Len(handlers) |-> Call(handlers[i], Connector)]
  <2>1. handlers \in Seq(H)
    BY DispatchHandlers
  <2>2. Handling(Base) /\ Dispatches(Base, s) /\ Leaves
    BY <1>2 DEF HandleConnector
  <2> HIDE DEF handlers
  <2>3. \A i \in 1..Len(handlers) : handlers[i] \in H
    BY <2>1, ElementOfSeq
  <2>4. \A h \in H : Call(h, Connector) \in PlainCalls
    BY DEF Call, PlainCalls
  <2>5. Len(handlers) \in Nat
    BY <2>1, LenProperties
  <2>6. s \in Seq(PlainCalls)
    BY <2>3, <2>4, <2>5
  <2> QED
    BY <1>1, <2>2, <2>6
<1>3. CASE HandleEvent(Base) /\ Leaves /\ ~Alive(NextActive(Base).c)
  BY <1>3, AbortChain DEF HandleEvent, Leaves
<1>4. CASE HandleEvent(Base) /\ Leaves /\ Alive(NextActive(Base).c)
  <2>1. PICK c \in Conns : c = NextActive(Base).c
    BY <1>4 DEF HandleEvent
  <2> DEFINE handlers == Dispatch(NextActive(Base).events)
             H == {"handle_close", "handle_error", "handle_read", "handle_write"}
             s == [i \in 1..Len(handlers) |-> Call(handlers[i], c)]
  <2>2. handlers \in Seq(H)
    BY DispatchHandlers
  <2>3. Handling(Base) /\ Dispatches(Base, s) /\ Leaves
    BY <1>4, <2>1 DEF HandleEvent
  <2> HIDE DEF handlers
  <2>4. \A i \in 1..Len(handlers) : handlers[i] \in H
    BY <2>2, ElementOfSeq
  <2>5. \A h \in H : Call(h, c) \in PlainCalls
    BY DEF Call, PlainCalls, PlainFns
  <2>6. Len(handlers) \in Nat
    BY <2>2, LenProperties
  <2>7. s \in Seq(PlainCalls)
    BY <2>4, <2>5, <2>6
  <2> QED
    BY <1>1, <2>3, <2>7
<1> QED
  BY <1>2, <1>3, <1>4

\* The retry timer, of which there is one, expires: an attempt begins.
LEMMA TimersChain ==
  ASSUME ClientThreads, Chain, HandleTimers(Base)
  PROVE  Chain'
<1> DEFINE a == Call("start_in_loop", Connector)
           s == [i \in 1..due |-> a]
<1>1. /\ Idle(Base) /\ due' = 0 /\ calls' = [calls EXCEPT ![Base] = s]
      /\ UNCHANGED <<conn, connections_, queue_functors_, functors, running, state_, channel_,
                     retries, clientVars>>
  BY DEF HandleTimers, Handling, Dispatches
<1>2. calls'[Base] = s /\ \A u \in Users : calls'[u] = calls[u]
  BY <1>1, Names DEF ClientThreads, CallsTyped
<1>3. retries \in Nat /\ due \in Nat /\ retries + due <= 1
  BY DEF ClientThreads, ClientTyped, Chain, Exclusive
<1>4. ASSUME NEW K
      PROVE  (Has(s, K) => a \in K /\ due > 0) /\ Once(s, K)
  <2>1. due = 0 \/ due = 1
    BY <1>3
  <2>2. Len(s) = due /\ \A i \in 1..due : s[i] = a
    BY <1>3
  <2> HIDE DEF s
  <2>3. Len(s) \in Nat
    BY <1>3, <2>2
  <2>4. /\ Has(s, K) <=> \E i \in 1..Len(s) : s[i] \in K
        /\ Once(s, K) <=> \A i, j \in 1..Len(s) : s[i] \in K /\ s[j] \in K => i = j
    BY <2>3, HasAt
  <2>5. \A i, j \in 1..due : i = j /\ due > 0
    BY <2>1
  <2> QED
    BY <2>2, <2>4, <2>5
<1> HIDE DEF s
<1>5. /\ a \notin Closers /\ a # Call("connect", Client)
      /\ \A c \in Conns : /\ a # Call("new_connection", c) /\ a # Call("remove_connection", c)
                          /\ a # Call("connect_destroyed", c)
  BY DEF Closers, Call
<1> HIDE DEF a
<1>6. /\ Beginning' => due > 0
      /\ ~Has(calls'[Base], Closers) /\ ~Has(calls'[Base], {Call("connect", Client)})
      /\ \A c \in Conns : /\ ~Adding(c)' /\ ~Dropping(c)'
                          /\ Doomed(c)' => Doomed(c)
  <2>1. /\ Beginning' => due > 0
        /\ ~Has(calls'[Base], Closers) /\ ~Has(calls'[Base], {Call("connect", Client)})
    BY <1>2, <1>4, <1>5 DEF Beginning
  <2>2. ASSUME NEW c \in Conns
        PROVE  ~Adding(c)' /\ ~Dropping(c)' /\ (Doomed(c)' => Doomed(c))
    <3>1. ~Adding(c)' /\ ~Dropping(c)'
      BY <1>2, <1>4, <1>5 DEF Adding, Dropping
    <3>2. ~Has(calls'[Base], {Call("connect_destroyed", c)})
      BY <1>2, <1>4, <1>5
    <3> QED
      BY <1>1, <3>1, <3>2 DEF Doomed, DoomedBy
  <2> QED
    BY <2>1, <2>2
<1>7. \A c \in Conns : (Up(c)' <=> Up(c)) /\ (Gone(c)' <=> Gone(c)) /\ ~Dropping(c)
  <2>1. ASSUME NEW c \in Conns PROVE ~Dropping(c)
    BY <1>1, ShortStacks DEF Idle, Dropping
  <2> QED
    BY <1>1, <2>1 DEF Up, Gone
<1>8. (Waits' => Waits /\ due = 0) /\ (Trying' <=> Trying) /\ (due > 0 => Waits)
  BY <1>1, <1>3 DEF Waits, Trying
<1>9. Exclusive'
  <2>1. /\ \A c, d \in Conns : Up(c) /\ Up(d) => c = d
        /\ Waits => ~Trying
        /\ Waits \/ Trying => \A c \in Conns : ~Up(c)
    BY DEF Chain, Exclusive, Live
  <2>2. retries' + due' <= 1
    BY <1>1, <1>3
  <2>3. Waits' => ~Beginning'
    BY <1>3, <1>6, <1>8
  <2> QED
    BY <1>6, <1>7, <1>8, <2>1, <2>2, <2>3 DEF Exclusive, Live
<1>10. Orderly'
  <2>1. /\ Once(calls'[Base], Starts) /\ Once(calls'[Base], Installs)
        /\ Once(calls'[Base], Closers)
    BY <1>2, <1>4
  <2> QED
    BY <1>6, <2>1 DEF Orderly
<1>11. Held'
  <2>1. \A c \in Conns : Trying' /\ channel_'.fd = c => conn'[c].state = "none"
    BY <1>1, <1>8 DEF Chain, Held
  <2>2. \A c \in Conns : Doomed(c)' => Gone(c)'
    BY <1>6, <1>7 DEF Chain, Held
  <2>3. client' = "up" => \A c \in connections_' : Up(c)'
    BY <1>1, <1>7 DEF Chain, Held, clientVars, ClientThreads, ConnsTyped
  <2> QED
    BY <1>6, <2>1, <2>2, <2>3 DEF Held
<1>12. Wished'
  BY <1>1, <1>2, <1>6 DEF Chain, Wished, Outside, clientVars
<1> QED
  BY <1>9, <1>10, <1>11, <1>12 DEF Chain

\* do_queued_functors: what is doomed stays so until it is called.
LEMMA BatchChain ==
  ASSUME ClientThreads, Chain, SwapQueue(Base) \/ RunFunctor(Base) \/ FunctorsDone(Base), Leaves
  PROVE  Chain'
<1> DEFINE q == queue_functors_[Base]
           b == functors[Base]
           n == running[Base]
           k == n + 1
           f == b[n + 1]
           s == <<f>>
<1>1. /\ q \in Seq(AnyFunctor) /\ b \in Seq(AnyFunctor) /\ Len(b) \in Nat /\ n \in Nat
      /\ UNCHANGED <<connectorVars, clientVars>>
  BY Names, LenProperties DEF ClientThreads, QueuesTyped, LoopsTyped, Leaves
<1>2. Idle(Base) /\ calls[Base] = <<>> /\ \A K : ~Has(<<>>, K)
  <2>1. Idle(Base)
    BY DEF SwapQueue, RunFunctor, FunctorsDone
  <2>2. \A K : ~Has(<<>>, K)
    BY ShortStacks
  <2> QED
    BY <2>1, <2>2 DEF Idle
<1>3. CASE SwapQueue(Base)
  <2>1. /\ functors'[Base] = q /\ running'[Base] = 0 /\ queue_functors_'[Base] = <<>>
        /\ UNCHANGED <<conn, connections_, calls>>
    BY <1>3, Names DEF SwapQueue, ClientThreads, LoopsTyped, QueuesTyped
  <2>2. \A c \in Conns : Doomed(c)' => Doomed(c)
    BY <1>2, <2>1 DEF Doomed, DoomedBy, Has
  <2>3. \A K \in {Starts, Installs, Removals, Closers} : ~Has(calls'[Base], K)
    BY <1>2, <2>1
  <2>4. \A u \in Users : calls'[u] = calls[u]
    BY <2>1
  <2> QED
    BY <1>1, <1>2, <2>1, <2>2, <2>3, <2>4, FreshChain
<1>4. CASE RunFunctor(Base)
  <2>1. CASE Abort("use_after_free")
    BY <1>1, <2>1, AbortChain
  <2>2. CASE /\ running' = [running EXCEPT ![Base] = @ + 1]
             /\ calls' = [calls EXCEPT ![Base] = <<f>>]
             /\ UNCHANGED <<conn, connections_, queue_functors_, functors>>
    <3>1. n < Len(b) /\ running'[Base] = k
      BY <1>4, <2>2, Names DEF RunFunctor, ClientThreads, LoopsTyped
    <3> HIDE DEF k
    <3>2. ASSUME NEW K
          PROVE  f \in AnyFunctor /\ (HasFrom(b, n, K) <=> f \in K \/ HasFrom(b, k, K))
      <4> HIDE DEF b, n
      <4> QED
        BY <1>1, <3>1, Advance DEF k
    <3> HIDE DEF f
    <3>3. \A K : Has(s, K) <=> f \in K
      BY ShortStacks
    <3>4. s \in Seq(PlainCalls \cup Endings \cup Resets)
      <4>1. f \in PlainCalls \cup Endings \cup Resets
        BY <3>2, Kinds DEF AnyFunctor
      <4> QED
        BY <4>1
    <3>5. calls'[Base] = s /\ \A u \in Users : calls'[u] = calls[u]
      BY <2>2, Names DEF ClientThreads, CallsTyped
    <3> HIDE DEF s
    <3>6. \A K \in {Starts, Installs, Removals, Closers} : ~Has(calls'[Base], K)
      BY <3>4, <3>5, PlainFresh
    <3>7. ASSUME NEW c \in Conns, Doomed(c)' PROVE Doomed(c)
      <4> DEFINE K == {Call("connect_destroyed", c)}
      <4>1. \/ Has(s, K) \/ HasFrom(b, k, K) \/ Has(q, K)
        BY <2>2, <3>1, <3>5, <3>7 DEF Doomed, DoomedBy
      <4> HIDE DEF K
      <4>2. HasFrom(b, n, K) \/ Has(q, K)
        BY <3>2, <3>3, <4>1
      <4> QED
        BY <4>2 DEF Doomed, DoomedBy, K
    <3> QED
      BY <1>1, <1>2, <2>2, <3>5, <3>6, <3>7, FreshChain
  <2> QED
    BY <1>4, <2>1, <2>2 DEF RunFunctor
<1>5. CASE FunctorsDone(Base)
  <2>1. /\ functors'[Base] = <<>> /\ running'[Base] = 0
        /\ UNCHANGED <<queue_functors_, conn, connections_, calls>>
    BY <1>5, Names DEF FunctorsDone, ClientThreads, LoopsTyped
  <2>2. \A c \in Conns : Doomed(c)' => Doomed(c)
    BY <1>2, <2>1 DEF Doomed, DoomedBy, Has
  <2>3. \A K \in {Starts, Installs, Removals, Closers} : ~Has(calls'[Base], K)
    BY <1>2, <2>1
  <2>4. \A u \in Users : calls'[u] = calls[u]
    BY <2>1
  <2> QED
    BY <1>1, <1>2, <2>1, <2>2, <2>3, <2>4, FreshChain
<1> QED
  BY <1>3, <1>4, <1>5

-----------------------------------------------------------------------------
(* The second invariant holds, and with it OneAttempt.                        *)

\* It holds when the owner is about to call connect().
LEMMA ChainInitially ==
  ASSUME Init
  PROVE  Chain
<1> DEFINE a == Call("connect", Client)
<1>1. /\ calls[Base] = <<a>> /\ \A u \in Users : calls[u] = <<>>
      /\ \A c \in Conns : conn[c].state = "none"
      /\ retries = 0 /\ due = 0 /\ state_ = "DISCONNECTED" /\ connected_ = TRUE
      /\ connections_ = {}
  BY Names DEF Init, ConnInit, NewConn
<1>2. functors[Base] = <<>> /\ running[Base] = 0 /\ queue_functors_[Base] = <<>>
  BY Names DEF Init, ConnInit
<1>3. /\ a \notin Closers
      /\ \A c \in Conns : /\ a # Call("new_connection", c) /\ a # Call("remove_connection", c)
                          /\ a # Call("connect_destroyed", c)
  BY DEF Closers, Call
<1>4. ASSUME NEW K
      PROVE  (Has(<<a>>, K) <=> a \in K) /\ Once(<<a>>, K) /\ ~Has(<<>>, K) /\ ~HasFrom(<<>>, 0, K)
  BY ShortStacks DEF Has
<1> HIDE DEF a
<1>5. \A c \in Conns : ~Up(c) /\ ~Adding(c) /\ ~Dropping(c) /\ ~Doomed(c)
  <2> SUFFICES ASSUME NEW c \in Conns PROVE ~Up(c) /\ ~Adding(c) /\ ~Dropping(c) /\ ~Doomed(c)
    OBVIOUS
  <2>1. ~Up(c)
    BY <1>1 DEF Up
  <2>2. ~Adding(c) /\ ~Dropping(c)
    BY <1>1, <1>3, <1>4 DEF Adding, Dropping
  <2>3. ~Doomed(c)
    BY <1>1, <1>2, <1>3, <1>4 DEF Doomed, DoomedBy
  <2> QED
    BY <2>1, <2>2, <2>3
<1>6. ~Waits /\ ~Trying /\ retries + due <= 1
  BY <1>1 DEF Waits, Trying
<1>7. Exclusive
  BY <1>5, <1>6 DEF Exclusive, Live
<1>8. Orderly
  <2>1. ~Has(calls[Base], Closers) /\ \A K : Once(calls[Base], K)
    BY <1>1, <1>3, <1>4
  <2>2. calls[Base] = <<Call("connect", Client)>> /\ connected_ /\ \A u \in Users : Idle(u)
    BY <1>1 DEF Idle, a
  <2> QED
    BY <2>1, <2>2 DEF Orderly
<1>9. Held
  BY <1>1, <1>5, <1>6 DEF Held
<1>10. Wished
  BY <1>1, <1>5 DEF Wished, Outside
<1> QED
  BY <1>7, <1>8, <1>9, <1>10 DEF Chain

\* Every step keeps it, if callbacks do not call connect().
LEMMA ChainInductive ==
  ASSUME "connect" \notin ClientOps, ClientThreads, Chain, [Next]_vars
  PROVE  Chain'
<1>1. CASE UNCHANGED vars
  <2>1. UNCHANGED <<conn, connections_, calls, functors, running, queue_functors_,
                    connectorVars, clientVars>>
    BY <1>1 DEF vars, connVars, loopVars
  <2> QED
    BY <2>1, WorldChain
<1>2. ASSUME NEW x \in Threads, NEW fn, NEW c, Executing(x, fn, c),
             fn \notin {"disconnect", "disconnect_locked", "unlock", "shutdown", "post_shutdown"}
      PROVE  x = Base
  BY <1>2, OnBase DEF ClientThreads
<1>3. ASSUME NEW x \in Threads, NEW fn, NEW c, Executing(x, fn, c) PROVE x = Base \/ x \in Users
  BY <1>3, OnBase DEF ClientThreads
<1>4. ASSUME NEW x \in Threads, aborted = "no", ConnStep(x), Leaves PROVE Chain'
  <2>1. PICK c \in Conns :
          \/ ConnectEstablished(x, c) \/ HandleRead(x, c) \/ HandleError(x, c)
          \/ HandleWrite(x, c) \/ HandleWritten(x, c) \/ HandleClose(x, c)
          \/ ConnectDestroyed(x, c) \/ RemoveChannel(x, c) \/ SendInLoop(x, c)
          \/ QueueOutputCallback(x, c) \/ OutputCallback(x, c) \/ ShutdownInLoop(x, c)
          \/ ForceCloseInLoop(x, c) \/ StartReadInLoop(x, c) \/ StopReadInLoop(x, c)
          \/ TestState(x, c) \/ Post(x, c) \/ UserReturns(x, c)
    BY <1>4 DEF ConnStep
  <2>2. CASE TestState(x, c) \/ Post(x, c)
    <3>1. x = Base \/ x \in Users
      BY <1>3, <2>2 DEF TestState, Post
    <3> QED
      BY <1>4, <2>2, <3>1, ConnStepChain, ShutdownChain
  <2>3. CASE ~(TestState(x, c) \/ Post(x, c))
    <3>1. x = Base
      BY <1>2, <2>1, <2>3 DEF ConnectEstablished, HandleRead, HandleError, HandleWrite,
         HandleWritten, HandleClose, ConnectDestroyed, RemoveChannel, SendInLoop,
         QueueOutputCallback, OutputCallback, ShutdownInLoop,
         ForceCloseInLoop, StartReadInLoop, StopReadInLoop, UserReturns
    <3> QED
      BY <1>4, <3>1, ConnStepChain
  <2> QED
    BY <2>2, <2>3
<1>5. ASSUME NEW x \in Threads, ConnectorStep(x) PROVE Chain'
  <2>1. CASE UseAfterFree(x)
    BY <2>1, AbortChain DEF UseAfterFree
  <2>2. CASE ~UseAfterFree(x)
    <3>1. x = Base
      BY <1>2, <1>5, <2>2 DEF ConnectorStep, StartInLoop, StopInLoop, ResetChannel,
         ConnectorWrite, ConnectorError, ConnectorCall
    <3> QED
      BY <1>5, <3>1, ConnectorChain
  <2> QED
    BY <2>1, <2>2
<1>6. ASSUME NEW x \in Threads, ClientStep(x) PROVE Chain'
  <2>1. CASE ClientDisconnect(x) \/ DisconnectLocked(x) \/ Unlock(x)
    <3>1. x = Base \/ x \in Users
      BY <1>3, <2>1 DEF ClientDisconnect, DisconnectLocked, Unlock
    <3> QED
      BY <2>1, <3>1, ClientChain, ThreadsChain
  <2>2. CASE IfUp(x)
    <3>1. Head(calls[x]).fn = "if_up" /\ calls[x] # <<>>
      BY <2>2 DEF IfUp
    <3>2. Head(calls[x]) \in AnyCall
      BY <3>1, HeadOrTail DEF ClientThreads, CallsTyped
    <3>3. \E c : Head(calls[x]) = Call("if_up", c)
      BY <3>1, <3>2 DEF AnyCall, PlainCalls, Closers, Installs, Removals, Endings,
         Starts, Resets, Locks, Ends, Call
    <3>4. x = Base
      BY <1>2, <3>1, <3>3 DEF Executing
    <3> QED
      BY <2>2, <3>4, ClientChain
  <2>3. CASE ClientConnect(x) \/ ClientStop(x)
    BY <1>2, <2>3, ConnectChain, ClientChain DEF ClientConnect, ClientStop
  <2>4. CASE DestroyClient(x) \/ ClientDestroyed(x)
    BY <1>2, <2>4, ClientChain DEF DestroyClient, ClientDestroyed
  <2>5. ASSUME NEW c \in Conns, NewConnection(x, c) \/ RemoveConnection(x, c) PROVE Chain'
    <3>1. x = Base
      BY <1>2, <2>5 DEF NewConnection, RemoveConnection
    <3> QED
      BY <2>5, <3>1, NewChain, RemoveChain
  <2> QED
    BY <1>6, <2>1, <2>2, <2>3, <2>4, <2>5 DEF ClientStep
<1>7. CASE Loop
  BY <1>7, OutsideChain, HandleChain, TimersChain, BatchChain DEF Loop, LoopStep
<1>8. CASE TimerExpires \/ KernelDoes
  BY <1>8, OutsideChain
<1>9. CASE UserDoes
  <2>1. ASSUME NEW x \in Threads, NEW c \in Conns, NEW op,
               \/ op \in OwnOps /\ CallbackCallsConn(x, c, op)
               \/ op \in ClientOps \ {"connect"} /\ CallbackCallsClient(x, c, op)
        PROVE  Chain'
    <3>1. x = Base
      BY <1>2, <2>1 DEF CallbackCallsConn, CallbackCallsClient
    <3> QED
      BY <2>1, <3>1, CallbackChain
  <2>2. \A op \in ClientOps : op \in ClientOps \ {"connect"}
    OBVIOUS
  <2> QED
    BY <1>9, <2>1, <2>2, OutsideChain, ThreadsChain DEF UserDoes
<1> QED
  BY <1>1, <1>4, <1>5, <1>6, <1>7, <1>8, <1>9 DEF Next, Continue

\* What excludes each other adds up to one at most.
LEMMA ChainCounts ==
  ASSUME ClientThreads, Chain
  PROVE  ClientInv
<1> DEFINE starts == {i \in 1..Len(calls[Base]) : calls[Base][i].fn = "start_in_loop"}
           open   == {c \in Conns : conn[c].state = "CONNECTING" \/ Open(c)}
<1>1. \A c \in open : c \in Conns /\ Live(c)
  BY DEF Open, Live, Up
<1>2. \A i, j \in starts : i = j /\ Beginning
  <2>1. calls[Base] \in Seq(AnyCall) /\ Len(calls[Base]) \in Nat
    BY Names, LenProperties DEF ClientThreads, CallsTyped
  <2>2. \A i \in starts : calls[Base][i] \in Starts
    <3> SUFFICES ASSUME NEW i \in 1..Len(calls[Base]), calls[Base][i].fn = "start_in_loop"
                 PROVE  calls[Base][i] \in Starts
      OBVIOUS
    <3>1. calls[Base][i] \in AnyCall
      BY <2>1, ElementOfSeq
    <3> QED
      BY <3>1 DEF AnyCall, PlainCalls, PlainFns, Raw, Ops, Closers, Installs, Removals,
         Endings, Starts, Resets, Locks, Ends, Call
  <2>3. /\ Has(calls[Base], Starts) <=> \E i \in 1..Len(calls[Base]) : calls[Base][i] \in Starts
        /\ \A i, j \in 1..Len(calls[Base]) :
             calls[Base][i] \in Starts /\ calls[Base][j] \in Starts => i = j
    BY <2>1, HasAt DEF Chain, Orderly
  <2> QED
    BY <2>2, <2>3 DEF Beginning
<1> HIDE DEF starts, open
<1>3. ASSUME NEW S, \A a, b \in S : a = b
      PROVE  Cardinality(S) = IF S = {} THEN 0 ELSE 1
  <2>1. CASE S = {}
    BY <2>1, FS_EmptySet
  <2>2. ASSUME NEW a \in S PROVE Cardinality(S) = IF S = {} THEN 0 ELSE 1
    <3>1. S = {a}
      BY <1>3
    <3> QED
      BY <3>1, FS_Singleton
  <2> QED
    BY <2>1, <2>2
<1>4. \A c, d \in open : c = d
  BY <1>1 DEF Chain, Exclusive
<1>5. /\ Cardinality(starts) = IF starts = {} THEN 0 ELSE 1
      /\ Cardinality(open) = IF open = {} THEN 0 ELSE 1
  BY <1>2, <1>3, <1>4
<1>6. /\ retries \in Nat /\ due \in Nat /\ retries + due <= 1
      /\ retries + due > 0 => ~Trying /\ starts = {} /\ open = {}
      /\ Trying => starts = {} /\ open = {}
      /\ starts # {} => open = {}
  BY <1>1, <1>2 DEF Chain, Exclusive, Waits, ClientThreads, ClientTyped
<1>7. retries + due + Cardinality(starts) + (IF Trying THEN 1 ELSE 0) + Cardinality(open) <= 1
  BY <1>5, <1>6
<1>8. OneAttempt
  BY <1>7 DEF OneAttempt, starts, open
<1> QED
  BY <1>8, ThreadsTyped DEF ClientInv

\* Whatever the peers, the timers and the other threads do, and however often it starts
\* over, a client whose user calls connect() once has one retry timer, one attempt or
\* one connection at a time, and never two of them (tcp_client.cpp, connector.cpp).
THEOREM OneAttemptAtATime ==
  ASSUME "connect" \notin ClientOps
  PROVE  Spec => []ClientInv
<1>1. Init => ClientThreads /\ Chain
  BY ThreadsInitially, ChainInitially
<1>2. ClientThreads /\ Chain /\ [Next]_vars => (ClientThreads /\ Chain)'
  BY ThreadsInductive, ChainInductive
<1>3. ClientThreads /\ Chain => ClientInv
  BY ChainCounts
<1> QED
  BY <1>1, <1>2, <1>3, PTL DEF Spec
=============================================================================
