----------------------------- MODULE TimerQueue -----------------------------
(***************************************************************************)
(* net/src/timer_queue.cpp, timerid.cpp and sys_timerfd.cpp: the timers of a *)
(* loop.  They are added and cancelled by the loop's thread, at once, and by  *)
(* other threads, through the loop's functors; they run in rounds when the   *)
(* timerfd expires.                                                          *)
(*                                                                         *)
(* Time is relative: an expiration is the number of ticks that are left.     *)
(***************************************************************************)
EXTENDS Integers, Sequences

CONSTANTS
  Addrs,         \* where a Timer may be allocated; an address is used again
  Delays,        \* the time from now to the first expiration
  Intervals,     \* interval_ms_ of a Timer; 0: it does not repeat
  MaxInterval,   \* the longest of them
  IntRange,      \* the number of values of an int, in ticks
  MaxCreated,    \* bound: timers created
  MaxQueue,      \* bound: functors queued by other threads
  SharesIds      \* callbacks cancel timers that other threads have only posted yet

ASSUME TimerAssumption ==
  /\ Delays \subseteq Nat /\ MaxInterval \in Nat /\ Intervals \subseteq 0..MaxInterval
  /\ IntRange \in Nat \ {0} /\ MaxCreated \in Nat /\ MaxQueue \in Nat
  /\ SharesIds \in BOOLEAN

VARIABLES
  allocated, heap,     \* the addresses of living Timers, and their fields
  num_created_timers_, \* the next sequence number
  timers_,             \* the addresses in it; an entry's time is its Timer's
  active_timers_,      \* pairs of an address and a sequence number
  cancel_timers_,
  run_expired_timers_,
  expired, todo,       \* handle_read's list, and its part that did not run yet
  age,                 \* ticks since the round's now
  alarm,               \* ticks until the timerfd expires, 0: it is readable, Off
  reported,            \* the poll returned the timerfd, handle_read is to come
  functors,            \* add_timer_in_loop and cancel_timer_in_loop, queued
  ids,                 \* history: the TimerIds that were returned
  cancelled,           \* history: those whose cancel was carried out
  over                 \* history: those that do not repeat and ran

roundVars == <<run_expired_timers_, expired, todo, age, reported>>
vars == <<allocated, heap, num_created_timers_, timers_, active_timers_, cancel_timers_,
          alarm, functors, ids, cancelled, over, roundVars>>

Off == -1

\* The fields of a Timer; the memory of a deleted one is blank.
Timer(seq, left, interval) ==
  [sequence_ |-> seq, expiration_ |-> left, interval_ms_ |-> interval]
Blank == Timer(-1, 0, 0)

\* The TimerId, or ActiveTimer, of the Timer at a.
Id(a) == [timer |-> a, sequence |-> heap[a].sequence_]

Init ==
  /\ allocated = {} /\ heap = [a \in Addrs |-> Blank] /\ num_created_timers_ = 0
  /\ timers_ = {} /\ active_timers_ = {} /\ cancel_timers_ = {}
  /\ run_expired_timers_ = FALSE /\ expired = {} /\ todo = {} /\ age = 0
  /\ alarm = Off /\ reported = FALSE /\ functors = <<>>
  /\ ids = {} /\ cancelled = {} /\ over = {}

-----------------------------------------------------------------------------
(* The timerfd.                                                             *)

AtLeast(n, d) == IF d < n THEN n ELSE d
AtMost(n, d)  == IF d > n THEN n ELSE d

\* time_from_now: the difference becomes an int.
Narrowed(d) ==
  LET low == d % IntRange IN IF 2 * low >= IntRange THEN low - IntRange ELSE low

\* reset_timerfd: at least one tick; a negative time is refused, zero disarms.
Armed(left) ==
  LET ticks == Narrowed(AtLeast(1, left))
  IN IF ticks < 0 THEN alarm ELSE IF ticks = 0 THEN Off ELSE ticks

-----------------------------------------------------------------------------
(* add_timer.                                                               *)

\* new Timer(...), with the TimerId that is returned.
New(a, left, interval) ==
  /\ num_created_timers_ < MaxCreated /\ a \notin allocated
  /\ allocated' = allocated \cup {a}
  /\ heap' = [heap EXCEPT ![a] = Timer(num_created_timers_, left, interval)]
  /\ num_created_timers_' = num_created_timers_ + 1
  /\ ids' = ids \cup {[timer |-> a, sequence |-> num_created_timers_]}

\* What insert returns for a Timer that expires in left ticks: whether it is earlier than
\* all of timers_.  Among those that are overdue nothing is known.
EarliestChanged(left) ==
  IF \A b \in timers_ : left < heap[b].expiration_ THEN {TRUE}
  ELSE IF left = 0 THEN BOOLEAN ELSE {FALSE}

\* Mutant: the timerfd is set only if nothing else waits.
InsertArmsFirst(a, id, left) ==
  /\ timers_' = timers_ \cup {a}
  /\ active_timers_' = active_timers_ \cup {id}
  /\ alarm' = IF timers_ = {} THEN Armed(left) ELSE alarm

\* add_timer_in_loop with insert.
Insert(a, id, left) ==
  /\ timers_' = timers_ \cup {a}
  /\ active_timers_' = active_timers_ \cup {id}
  /\ \E earliest_changed \in EarliestChanged(left) :
       alarm' = IF earliest_changed THEN Armed(left) ELSE alarm

\* The loop's thread is in a callback: of a timer, if a round is under way, or another.
InCallback == run_expired_timers_ => todo # expired

\* What the EventLoop makes of run_at and run_after, and of run_every: a Timer that
\* repeats first expires after its interval.
Requested(left, interval) == interval \in {0, left}

\* run_at, run_after or run_every on the loop's thread.
AddOwn(a, left, interval) ==
  /\ InCallback /\ Requested(left, interval)
  /\ New(a, left, interval)
  /\ Insert(a, [timer |-> a, sequence |-> num_created_timers_], left)
  /\ UNCHANGED <<cancel_timers_, functors, cancelled, over, roundVars>>

\* The same on another thread.  add_timer reads the sequence number after it posted the
\* functor: here the caller has returned before its Timer runs.
AddForeign(a, left, interval) ==
  /\ Len(functors) < MaxQueue /\ Requested(left, interval)
  /\ New(a, left, interval)
  /\ functors' = Append(functors, [fn |-> "add_timer_in_loop",
                          id |-> [timer |-> a, sequence |-> num_created_timers_]])
  /\ UNCHANGED <<timers_, active_timers_, cancel_timers_, alarm, cancelled, over, roundVars>>

-----------------------------------------------------------------------------
(* cancel.                                                                  *)

Delete(S) ==
  /\ allocated' = allocated \ S
  /\ heap' = [a \in Addrs |-> IF a \in S THEN Blank ELSE heap[a]]

\* Mutants: the sequence number is not compared; a timer of the round is not noted.
CancelByAddress(id) ==
  /\ \/ /\ \E i \in active_timers_ : i.timer = id.timer
        /\ timers_' = timers_ \ {id.timer}
        /\ active_timers_' = {i \in active_timers_ : i.timer # id.timer}
        /\ Delete({id.timer})
        /\ UNCHANGED cancel_timers_
     \/ /\ \A i \in active_timers_ : i.timer # id.timer
        /\ cancel_timers_' = IF run_expired_timers_ THEN cancel_timers_ \cup {id}
                             ELSE cancel_timers_
        /\ UNCHANGED <<timers_, active_timers_, allocated, heap>>
  /\ cancelled' = cancelled \cup {id}

CancelUnnoted(id) ==
  /\ \/ /\ id \in active_timers_
        /\ timers_' = timers_ \ {id.timer}
        /\ active_timers_' = active_timers_ \ {id}
        /\ Delete({id.timer})
     \/ /\ id \notin active_timers_
        /\ UNCHANGED <<timers_, active_timers_, allocated, heap>>
  /\ cancelled' = cancelled \cup {id}
  /\ UNCHANGED cancel_timers_

\* cancel_timer_in_loop.
CancelInLoop(id) ==
  /\ \/ /\ id \in active_timers_
        /\ timers_' = timers_ \ {id.timer}
        /\ active_timers_' = active_timers_ \ {id}
        /\ Delete({id.timer})
        /\ UNCHANGED cancel_timers_
     \/ /\ id \notin active_timers_ /\ run_expired_timers_
        /\ cancel_timers_' = cancel_timers_ \cup {id}
        /\ UNCHANGED <<timers_, active_timers_, allocated, heap>>
     \/ /\ id \notin active_timers_ /\ ~run_expired_timers_
        /\ UNCHANGED <<timers_, active_timers_, cancel_timers_, allocated, heap>>
  /\ cancelled' = cancelled \cup {id}

\* The Timers on their way to the loop.
Posted == {i \in 1..Len(functors) : functors[i].fn = "add_timer_in_loop"}
Queued == {functors[i].id : i \in Posted}

CancelOwn(id) ==
  /\ InCallback /\ id \in ids
  /\ SharesIds \/ id \notin Queued
  /\ CancelInLoop(id)
  /\ UNCHANGED <<num_created_timers_, alarm, functors, ids, over, roundVars>>

CancelForeign(id) ==
  /\ id \in ids /\ Len(functors) < MaxQueue
  /\ functors' = Append(functors, [fn |-> "cancel_timer_in_loop", id |-> id])
  /\ UNCHANGED <<allocated, heap, num_created_timers_, timers_, active_timers_,
                 cancel_timers_, alarm, ids, cancelled, over, roundVars>>

\* The loop runs a functor that another thread queued.
RunAdd ==
  /\ ~run_expired_timers_ /\ functors # <<>> /\ Head(functors).fn = "add_timer_in_loop"
  /\ LET id == Head(functors).id
     IN Insert(id.timer, id, heap[id.timer].expiration_)
  /\ functors' = Tail(functors)
  /\ UNCHANGED <<allocated, heap, num_created_timers_, cancel_timers_, ids, cancelled, over,
                 roundVars>>

RunCancel ==
  /\ ~run_expired_timers_ /\ functors # <<>> /\ Head(functors).fn = "cancel_timer_in_loop"
  /\ CancelInLoop(Head(functors).id)
  /\ functors' = Tail(functors)
  /\ UNCHANGED <<num_created_timers_, alarm, ids, over, roundVars>>

-----------------------------------------------------------------------------
(* A round.                                                                 *)

\* epoll_wait returns the readable timerfd; handlers and time come in between.
Poll ==
  /\ ~run_expired_timers_ /\ ~reported /\ alarm = 0
  /\ reported' = TRUE
  /\ UNCHANGED <<allocated, heap, num_created_timers_, timers_, active_timers_, cancel_timers_,
                 run_expired_timers_, expired, todo, age, alarm, functors, ids, cancelled, over>>

Due == {a \in timers_ : heap[a].expiration_ = 0}

\* Mutant: get_expired forgets active_timers_.
HandleReadKeepsActive ==
  /\ reported /\ reported' = FALSE
  /\ alarm' = IF alarm = 0 THEN Off ELSE alarm
  /\ timers_' = timers_ \ Due
  /\ expired' = Due /\ todo' = Due
  /\ run_expired_timers_' = TRUE /\ cancel_timers_' = {} /\ age' = 0
  /\ UNCHANGED <<allocated, heap, num_created_timers_, active_timers_, functors, ids,
                 cancelled, over>>

\* handle_read up to the first callback: read_timerfd and get_expired.
HandleRead ==
  /\ reported /\ reported' = FALSE
  /\ alarm' = IF alarm = 0 THEN Off ELSE alarm
  /\ timers_' = timers_ \ Due
  /\ active_timers_' = active_timers_ \ {Id(a) : a \in Due}
  /\ expired' = Due /\ todo' = Due
  /\ run_expired_timers_' = TRUE /\ cancel_timers_' = {} /\ age' = 0
  /\ UNCHANGED <<allocated, heap, num_created_timers_, functors, ids, cancelled, over>>

\* val->run(), for a Timer in any order among those expired.
Run(a) ==
  /\ a \in todo
  /\ todo' = todo \ {a}
  /\ over' = IF heap[a].interval_ms_ = 0 THEN over \cup {Id(a)} ELSE over
  /\ UNCHANGED <<allocated, heap, num_created_timers_, timers_, active_timers_, cancel_timers_,
                 run_expired_timers_, expired, age, alarm, reported, functors, ids, cancelled>>

Repeats == {a \in expired : heap[a].interval_ms_ > 0 /\ Id(a) \notin cancel_timers_}

\* Timer::restart(now), with the now of handle_read.
Restarted(a) == [heap[a] EXCEPT !.expiration_ = AtLeast(0, heap[a].interval_ms_ - age)]

\* Mutant: the timerfd is left as it is.
ResetWithoutArming ==
  /\ run_expired_timers_ /\ todo = {}
  /\ run_expired_timers_' = FALSE /\ expired' = {} /\ age' = 0
  /\ allocated' = allocated \ (expired \ Repeats)
  /\ heap' = [a \in Addrs |-> IF a \in Repeats THEN Restarted(a)
                              ELSE IF a \in expired THEN Blank ELSE heap[a]]
  /\ timers_' = timers_ \cup Repeats
  /\ active_timers_' = active_timers_ \cup {Id(a) : a \in Repeats}
  /\ UNCHANGED <<num_created_timers_, cancel_timers_, todo, alarm, reported, functors, ids,
                 cancelled, over>>

\* reset, when the last callback returned.
Reset ==
  /\ run_expired_timers_ /\ todo = {}
  /\ run_expired_timers_' = FALSE /\ expired' = {} /\ age' = 0
  /\ allocated' = allocated \ (expired \ Repeats)
  /\ heap' = [a \in Addrs |-> IF a \in Repeats THEN Restarted(a)
                              ELSE IF a \in expired THEN Blank ELSE heap[a]]
  /\ timers_' = timers_ \cup Repeats
  /\ active_timers_' = active_timers_ \cup {Id(a) : a \in Repeats}
  /\ \/ timers_' = {} /\ UNCHANGED alarm
     \/ \E a \in timers_' : /\ \A b \in timers_' : heap'[a].expiration_ <= heap'[b].expiration_
                            /\ alarm' = Armed(heap'[a].expiration_)
  /\ UNCHANGED <<num_created_timers_, cancel_timers_, todo, reported, functors, ids, cancelled,
                 over>>

\* Time passes.  age matters only in a round, and up to the longest interval.
Tick ==
  /\ heap' = [a \in Addrs |-> [heap[a] EXCEPT !.expiration_ = AtLeast(0, @ - 1)]]
  /\ alarm' = IF alarm > 0 THEN alarm - 1 ELSE alarm
  /\ age' = IF run_expired_timers_ THEN AtMost(MaxInterval, age + 1) ELSE age
  /\ UNCHANGED <<allocated, num_created_timers_, timers_, active_timers_, cancel_timers_,
                 run_expired_timers_, expired, todo, reported, functors, ids, cancelled, over>>

-----------------------------------------------------------------------------
Next ==
  \/ \E a \in Addrs, left \in Delays, interval \in Intervals :
       AddOwn(a, left, interval) \/ AddForeign(a, left, interval)
  \/ \E id \in ids : CancelOwn(id) \/ CancelForeign(id)
  \/ RunAdd \/ RunCancel
  \/ Poll \/ HandleRead \/ Reset \/ \E a \in Addrs : Run(a)
  \/ Tick

Spec == Init /\ [][Next]_vars

\* The loop keeps looping, callbacks return, and time passes.
FairSpec ==
  /\ Spec
  /\ WF_vars(Poll) /\ WF_vars(HandleRead) /\ WF_vars(Reset)
  /\ WF_vars(\E a \in Addrs : Run(a))
  /\ WF_vars(Tick)

-----------------------------------------------------------------------------
(* Properties.                                                              *)

Ids      == [timer : Addrs, sequence : Int]
Functors == [fn : {"add_timer_in_loop", "cancel_timer_in_loop"}, id : Ids]

TypeOK ==
  /\ allocated \subseteq Addrs
  /\ heap \in [Addrs -> [sequence_ : Int, expiration_ : Nat, interval_ms_ : Nat]]
  /\ num_created_timers_ \in Nat
  /\ timers_ \subseteq Addrs /\ expired \subseteq Addrs /\ todo \subseteq Addrs
  /\ run_expired_timers_ \in BOOLEAN /\ reported \in BOOLEAN
  /\ age \in Nat /\ alarm \in Nat \cup {Off}
  /\ functors \in Seq(Functors)
  /\ active_timers_ \subseteq Ids /\ cancel_timers_ \subseteq Ids
  /\ ids \subseteq Ids /\ cancelled \subseteq Ids /\ over \subseteq Ids

\* Every living Timer is in exactly one place that will delete it: timers_, the round, or
\* a functor on its way to the loop; active_timers_ agrees with timers_
\* (timer_queue.cpp:70 asserts that of their sizes).  So none is deleted twice or leaked.
TimersOwned ==
  /\ allocated = timers_ \cup expired \cup {id.timer : id \in Queued}
  /\ timers_ \cap expired = {}
  /\ \A id \in Queued : id.timer \notin timers_ \cup expired /\ id = Id(id.timer)
  /\ \A i, j \in Posted : functors[i].id.timer = functors[j].id.timer => i = j
  /\ active_timers_ = {Id(a) : a \in timers_}
  /\ todo \subseteq expired
  /\ run_expired_timers_ \/ expired = {}

\* Between rounds, while a Timer waits, the timerfd is set, and not later than for the
\* earliest, whatever was inserted and cancelled since (add_timer_in_loop, reset).
ArmedForEarliest ==
  timers_ # {} /\ ~run_expired_timers_ =>
    /\ alarm # Off
    /\ \A a \in timers_ : alarm <= AtLeast(1, heap[a].expiration_)

\* A Timer whose cancel was carried out does not wait again, neither after a cancel
\* inside its own round nor when its address is used again.
CancelIsFinal == cancelled \cap active_timers_ = {}

\* A Timer that was created is on its way to the loop, waits, is in the round, was
\* cancelled, or ran to its end: cancelling one never takes another away.
NoTimerLost ==
  \A id \in ids : \/ id \in Queued \cup active_timers_ \cup {Id(a) : a \in expired}
                  \/ id \in cancelled \cup over

\* A Timer that waits is sooner or later taken into a round, or cancelled.
EveryTimerFires ==
  \A n \in 0..(MaxCreated - 1) :
    LET waits == \E id \in active_timers_ : id.sequence = n IN waits ~> ~waits
=============================================================================
