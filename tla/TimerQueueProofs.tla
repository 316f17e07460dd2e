-------------------------- MODULE TimerQueueProofs --------------------------
(***************************************************************************)
(* Proofs about TimerQueue for every set of addresses, delays and intervals  *)
(* and every bound.                                                         *)
(***************************************************************************)
EXTENDS TimerQueue, SequenceTheorems, TLAPS

USE DEF Off

-----------------------------------------------------------------------------
(* Type correctness.                                                        *)

\* reset_timerfd sets a time, refuses it, or disarms the timerfd.
LEMMA ArmedType ==
  ASSUME NEW left \in Nat, alarm \in Nat \cup {Off}
  PROVE  Armed(left) \in Nat \cup {Off}
<1>1. AtLeast(1, left) \in Nat
  BY DEF AtLeast
<1>2. Narrowed(AtLeast(1, left)) \in Int
  BY <1>1, TimerAssumption DEF Narrowed
<1> QED
  BY <1>2 DEF Armed

\* The functor that is next, and the rest.
LEMMA FunctorTypes ==
  ASSUME functors \in Seq(Functors), functors # <<>>
  PROVE  Head(functors) \in Functors /\ Tail(functors) \in Seq(Functors)
BY HeadTailProperties

\* insert keeps the types of what it changes.
LEMMA InsertType ==
  ASSUME TypeOK, NEW a \in Addrs, NEW id \in Ids, NEW left \in Nat, Insert(a, id, left)
  PROVE  /\ timers_' \subseteq Addrs /\ active_timers_' \subseteq Ids
         /\ alarm' \in Nat \cup {Off}
<1>1. alarm \in Nat \cup {Off} /\ timers_ \subseteq Addrs /\ active_timers_ \subseteq Ids
  BY DEF TypeOK
<1>2. Armed(left) \in Nat \cup {Off}
  BY <1>1, ArmedType
<1> QED
  BY <1>1, <1>2 DEF Insert

\* cancel_timer_in_loop too.
LEMMA CancelType ==
  ASSUME TypeOK, NEW id \in Ids, CancelInLoop(id)
  PROVE  /\ allocated' \subseteq Addrs /\ timers_' \subseteq Addrs
         /\ heap' \in [Addrs -> [sequence_ : Int, expiration_ : Nat, interval_ms_ : Nat]]
         /\ active_timers_' \subseteq Ids /\ cancel_timers_' \subseteq Ids
         /\ cancelled' \subseteq Ids
BY DEF TypeOK, CancelInLoop, Delete, Blank, Timer

\* reset, with Timer::restart, too.
LEMMA ResetType ==
  ASSUME TypeOK, Reset
  PROVE  /\ heap' \in [Addrs -> [sequence_ : Int, expiration_ : Nat, interval_ms_ : Nat]]
         /\ active_timers_' \subseteq Ids
         /\ alarm' \in Nat \cup {Off}
<1>1. \A a \in Addrs : Restarted(a) \in [sequence_ : Int, expiration_ : Nat, interval_ms_ : Nat]
  BY DEF TypeOK, Restarted, AtLeast
<1>2. heap' \in [Addrs -> [sequence_ : Int, expiration_ : Nat, interval_ms_ : Nat]]
  BY <1>1 DEF TypeOK, Reset, Blank, Timer
<1>3. active_timers_' \subseteq Ids
  <2>1. \A a \in Repeats : Id(a) \in Ids
    BY DEF TypeOK, Repeats, Id, Ids
  <2> QED
    BY <2>1 DEF TypeOK, Reset
<1>4. alarm' \in Nat \cup {Off}
  <2>1. CASE UNCHANGED alarm
    BY <2>1 DEF TypeOK
  <2>2. CASE \E a \in timers_' : alarm' = Armed(heap'[a].expiration_)
    <3>1. timers_' \subseteq Addrs
      BY DEF TypeOK, Reset, Repeats
    <3>2. PICK a \in timers_' : alarm' = Armed(heap'[a].expiration_)
      BY <2>2
    <3>3. heap'[a].expiration_ \in Nat
      BY <1>2, <3>1
    <3> QED
      BY <3>2, <3>3, ArmedType DEF TypeOK
  <2>3. UNCHANGED alarm \/ \E a \in timers_' : alarm' = Armed(heap'[a].expiration_)
    BY DEF Reset
  <2> QED
    BY <2>1, <2>2, <2>3
<1> QED
  BY <1>2, <1>3, <1>4

\* The constructor leaves every field with its type.
LEMMA TypeInit == Init => TypeOK
<1> SUFFICES ASSUME Init PROVE TypeOK
  OBVIOUS
<1>1. heap \in [Addrs -> [sequence_ : Int, expiration_ : Nat, interval_ms_ : Nat]]
  BY DEF Init, Blank, Timer
<1>2. functors \in Seq(Functors)
  BY EmptySeq DEF Init
<1> QED
  BY <1>1, <1>2 DEF Init, TypeOK

\* Every step keeps the types of the fields.
LEMMA TypeStep == TypeOK /\ [Next]_vars => TypeOK'
<1> SUFFICES ASSUME TypeOK, [Next]_vars PROVE TypeOK'
  OBVIOUS
<1> USE TimerAssumption DEF TypeOK, roundVars
<1>1. ASSUME NEW a \in Addrs, NEW left \in Delays, NEW interval \in Intervals,
             AddOwn(a, left, interval)
      PROVE  TypeOK'
  <2> DEFINE id == [timer |-> a, sequence |-> num_created_timers_]
  <2>1. id \in Ids /\ left \in Nat /\ interval \in Nat
    BY DEF Ids
  <2>2. /\ timers_' \subseteq Addrs /\ active_timers_' \subseteq Ids
        /\ alarm' \in Nat \cup {Off}
    BY <1>1, <2>1, InsertType DEF AddOwn
  <2>3. heap' \in [Addrs -> [sequence_ : Int, expiration_ : Nat, interval_ms_ : Nat]]
    BY <1>1, <2>1 DEF AddOwn, New, Timer
  <2> QED
    BY <1>1, <2>1, <2>2, <2>3 DEF AddOwn, New
<1>2. ASSUME NEW a \in Addrs, NEW left \in Delays, NEW interval \in Intervals,
             AddForeign(a, left, interval)
      PROVE  TypeOK'
  <2> DEFINE id == [timer |-> a, sequence |-> num_created_timers_]
  <2>1. id \in Ids /\ left \in Nat /\ interval \in Nat
    BY DEF Ids
  <2>2. functors' \in Seq(Functors)
    BY <1>2, <2>1 DEF AddForeign, Functors
  <2>3. heap' \in [Addrs -> [sequence_ : Int, expiration_ : Nat, interval_ms_ : Nat]]
    BY <1>2, <2>1 DEF AddForeign, New, Timer
  <2> QED
    BY <1>2, <2>1, <2>2, <2>3 DEF AddForeign, New
<1>3. ASSUME NEW id \in ids, CancelOwn(id) PROVE TypeOK'
  BY <1>3, CancelType DEF CancelOwn
<1>4. ASSUME NEW id \in ids, CancelForeign(id) PROVE TypeOK'
  <2>1. functors' \in Seq(Functors)
    BY <1>4 DEF CancelForeign, Functors
  <2> QED
    BY <1>4, <2>1 DEF CancelForeign
<1>5. CASE RunAdd
  <2> DEFINE id == Head(functors).id
  <2>1. id \in Ids /\ id.timer \in Addrs /\ functors' \in Seq(Functors)
    BY <1>5, FunctorTypes DEF RunAdd, Functors, Ids
  <2>2. heap[id.timer].expiration_ \in Nat
    BY <2>1
  <2>3. /\ timers_' \subseteq Addrs /\ active_timers_' \subseteq Ids
        /\ alarm' \in Nat \cup {Off}
    BY <1>5, <2>1, <2>2, InsertType DEF RunAdd
  <2> QED
    BY <1>5, <2>1, <2>3 DEF RunAdd
<1>6. CASE RunCancel
  <2>1. Head(functors).id \in Ids /\ functors' \in Seq(Functors)
    BY <1>6, FunctorTypes DEF RunCancel, Functors
  <2> QED
    BY <1>6, <2>1, CancelType DEF RunCancel
<1>7. CASE Poll
  BY <1>7 DEF Poll
<1>8. CASE HandleRead
  BY <1>8 DEF HandleRead, Due
<1>9. CASE Reset
  <2>1. /\ heap' \in [Addrs -> [sequence_ : Int, expiration_ : Nat, interval_ms_ : Nat]]
        /\ active_timers_' \subseteq Ids /\ alarm' \in Nat \cup {Off}
    BY <1>9, ResetType
  <2> QED
    BY <1>9, <2>1 DEF Reset, Repeats
<1>10. ASSUME NEW a \in Addrs, Run(a) PROVE TypeOK'
  BY <1>10 DEF Run, Id, Ids
<1>11. CASE Tick
  <2>1. heap' \in [Addrs -> [sequence_ : Int, expiration_ : Nat, interval_ms_ : Nat]]
    <3>1. ASSUME NEW a \in Addrs
          PROVE  [heap[a] EXCEPT !.expiration_ = AtLeast(0, @ - 1)]
                   \in [sequence_ : Int, expiration_ : Nat, interval_ms_ : Nat]
      <4>1. heap[a] \in [sequence_ : Int, expiration_ : Nat, interval_ms_ : Nat]
        OBVIOUS
      <4>2. AtLeast(0, heap[a].expiration_ - 1) \in Nat
        BY <4>1 DEF AtLeast
      <4> QED
        BY <4>1, <4>2
    <3> QED
      BY <1>11, <3>1 DEF Tick
  <2>2. alarm' \in Nat \cup {Off} /\ age' \in Nat
    BY <1>11 DEF Tick, AtMost
  <2> QED
    BY <1>11, <2>1, <2>2 DEF Tick
<1>12. CASE UNCHANGED vars
  BY <1>12 DEF vars
<1> QED
  BY <1>1, <1>2, <1>3, <1>4, <1>5, <1>6, <1>7, <1>8, <1>9, <1>10, <1>11, <1>12 DEF Next

\* The fields of the TimerQueue keep their types (timer_queue.cpp).
THEOREM TypeCorrect == Spec => []TypeOK
BY TypeInit, TypeStep, PTL DEF Spec

-----------------------------------------------------------------------------
(* Every Timer has one owner.                                               *)

\* The poll and the round exclude each other.
PollOrRound == ~(reported /\ run_expired_timers_)

Owned == TypeOK /\ TimersOwned /\ PollOrRound

\* What add_timer's and cancel's functors do to the Timers on their way.
LEMMA AppendFunctor ==
  ASSUME TypeOK, NEW f \in Functors, functors' = Append(functors, f)
  PROVE  /\ Len(functors') = Len(functors) + 1 /\ functors'[Len(functors) + 1] = f
         /\ \A i \in 1..Len(functors) : functors'[i] = functors[i]
         /\ f.fn = "add_timer_in_loop" => Posted' = Posted \cup {Len(functors) + 1}
         /\ f.fn # "add_timer_in_loop" => Posted' = Posted
<1>1. /\ Len(functors') = Len(functors) + 1 /\ functors'[Len(functors) + 1] = f
      /\ \A i \in 1..Len(functors) : functors'[i] = functors[i]
  BY AppendProperties DEF TypeOK
<1>2. Len(functors) \in Nat
  BY LenProperties DEF TypeOK
<1>3. \A i : i \in 1..Len(functors') <=> i \in 1..Len(functors) \/ i = Len(functors) + 1
  BY <1>1, <1>2
<1>4. Len(functors) + 1 \notin 1..Len(functors)
  BY <1>2
<1> QED
  BY <1>1, <1>3, <1>4 DEF Posted

\* The functors behind the next one, one place further on.
LEMMA TailFunctor ==
  ASSUME TypeOK, functors # <<>>, functors' = Tail(functors)
  PROVE  /\ Head(functors) = functors[1] /\ 1 \in 1..Len(functors)
         /\ \A i \in 1..Len(functors') : /\ i + 1 \in 1..Len(functors)
                                        /\ functors'[i] = functors[i + 1]
         /\ \A i \in 1..Len(functors) : i # 1 => /\ i - 1 \in 1..Len(functors')
                                                /\ functors'[i - 1] = functors[i]
<1>1. Len(functors) \in Nat \ {0} /\ Head(functors) = functors[1]
  BY EmptySeq, LenProperties, HeadTailProperties DEF TypeOK
<1>2. /\ Len(functors') = Len(functors) - 1
      /\ \A i \in 1..Len(functors') : functors'[i] = functors[i + 1]
  BY HeadTailProperties DEF TypeOK
<1>3. \A i \in 1..Len(functors') : i + 1 \in 1..Len(functors)
  BY <1>1, <1>2
<1>4. ASSUME NEW i \in 1..Len(functors), i # 1
      PROVE  i - 1 \in 1..Len(functors') /\ functors'[i - 1] = functors[i]
  <2>1. i - 1 \in 1..Len(functors')
    BY <1>1, <1>2, <1>4
  <2>2. functors'[i - 1] = functors[(i - 1) + 1]
    BY <1>2, <2>1
  <2> QED
    BY <2>1, <2>2
<1> QED
  BY <1>1, <1>2, <1>3, <1>4

\* The Timers on their way after the next functor was taken.
LEMMA TailPosted ==
  ASSUME TypeOK, functors # <<>>, functors' = Tail(functors)
  PROVE  /\ \A i \in Posted' : i + 1 \in Posted /\ functors'[i] = functors[i + 1]
         /\ \A i \in Posted : i # 1 => i - 1 \in Posted' /\ functors'[i - 1] = functors[i]
         /\ Posted' \subseteq Int /\ Posted \subseteq Int
<1>1. /\ \A i \in 1..Len(functors') : /\ i + 1 \in 1..Len(functors)
                                     /\ functors'[i] = functors[i + 1]
      /\ \A i \in 1..Len(functors) : i # 1 => /\ i - 1 \in 1..Len(functors')
                                             /\ functors'[i - 1] = functors[i]
  BY TailFunctor
<1> QED
  BY <1>1 DEF Posted

Distinct == \A i, j \in Posted : functors[i].id.timer = functors[j].id.timer => i = j

\* add_timer of another thread, with a Timer that is not on its way yet.
LEMMA PostAdd ==
  ASSUME TypeOK, Distinct, NEW f \in Functors, functors' = Append(functors, f),
         f.fn = "add_timer_in_loop", \A id \in Queued : id.timer # f.id.timer
  PROVE  Queued' = Queued \cup {f.id} /\ Distinct'
<1> DEFINE n == Len(functors) + 1
<1>1. /\ Posted' = Posted \cup {n} /\ functors'[n] = f
      /\ \A i \in Posted : functors'[i] = functors[i]
  BY AppendFunctor DEF Posted
<1>2. \A i \in Posted : functors[i].id \in Queued
  BY DEF Queued
<1> HIDE DEF n
<1>3. Distinct'
  <2> SUFFICES ASSUME NEW i \in Posted', NEW j \in Posted',
                      functors'[i].id.timer = functors'[j].id.timer
               PROVE  i = j
    BY DEF Distinct
  <2>1. CASE i = n \/ j = n
    BY <1>1, <1>2, <2>1
  <2>2. CASE i # n /\ j # n
    BY <1>1, <2>2 DEF Distinct
  <2> QED
    BY <2>1, <2>2
<1>4. Queued' = Queued \cup {f.id}
  BY <1>1, ZenonT(60) DEF Queued
<1> QED
  BY <1>3, <1>4

\* cancel of another thread.
LEMMA PostCancel ==
  ASSUME TypeOK, Distinct, NEW f \in Functors, functors' = Append(functors, f),
         f.fn # "add_timer_in_loop"
  PROVE  Queued' = Queued /\ Distinct'
<1>1. Posted' = Posted /\ \A i \in Posted : functors'[i] = functors[i]
  BY AppendFunctor DEF Posted
<1>2. Distinct'
  <2> SUFFICES ASSUME NEW i \in Posted', NEW j \in Posted',
                      functors'[i].id.timer = functors'[j].id.timer
               PROVE  i = j
    BY DEF Distinct
  <2> QED
    BY <1>1 DEF Distinct
<1>3. Queued' = Queued
  BY <1>1 DEF Queued
<1> QED
  BY <1>2, <1>3

\* The loop takes an add_timer_in_loop.
LEMMA TakeAdd ==
  ASSUME TypeOK, Distinct, functors # <<>>, functors' = Tail(functors),
         Head(functors).fn = "add_timer_in_loop"
  PROVE  /\ Head(functors).id \in Queued
         /\ Queued' = Queued \ {Head(functors).id} /\ Distinct'
<1>1. Head(functors) = functors[1] /\ 1 \in Posted
  BY TailFunctor DEF Posted
<1>2. /\ \A i \in Posted' : i + 1 \in Posted /\ functors'[i] = functors[i + 1] /\ i \in Nat \ {0}
      /\ \A i \in Posted : i # 1 => i - 1 \in Posted' /\ functors'[i - 1] = functors[i]
  BY TailPosted DEF Posted
<1>3. Distinct'
  <2> SUFFICES ASSUME NEW i \in Posted', NEW j \in Posted',
                      functors'[i].id.timer = functors'[j].id.timer
               PROVE  i = j
    BY DEF Distinct
  <2>1. i + 1 \in Posted /\ j + 1 \in Posted /\ i \in Nat /\ j \in Nat
    BY <1>2
  <2>2. functors[i + 1].id.timer = functors[j + 1].id.timer
    BY <1>2
  <2>3. i + 1 = j + 1
    BY <2>1, <2>2 DEF Distinct
  <2> QED
    BY <2>1, <2>3
<1>4. Queued' \subseteq Queued \ {Head(functors).id}
  <2> SUFFICES ASSUME NEW i \in Posted' PROVE functors'[i].id \in Queued \ {functors[1].id}
    BY <1>1 DEF Queued
  <2>1. i + 1 \in Posted /\ functors'[i] = functors[i + 1] /\ i \in Nat \ {0}
    BY <1>2
  <2>2. i + 1 # 1
    BY <2>1
  <2> QED
    BY <1>1, <2>1, <2>2 DEF Distinct, Queued
<1>5. Queued \ {Head(functors).id} \subseteq Queued'
  <2> SUFFICES ASSUME NEW i \in Posted, i # 1 PROVE functors[i].id \in Queued'
    BY <1>1 DEF Queued
  <2>1. i - 1 \in Posted' /\ functors'[i - 1] = functors[i]
    BY <1>2
  <2> QED
    BY <2>1 DEF Queued
<1> QED
  BY <1>1, <1>3, <1>4, <1>5 DEF Queued

\* The loop takes a cancel_timer_in_loop.
LEMMA TakeCancel ==
  ASSUME TypeOK, Distinct, functors # <<>>, functors' = Tail(functors),
         Head(functors).fn # "add_timer_in_loop"
  PROVE  Queued' = Queued /\ Distinct'
<1>1. Head(functors) = functors[1] /\ 1 \notin Posted
  BY TailFunctor DEF Posted
<1>2. /\ \A i \in Posted' : i + 1 \in Posted /\ functors'[i] = functors[i + 1] /\ i \in Nat \ {0}
      /\ \A i \in Posted : i # 1 => i - 1 \in Posted' /\ functors'[i - 1] = functors[i]
  BY TailPosted DEF Posted
<1>3. Distinct'
  <2> SUFFICES ASSUME NEW i \in Posted', NEW j \in Posted',
                      functors'[i].id.timer = functors'[j].id.timer
               PROVE  i = j
    BY DEF Distinct
  <2>1. i + 1 \in Posted /\ j + 1 \in Posted /\ i \in Nat /\ j \in Nat
    BY <1>2
  <2>2. functors[i + 1].id.timer = functors[j + 1].id.timer
    BY <1>2
  <2>3. i + 1 = j + 1
    BY <2>1, <2>2 DEF Distinct
  <2> QED
    BY <2>1, <2>3
<1>4. Queued' \subseteq Queued
  <2> SUFFICES ASSUME NEW i \in Posted' PROVE functors'[i].id \in Queued
    BY DEF Queued
  <2> QED
    BY <1>2 DEF Queued
<1>5. Queued \subseteq Queued'
  <2> SUFFICES ASSUME NEW i \in Posted PROVE functors[i].id \in Queued'
    BY DEF Queued
  <2>1. i - 1 \in Posted' /\ functors'[i - 1] = functors[i]
    BY <1>1, <1>2
  <2> QED
    BY <2>1 DEF Queued
<1> QED
  BY <1>3, <1>4, <1>5

\* cancel_timer_in_loop takes one Timer from both sets and deletes it.
LEMMA CancelOwned ==
  ASSUME Owned, NEW id \in Ids, CancelInLoop(id), Queued' = Queued, Distinct',
         UNCHANGED <<expired, todo, run_expired_timers_>>
  PROVE  TimersOwned'
<1> USE DEF Owned, TypeOK, TimersOwned
<1>1. CASE id \in active_timers_
  <2>1. PICK a \in timers_ : id = Id(a)
    BY <1>1
  <2>2. /\ id.timer = a /\ a \in Addrs
        /\ timers_' = timers_ \ {a} /\ active_timers_' = active_timers_ \ {id}
        /\ allocated' = allocated \ {a}
        /\ \A b \in Addrs : b # a => heap'[b] = heap[b]
    BY <1>1, <2>1 DEF CancelInLoop, Delete, Id
  <2>3. \A b \in Addrs : b # a => Id(b)' = Id(b) /\ Id(b) # id
    BY <2>1, <2>2 DEF Id
  <2>4. active_timers_' = {Id(b)' : b \in timers_'}
    <3>1. active_timers_' = {Id(b) : b \in timers_ \ {a}}
      BY <2>1, <2>2, <2>3
    <3>2. \A b \in timers_' : b \in timers_ \ {a} /\ Id(b)' = Id(b)
      BY <2>2, <2>3
    <3>3. \A b \in timers_ \ {a} : b \in timers_'
      BY <2>2
    <3>4. \A x : x \in active_timers_' <=> \E b \in timers_' : x = Id(b)'
      BY <3>1, <3>2, <3>3
    <3> QED
      BY <3>4
  <2>5. \A i \in Queued : i.timer # a /\ i.timer \in allocated
    BY <2>1
  <2>6. \A i \in Queued : i.timer \notin timers_' \cup expired /\ i = Id(i.timer)'
    BY <2>2, <2>3, <2>5
  <2>7. allocated' = timers_' \cup expired \cup {i.timer : i \in Queued}
    BY <2>1, <2>2, <2>5
  <2> QED
    BY <2>2, <2>4, <2>6, <2>7 DEF Distinct
<1>2. CASE id \notin active_timers_
  BY <1>2 DEF CancelInLoop, Id, Distinct
<1> QED
  BY <1>1, <1>2

\* insert puts a Timer that is allocated, or allocated with it, into both sets.
LEMMA InsertOwned ==
  ASSUME Owned, NEW a \in Addrs, NEW id \in Ids, NEW left \in Nat, Insert(a, id, left),
         a \notin timers_ \cup expired, id = Id(a)', allocated' = allocated \cup {a},
         \A b \in Addrs : b # a => heap'[b] = heap[b],
         \A q \in Queued' : q \in Queued /\ q.timer # a,
         \A q \in Queued : q \in Queued' \/ q.timer = a,
         Distinct', UNCHANGED <<expired, todo, run_expired_timers_>>
  PROVE  TimersOwned'
<1> USE DEF Owned, TypeOK, TimersOwned
<1>1. timers_' = timers_ \cup {a} /\ active_timers_' = active_timers_ \cup {id}
  BY DEF Insert
<1>2. \A b \in Addrs : b # a => Id(b)' = Id(b)
  BY DEF Id
<1>3. active_timers_' = {Id(b)' : b \in timers_'}
  <2>1. \A x : x \in active_timers_' <=> (\E b \in timers_ : x = Id(b)) \/ x = Id(a)'
    BY <1>1
  <2>2. \A b \in timers_ : b \in timers_' /\ Id(b)' = Id(b)
    BY <1>1, <1>2
  <2>3. \A b \in timers_' : b \in timers_ \/ b = a
    BY <1>1
  <2>4. \A x : x \in active_timers_' <=> \E b \in timers_' : x = Id(b)'
    BY <1>1, <2>1, <2>2, <2>3
  <2> QED
    BY <2>4
<1>4. \A q \in Queued' : q.timer \notin timers_' \cup expired /\ q = Id(q.timer)'
  <2> SUFFICES ASSUME NEW q \in Queued'
               PROVE  q.timer \notin timers_' \cup expired /\ q = Id(q.timer)'
    OBVIOUS
  <2>1. q \in Queued /\ q.timer # a /\ q.timer \in allocated
    OBVIOUS
  <2> QED
    BY <1>1, <1>2, <2>1
<1>5. allocated' = timers_' \cup expired \cup {q.timer : q \in Queued'}
  BY <1>1
<1>6. timers_' \cap expired' = {} /\ todo' \subseteq expired' /\ (run_expired_timers_' \/ expired' = {})
  BY <1>1
<1>7. \A i, j \in Posted' : functors'[i].id.timer = functors'[j].id.timer => i = j
  BY DEF Distinct
<1>8. expired' = expired
  OBVIOUS
<1> HIDE DEF TypeOK, Owned
<1> QED
  BY <1>1, <1>3, <1>4, <1>5, <1>6, <1>7, <1>8

\* An empty TimerQueue owns no Timer.
LEMMA OwnedInit == Init => Owned
<1> SUFFICES ASSUME Init PROVE Owned
  OBVIOUS
<1>1. Posted = {}
  BY DEF Init, Posted
<1> QED
  BY <1>1, TypeInit DEF Init, Owned, TimersOwned, PollOrRound, Queued

\* The functors that a step leaves alone.
LEMMA SameQueue ==
  ASSUME UNCHANGED functors
  PROVE  Queued' = Queued /\ Posted' = Posted /\ (Distinct => Distinct')
BY DEF Queued, Posted, Distinct

\* Every step keeps each allocated Timer in one place, and queued at most once.
LEMMA OwnedStep == Owned /\ [Next]_vars => Owned'
<1> SUFFICES ASSUME Owned, [Next]_vars PROVE Owned'
  OBVIOUS
<1>0. TypeOK'
  BY TypeStep DEF Owned
<1>d. TypeOK /\ Distinct
  BY DEF Owned, TimersOwned, Distinct
<1>1. ASSUME NEW a \in Addrs, NEW left \in Delays, NEW interval \in Intervals,
             AddOwn(a, left, interval)
      PROVE  Owned'
  <2> DEFINE id == [timer |-> a, sequence |-> num_created_timers_]
  <2>1. /\ id \in Ids /\ left \in Nat /\ a \notin allocated /\ allocated' = allocated \cup {a}
        /\ Insert(a, id, left) /\ id = Id(a)'
        /\ \A b \in Addrs : b # a => heap'[b] = heap[b]
        /\ UNCHANGED <<functors, expired, todo, run_expired_timers_, reported>>
    BY <1>1, <1>d, TimerAssumption DEF AddOwn, New, Timer, Id, Ids, TypeOK, roundVars
  <2>2. a \notin timers_ \cup expired /\ \A q \in Queued : q.timer # a
    BY <2>1 DEF Owned, TimersOwned
  <2>3. TimersOwned'
    BY <1>d, <2>1, <2>2, SameQueue, InsertOwned
  <2> QED
    BY <1>0, <2>1, <2>3 DEF Owned, PollOrRound
<1>2. ASSUME NEW a \in Addrs, NEW left \in Delays, NEW interval \in Intervals,
             AddForeign(a, left, interval)
      PROVE  Owned'
  <2> DEFINE id == [timer |-> a, sequence |-> num_created_timers_]
             f  == [fn |-> "add_timer_in_loop", id |-> id]
  <2>1. /\ id = Id(a)' /\ f \in Functors /\ functors' = Append(functors, f)
        /\ a \notin allocated /\ allocated' = allocated \cup {a}
        /\ \A b \in Addrs : b # a => heap'[b] = heap[b]
        /\ UNCHANGED <<timers_, active_timers_, expired, todo, run_expired_timers_, reported>>
    BY <1>2, <1>d DEF AddForeign, New, Timer, Id, Ids, Functors, TypeOK, roundVars
  <2>2. \A q \in Queued : q.timer # a /\ q.timer \in Addrs
    BY <2>1 DEF Owned, TimersOwned, TypeOK
  <2>3. Queued' = Queued \cup {id} /\ Distinct'
    BY <1>d, <2>1, <2>2, PostAdd
  <2>4. \A b \in Addrs : b # a => Id(b)' = Id(b)
    BY <2>1 DEF Id
  <2>5. a \notin timers_ \cup expired /\ timers_ \subseteq Addrs
    BY <2>1 DEF Owned, TimersOwned, TypeOK
  <2>6. active_timers_' = {Id(b)' : b \in timers_'}
    BY <2>1, <2>4, <2>5 DEF Owned, TimersOwned
  <2>7. \A q \in Queued' : q.timer \notin timers_ \cup expired /\ q = Id(q.timer)'
    BY <2>1, <2>2, <2>3, <2>4, <2>5 DEF Owned, TimersOwned
  <2>8. allocated' = timers_ \cup expired \cup {q.timer : q \in Queued'}
    BY <2>1, <2>3 DEF Owned, TimersOwned
  <2> QED
    BY <1>0, <2>1, <2>3, <2>6, <2>7, <2>8 DEF Owned, TimersOwned, PollOrRound, Distinct
<1>3. ASSUME NEW id \in ids, CancelOwn(id) PROVE Owned'
  <2>1. id \in Ids
    BY <1>d DEF TypeOK
  <2>2. TimersOwned'
    BY <1>3, <1>d, <2>1, SameQueue, CancelOwned DEF CancelOwn, roundVars
  <2> QED
    BY <1>0, <1>3, <2>2 DEF Owned, PollOrRound, CancelOwn, roundVars
<1>4. ASSUME NEW id \in ids, CancelForeign(id) PROVE Owned'
  <2> DEFINE f == [fn |-> "cancel_timer_in_loop", id |-> id]
  <2>1. f \in Functors
    BY <1>d DEF TypeOK, Functors
  <2>2. functors' = Append(functors, f)
    BY <1>4 DEF CancelForeign
  <2>3. /\ UNCHANGED <<allocated, heap, timers_, active_timers_>>
        /\ UNCHANGED <<expired, todo, run_expired_timers_, reported>>
    BY <1>4 DEF CancelForeign, roundVars
  <2>4. Queued' = Queued /\ Distinct'
    BY <1>d, <2>1, <2>2, PostCancel
  <2>5. \A a \in Addrs : Id(a)' = Id(a)
    BY <2>3 DEF Id
  <2>6. /\ allocated' = timers_' \cup expired' \cup {q.timer : q \in Queued'}
        /\ timers_' \cap expired' = {} /\ todo' \subseteq expired'
        /\ run_expired_timers_' \/ expired' = {}
    BY <2>3, <2>4 DEF Owned, TimersOwned
  <2>7. \A q \in Queued' : q.timer \notin timers_' \cup expired' /\ q = Id(q.timer)'
    <3> SUFFICES ASSUME NEW q \in Queued'
                 PROVE  q.timer \notin timers_' \cup expired' /\ q = Id(q.timer)'
      OBVIOUS
    <3>1. q \in Queued
      BY <2>4
    <3>2. q.timer \notin timers_ \cup expired /\ q = Id(q.timer)
      BY <3>1 DEF Owned, TimersOwned
    <3> QED
      BY <2>3, <3>2 DEF Id
  <2>8. active_timers_' = {Id(a)' : a \in timers_'}
    BY <2>3 DEF Owned, TimersOwned, Id
  <2>9. TimersOwned'
    BY <2>4, <2>6, <2>7, <2>8 DEF TimersOwned, Distinct
  <2>10. PollOrRound'
    BY <2>3 DEF Owned, PollOrRound
  <2> QED
    BY <1>0, <2>9, <2>10 DEF Owned
<1>5. CASE RunAdd
  <2>1. Head(functors).id \in Ids /\ Head(functors).id.timer \in Addrs
    BY <1>5, <1>d, FunctorTypes DEF RunAdd, Functors, Ids, TypeOK
  <2>2. PICK id \in Ids, a \in Addrs : id = Head(functors).id /\ a = id.timer
    BY <2>1
  <2>3. id \in Queued /\ Queued' = Queued \ {id} /\ Distinct'
    BY <1>5, <1>d, <2>2, TakeAdd DEF RunAdd
  <2>4. \A q \in Queued : q.timer = a => q = id
    BY <2>2, <2>3 DEF Owned, TimersOwned
  <2>5. a \notin timers_ \cup expired /\ id = Id(a) /\ a \in allocated
    BY <2>2, <2>3 DEF Owned, TimersOwned
  <2>6. /\ Insert(a, id, heap[a].expiration_) /\ UNCHANGED <<allocated, heap>>
        /\ UNCHANGED <<expired, todo, run_expired_timers_, reported>>
    BY <1>5, <2>2 DEF RunAdd, roundVars
  <2>7. id = Id(a)' /\ heap[a].expiration_ \in Nat
    BY <1>d, <2>5, <2>6 DEF Id, TypeOK
  <2>8. TimersOwned'
    BY <2>2, <2>3, <2>4, <2>5, <2>6, <2>7, InsertOwned
  <2> QED
    BY <1>0, <2>6, <2>8 DEF Owned, PollOrRound
<1>6. CASE RunCancel
  <2>1. Head(functors).id \in Ids
    BY <1>6, <1>d, FunctorTypes DEF RunCancel, Functors, TypeOK
  <2>2. Queued' = Queued /\ Distinct'
    BY <1>6, <1>d, TakeCancel DEF RunCancel
  <2>3. TimersOwned'
    BY <1>6, <2>1, <2>2, CancelOwned DEF RunCancel, roundVars
  <2> QED
    BY <1>0, <1>6, <2>3 DEF Owned, PollOrRound, RunCancel, roundVars
<1>7. CASE Poll
  BY <1>0, <1>7, SameQueue DEF Owned, TimersOwned, PollOrRound, Poll, Id
<1>8. CASE HandleRead
  <2>1. expired = {}
    BY <1>8 DEF Owned, TimersOwned, PollOrRound, HandleRead
  <2>2. /\ timers_' = timers_ \ Due /\ expired' = Due /\ todo' = Due /\ Due \subseteq timers_
        /\ active_timers_' = active_timers_ \ {Id(a) : a \in Due}
        /\ run_expired_timers_' = TRUE /\ reported' = FALSE
        /\ UNCHANGED <<allocated, heap, functors>>
    BY <1>8 DEF HandleRead, Due
  <2>3. \A a : Id(a)' = Id(a)
    BY <2>2 DEF Id
  <2>4. \A a, b : Id(a) = Id(b) => a = b
    BY DEF Id
  <2>5. active_timers_' = {Id(a)' : a \in timers_'}
    <3>1. \A x : x \in active_timers_' <=> \E a \in timers_' : x = Id(a)
      BY <2>2, <2>4 DEF Owned, TimersOwned
    <3> QED
      BY <2>3, <3>1
  <2>6. TimersOwned'
    BY <1>d, <2>1, <2>2, <2>3, <2>5, SameQueue DEF Owned, TimersOwned, Distinct
  <2> QED
    BY <1>0, <2>2, <2>6 DEF Owned, PollOrRound
<1>9. CASE Reset
  <2>1. /\ timers_' = timers_ \cup Repeats /\ expired' = {} /\ todo' = {} /\ Repeats \subseteq expired
        /\ allocated' = allocated \ (expired \ Repeats)
        /\ active_timers_' = active_timers_ \cup {Id(a) : a \in Repeats}
        /\ run_expired_timers_' = FALSE
        /\ UNCHANGED <<functors, reported>>
    BY <1>9 DEF Reset, Repeats
  <2>2. \A a \in Addrs \ (expired \ Repeats) : Id(a)' = Id(a)
    BY <1>9 DEF Reset, Restarted, Id
  <2>3. timers_' \subseteq Addrs \ (expired \ Repeats)
    BY <2>1 DEF Owned, TimersOwned, TypeOK
  <2>4. active_timers_' = {Id(a)' : a \in timers_'}
    <3>1. \A x : x \in active_timers_' <=> \E a \in timers_' : x = Id(a)
      BY <2>1 DEF Owned, TimersOwned
    <3> QED
      BY <2>2, <2>3, <3>1
  <2>5. \A q \in Queued : q.timer \in Addrs \ (expired \ Repeats)
    BY DEF Owned, TimersOwned, TypeOK
  <2>6. TimersOwned'
    BY <1>d, <2>1, <2>2, <2>4, <2>5, SameQueue, SMTT(30) DEF Owned, TimersOwned, Distinct
  <2> QED
    BY <1>0, <2>1, <2>6 DEF Owned, PollOrRound
<1>10. ASSUME NEW a \in Addrs, Run(a) PROVE Owned'
  BY <1>0, <1>10, SameQueue DEF Owned, TimersOwned, PollOrRound, Run, Id
<1>11. CASE Tick
  <2>1. /\ \A a \in Addrs : Id(a)' = Id(a)
        /\ UNCHANGED <<allocated, timers_, active_timers_, run_expired_timers_, expired, todo,
                       reported, functors>>
    <3>1. \A a \in Addrs : heap'[a].sequence_ = heap[a].sequence_
      BY <1>11, <1>d DEF Tick, TypeOK
    <3> QED
      BY <1>11, <3>1 DEF Tick, Id
  <2>2. timers_ \subseteq Addrs /\ \A q \in Queued : q.timer \in Addrs
    BY DEF Owned, TimersOwned, TypeOK
  <2> QED
    BY <1>0, <1>d, <2>1, <2>2, SameQueue DEF Owned, TimersOwned, PollOrRound, Distinct
<1>12. CASE UNCHANGED vars
  BY <1>0, <1>12, SameQueue DEF Owned, TimersOwned, PollOrRound, vars, roundVars, Id
<1> QED
  BY <1>1, <1>2, <1>3, <1>4, <1>5, <1>6, <1>7, <1>8, <1>9, <1>10, <1>11, <1>12 DEF Next

\* Every living Timer is in timers_, in the round or on its way to the loop, and in one
\* of them only; active_timers_ agrees with timers_ (timer_queue.cpp).
THEOREM EveryTimerOwned == Spec => []TimersOwned
<1>1. Owned => TimersOwned
  BY DEF Owned
<1> QED
  BY OwnedInit, OwnedStep, <1>1, PTL DEF Spec

-----------------------------------------------------------------------------
(* No Timer is lost.                                                        *)

\* A Timer of the round that has run and does not repeat is over.
RanToEnd == \A a \in expired \ todo : heap[a].interval_ms_ = 0 => Id(a) \in over

\* What a callback of the round cancelled was cancelled.
Noted == cancel_timers_ \subseteq cancelled

Kept == Owned /\ NoTimerLost /\ RanToEnd /\ Noted

\* An empty TimerQueue has lost none.
LEMMA KeptInit == Init => Kept
<1> SUFFICES ASSUME Init PROVE Kept
  OBVIOUS
<1> QED
  BY OwnedInit DEF Kept, NoTimerLost, RanToEnd, Noted, Init

\* What cancel_timer_in_loop does, in terms of TimerIds: it touches none of the round.
LEMMA CancelIds ==
  ASSUME Owned, NEW id \in Ids, CancelInLoop(id)
  PROVE  /\ active_timers_' = active_timers_ \ {id} /\ cancelled' = cancelled \cup {id}
         /\ cancel_timers_ \subseteq cancel_timers_'
         /\ cancel_timers_' \subseteq cancel_timers_ \cup {id}
         /\ run_expired_timers_ /\ id \notin active_timers_ => id \in cancel_timers_'
         /\ \A a \in expired : heap'[a] = heap[a] /\ Id(a)' = Id(a)
<1>1. /\ active_timers_' = active_timers_ \ {id} /\ cancelled' = cancelled \cup {id}
      /\ cancel_timers_ \subseteq cancel_timers_'
      /\ cancel_timers_' \subseteq cancel_timers_ \cup {id}
      /\ run_expired_timers_ /\ id \notin active_timers_ => id \in cancel_timers_'
  BY DEF CancelInLoop
<1>2. \A a \in expired : heap'[a] = heap[a]
  <2>1. CASE id \in active_timers_
    <3>1. id.timer \in timers_
      BY <2>1 DEF Owned, TimersOwned, Id
    <3>2. \A a \in expired : a # id.timer /\ a \in Addrs
      BY <3>1 DEF Owned, TimersOwned, TypeOK
    <3> QED
      BY <2>1, <3>2 DEF CancelInLoop, Delete
  <2>2. CASE id \notin active_timers_
    BY <2>2 DEF CancelInLoop
  <2> QED
    BY <2>1, <2>2
<1> QED
  BY <1>1, <1>2 DEF Id

\* A new Timer leaves those of the round alone.
LEMMA NewIds ==
  ASSUME Owned, NEW a \in Addrs, NEW left, NEW interval, New(a, left, interval)
  PROVE  \A b \in expired : heap'[b] = heap[b] /\ Id(b)' = Id(b)
BY DEF Owned, TimersOwned, TypeOK, New, Id

\* Cancelling keeps what is kept.
LEMMA CancelKept ==
  ASSUME Kept, NEW id \in Ids, CancelInLoop(id), Queued' = Queued,
         UNCHANGED <<expired, todo, ids, over>>
  PROVE  NoTimerLost' /\ RanToEnd' /\ Noted'
<1>1. /\ active_timers_' = active_timers_ \ {id} /\ cancelled' = cancelled \cup {id}
      /\ cancel_timers_' \subseteq cancel_timers_ \cup {id}
      /\ \A a \in expired : heap'[a] = heap[a] /\ Id(a)' = Id(a)
  BY CancelIds DEF Kept
<1>2. NoTimerLost'
  <2> SUFFICES ASSUME NEW i \in ids
               PROVE  \/ i \in Queued \cup active_timers_' \cup {Id(a)' : a \in expired}
                      \/ i \in cancelled' \cup over
    BY DEF NoTimerLost
  <2>1. CASE \E a \in expired : i = Id(a)
    BY <1>1, <2>1
  <2>2. CASE i \in Queued \cup active_timers_ \cup cancelled \cup over
    BY <1>1, <2>2
  <2> QED
    BY <2>1, <2>2 DEF Kept, NoTimerLost
<1> QED
  BY <1>1, <1>2 DEF Kept, RanToEnd, Noted

\* Every step keeps the Timers that are not cancelled and not at their end.
LEMMA KeptStep == Kept /\ [Next]_vars => Kept'
<1> SUFFICES ASSUME Kept, [Next]_vars PROVE Kept'
  OBVIOUS
<1>0. Owned' /\ Owned /\ TypeOK
  BY OwnedStep DEF Kept, Owned
<1>d. Distinct
  BY <1>0 DEF Owned, TimersOwned, Distinct
<1>q. ASSUME NEW i \in ids
      PROVE  \/ i \in Queued \cup active_timers_ \cup cancelled \cup over
             \/ \E a \in expired : i = Id(a)
  BY DEF Kept, NoTimerLost
<1>p. ASSUME \A i \in ids' : \/ i \in Queued' \cup active_timers_' \cup cancelled' \cup over'
                             \/ \E a \in expired' : i = Id(a)'
      PROVE  NoTimerLost'
  BY <1>p DEF NoTimerLost
<1>1. ASSUME NEW a \in Addrs, NEW left \in Delays, NEW interval \in Intervals,
             AddOwn(a, left, interval)
      PROVE  Kept'
  <2> DEFINE id == [timer |-> a, sequence |-> num_created_timers_]
  <2>1. /\ ids' = ids \cup {id} /\ active_timers_' = active_timers_ \cup {id}
        /\ UNCHANGED <<functors, expired, todo, over, cancelled, cancel_timers_>>
    BY <1>1 DEF AddOwn, New, Insert, roundVars
  <2>2. \A b \in expired : heap'[b] = heap[b] /\ Id(b)' = Id(b)
    BY <1>0, <1>1, NewIds DEF AddOwn
  <2>3. NoTimerLost'
    BY <1>q, <1>p, <2>1, <2>2, SameQueue
  <2> QED
    BY <1>0, <2>1, <2>2, <2>3 DEF Kept, RanToEnd, Noted
<1>2. ASSUME NEW a \in Addrs, NEW left \in Delays, NEW interval \in Intervals,
             AddForeign(a, left, interval)
      PROVE  Kept'
  <2> DEFINE id == [timer |-> a, sequence |-> num_created_timers_]
             f  == [fn |-> "add_timer_in_loop", id |-> id]
  <2>1. /\ ids' = ids \cup {id} /\ functors' = Append(functors, f) /\ f \in Functors
        /\ a \notin allocated
        /\ UNCHANGED <<active_timers_, expired, todo, over, cancelled, cancel_timers_>>
    BY <1>0, <1>2 DEF AddForeign, New, roundVars, Functors, Ids, TypeOK
  <2>2. \A b \in expired : heap'[b] = heap[b] /\ Id(b)' = Id(b)
    BY <1>0, <1>2, NewIds DEF AddForeign
  <2>3. \A q \in Queued : q.timer # a
    BY <1>0, <2>1 DEF Owned, TimersOwned
  <2>4. Queued' = Queued \cup {id}
    BY <1>0, <1>d, <2>1, <2>3, PostAdd
  <2>5. NoTimerLost'
    BY <1>q, <1>p, <2>1, <2>2, <2>4
  <2> QED
    BY <1>0, <2>1, <2>2, <2>5 DEF Kept, RanToEnd, Noted
<1>3. ASSUME NEW id \in ids, CancelOwn(id) PROVE Kept'
  <2>1. id \in Ids
    BY <1>0 DEF TypeOK
  <2> QED
    BY <1>0, <1>3, <2>1, SameQueue, CancelKept DEF CancelOwn, Kept, roundVars
<1>4. ASSUME NEW id \in ids, CancelForeign(id) PROVE Kept'
  <2> DEFINE f == [fn |-> "cancel_timer_in_loop", id |-> id]
  <2>1. f \in Functors
    BY <1>0 DEF TypeOK, Functors
  <2>2. Queued' = Queued
    BY <1>0, <1>d, <1>4, <2>1, PostCancel DEF CancelForeign
  <2> QED
    BY <1>0, <1>4, <2>2 DEF CancelForeign, Kept, NoTimerLost, RanToEnd, Noted, Id, roundVars
<1>5. CASE RunAdd
  <2>1. PICK id : id = Head(functors).id
    OBVIOUS
  <2>2. Queued' = Queued \ {id}
    BY <1>0, <1>d, <1>5, <2>1, TakeAdd DEF RunAdd
  <2>3. /\ active_timers_' = active_timers_ \cup {id}
        /\ UNCHANGED <<heap, ids, expired, todo, over, cancelled, cancel_timers_>>
    BY <1>5, <2>1 DEF RunAdd, Insert, roundVars
  <2>4. NoTimerLost'
    BY <1>q, <1>p, <2>2, <2>3 DEF Id
  <2> QED
    BY <1>0, <2>3, <2>4 DEF Kept, RanToEnd, Noted, Id
<1>6. CASE RunCancel
  <2>1. Head(functors).id \in Ids
    BY <1>0, <1>6, FunctorTypes DEF RunCancel, Functors, TypeOK
  <2>2. Queued' = Queued
    BY <1>0, <1>d, <1>6, TakeCancel DEF RunCancel
  <2> QED
    BY <1>0, <1>6, <2>1, <2>2, CancelKept DEF RunCancel, Kept, roundVars
<1>7. CASE Poll
  BY <1>0, <1>7, SameQueue DEF Poll, Kept, NoTimerLost, RanToEnd, Noted, Id
<1>8. CASE HandleRead
  <2>1. /\ expired' = Due /\ todo' = Due /\ cancel_timers_' = {}
        /\ active_timers_' = active_timers_ \ {Id(a) : a \in Due}
        /\ UNCHANGED <<heap, functors, ids, over, cancelled>>
    BY <1>8 DEF HandleRead
  <2>2. expired = {} /\ \A a : Id(a)' = Id(a)
    BY <1>0, <1>8, <2>1 DEF HandleRead, Owned, TimersOwned, PollOrRound, Id
  <2>3. NoTimerLost'
    BY <1>q, <1>p, <2>1, <2>2, SameQueue
  <2> QED
    BY <1>0, <2>1, <2>3 DEF Kept, RanToEnd, Noted
<1>9. CASE Reset
  <2>1. /\ todo = {} /\ expired' = {}
        /\ active_timers_' = active_timers_ \cup {Id(a) : a \in Repeats}
        /\ UNCHANGED <<functors, ids, over, cancelled, cancel_timers_>>
    BY <1>9 DEF Reset
  <2>2. \A a \in expired : Id(a) \in active_timers_' \cup cancelled \cup over
    <3> SUFFICES ASSUME NEW a \in expired
                 PROVE  Id(a) \in active_timers_' \cup cancelled \cup over
      OBVIOUS
    <3>1. CASE heap[a].interval_ms_ = 0
      BY <2>1, <3>1 DEF Kept, RanToEnd
    <3>2. CASE heap[a].interval_ms_ # 0
      <4>1. heap[a].interval_ms_ > 0
        BY <1>0, <3>2 DEF TypeOK
      <4> QED
        BY <2>1, <4>1 DEF Repeats, Kept, Noted
    <3> QED
      BY <3>1, <3>2
  <2>3. NoTimerLost'
    BY <1>q, <1>p, <2>1, <2>2, SameQueue
  <2> QED
    BY <1>0, <2>1, <2>3 DEF Kept, RanToEnd, Noted
<1>10. ASSUME NEW a \in Addrs, Run(a) PROVE Kept'
  <2>1. /\ todo' = todo \ {a} /\ over \subseteq over'
        /\ heap[a].interval_ms_ = 0 => Id(a) \in over'
        /\ UNCHANGED <<heap, functors, ids, expired, active_timers_, cancelled, cancel_timers_>>
    BY <1>10 DEF Run
  <2>2. \A b : Id(b)' = Id(b)
    BY <2>1 DEF Id
  <2>3. NoTimerLost'
    BY <1>q, <1>p, <2>1, <2>2, SameQueue
  <2> QED
    BY <1>0, <2>1, <2>2, <2>3 DEF Kept, RanToEnd, Noted
<1>11. CASE Tick
  <2>1. /\ UNCHANGED <<functors, ids, over, expired, todo, active_timers_, cancelled, cancel_timers_>>
        /\ \A a \in Addrs : heap'[a].sequence_ = heap[a].sequence_ /\ heap'[a].interval_ms_ = heap[a].interval_ms_
    BY <1>0, <1>11 DEF Tick, TypeOK
  <2>2. \A a \in expired : Id(a)' = Id(a) /\ heap'[a].interval_ms_ = heap[a].interval_ms_
    BY <1>0, <2>1 DEF Id, TypeOK
  <2>3. NoTimerLost'
    BY <1>q, <1>p, <2>1, <2>2, SameQueue
  <2> QED
    BY <1>0, <2>1, <2>2, <2>3 DEF Kept, RanToEnd, Noted
<1>12. CASE UNCHANGED vars
  BY <1>0, <1>12, SameQueue DEF Kept, NoTimerLost, RanToEnd, Noted, vars, roundVars, Id
<1> QED
  BY <1>1, <1>2, <1>3, <1>4, <1>5, <1>6, <1>7, <1>8, <1>9, <1>10, <1>11, <1>12 DEF Next

\* A Timer that was created is on its way, waits, is in the round, was cancelled or ran to
\* its end (cancel_timer_in_loop compares the sequence number; reset).
THEOREM NoneLost == Spec => []NoTimerLost
<1>1. Kept => NoTimerLost
  BY DEF Kept
<1> QED
  BY KeptInit, KeptStep, <1>1, PTL DEF Spec

-----------------------------------------------------------------------------
(* A cancel is final.                                                       *)

\* The TimerIds that the queue and its history know were returned, and were numbered.
KnownIds ==
  /\ cancelled \subseteq ids
  /\ \A i \in 1..Len(functors) : functors[i].id \in ids
  /\ \A id \in ids : id.sequence < num_created_timers_

\* A cancel is queued behind the add of its Timer.
CancelsBehind ==
  \A i, j \in 1..Len(functors) :
    /\ functors[i].fn = "cancel_timer_in_loop" /\ functors[j].fn = "add_timer_in_loop"
    /\ functors[i].id = functors[j].id
    => j < i

QueuedNotCancelled == Queued \cap cancelled = {}

\* A Timer of the round that was cancelled was cancelled in the round.
CancelledInRound ==
  \A a \in expired : Id(a) \in cancelled => Id(a) \in cancel_timers_

Final == /\ Owned /\ KnownIds /\ CancelsBehind /\ QueuedNotCancelled
         /\ CancelledInRound /\ CancelIsFinal

\* No Timer of an empty TimerQueue is cancelled.
LEMMA FinalInit == Init => Final
<1> SUFFICES ASSUME Init PROVE Final
  OBVIOUS
<1>1. 1..Len(functors) = {} /\ Posted = {}
  BY DEF Init, Posted
<1> QED
  BY <1>1, OwnedInit DEF Final, KnownIds, CancelsBehind, QueuedNotCancelled,
     CancelledInRound, CancelIsFinal, Init, Queued

\* A new TimerId is not one of those that are known.
LEMMA NewIsUnknown ==
  ASSUME TypeOK, KnownIds, NEW a
  PROVE  [timer |-> a, sequence |-> num_created_timers_] \notin ids
BY DEF KnownIds, TypeOK

\* Cancelling a Timer that is not on its way is final.
LEMMA CancelFinal ==
  ASSUME Final, NEW id \in Ids, CancelInLoop(id), id \notin Queued', Queued' \subseteq Queued,
         UNCHANGED expired
  PROVE  QueuedNotCancelled' /\ CancelledInRound' /\ CancelIsFinal'
<1>1. /\ active_timers_' = active_timers_ \ {id} /\ cancelled' = cancelled \cup {id}
      /\ cancel_timers_ \subseteq cancel_timers_'
      /\ run_expired_timers_ /\ id \notin active_timers_ => id \in cancel_timers_'
      /\ \A a \in expired : Id(a)' = Id(a)
  BY CancelIds DEF Final
<1>2. \A a \in expired : run_expired_timers_ /\ Id(a) \notin active_timers_
  BY DEF Final, Owned, TimersOwned, Id
<1>3. CancelledInRound'
  BY <1>1, <1>2 DEF Final, CancelledInRound
<1> QED
  BY <1>1, <1>3 DEF Final, QueuedNotCancelled, CancelIsFinal

\* If a TimerId names one Timer only, every step keeps what is cancelled from waiting again.
LEMMA FinalStep == ~SharesIds /\ Final /\ [Next]_vars => Final'
<1> SUFFICES ASSUME ~SharesIds, Final, [Next]_vars PROVE Final'
  OBVIOUS
<1>0. Owned' /\ Owned /\ TypeOK /\ TypeOK' /\ Distinct
  BY OwnedStep DEF Final, Owned, TimersOwned, Distinct
<1> USE DEF Final
<1>1. ASSUME NEW a \in Addrs, NEW left \in Delays, NEW interval \in Intervals,
             AddOwn(a, left, interval)
      PROVE  Final'
  <2> DEFINE id == [timer |-> a, sequence |-> num_created_timers_]
  <2>1. /\ ids' = ids \cup {id} /\ active_timers_' = active_timers_ \cup {id}
        /\ num_created_timers_' = num_created_timers_ + 1
        /\ UNCHANGED <<functors, expired, cancelled, cancel_timers_>>
    BY <1>1 DEF AddOwn, New, Insert, roundVars
  <2>2. \A b \in expired : Id(b)' = Id(b)
    BY <1>0, <1>1, NewIds DEF AddOwn
  <2>3. id \notin ids
    BY <1>0, NewIsUnknown
  <2>4. KnownIds'
    <3>1. \A i \in ids : i.sequence \in Int
      BY <1>0 DEF TypeOK, Ids
    <3> QED
      BY <1>0, <2>1, <3>1 DEF KnownIds, TypeOK
  <2>5. CancelIsFinal'
    BY <2>1, <2>3 DEF CancelIsFinal, KnownIds
  <2>6. CancelsBehind' /\ QueuedNotCancelled'
    BY <2>1, SameQueue DEF CancelsBehind, QueuedNotCancelled
  <2>7. CancelledInRound'
    BY <2>1, <2>2 DEF CancelledInRound
  <2> QED
    BY <1>0, <2>4, <2>5, <2>6, <2>7
<1>2. ASSUME NEW a \in Addrs, NEW left \in Delays, NEW interval \in Intervals,
             AddForeign(a, left, interval)
      PROVE  Final'
  <2> DEFINE id == [timer |-> a, sequence |-> num_created_timers_]
             f  == [fn |-> "add_timer_in_loop", id |-> id]
  <2>1. /\ ids' = ids \cup {id} /\ functors' = Append(functors, f) /\ f \in Functors
        /\ num_created_timers_' = num_created_timers_ + 1
        /\ a \notin allocated
        /\ UNCHANGED <<active_timers_, expired, cancelled, cancel_timers_>>
    BY <1>0, <1>2 DEF AddForeign, New, roundVars, Functors, Ids, TypeOK
  <2>2. \A b \in expired : Id(b)' = Id(b)
    BY <1>0, <1>2, NewIds DEF AddForeign
  <2>3. id \notin ids
    BY <1>0, NewIsUnknown
  <2>4. /\ Len(functors') = Len(functors) + 1 /\ functors'[Len(functors) + 1] = f
        /\ \A i \in 1..Len(functors) : functors'[i] = functors[i]
        /\ Len(functors) \in Nat
    BY <1>0, <2>1, AppendFunctor, LenProperties DEF TypeOK
  <2>5. \A q \in Queued : q.timer # a
    BY <1>0, <2>1 DEF Owned, TimersOwned
  <2>6. Queued' = Queued \cup {id}
    BY <1>0, <2>1, <2>5, PostAdd
  <2>7. \A i \in 1..Len(functors') : i \in 1..Len(functors) \/ i = Len(functors) + 1
    BY <2>4
  <2>8. KnownIds'
    <3>1. \A i \in ids : i.sequence \in Int
      BY <1>0 DEF TypeOK, Ids
    <3>2. \A i \in ids' : i.sequence < num_created_timers_'
      BY <1>0, <2>1, <3>1 DEF KnownIds, TypeOK
    <3> QED
      BY <2>1, <2>4, <2>7, <3>2 DEF KnownIds
  <2>9. CancelsBehind'
    <3> SUFFICES ASSUME NEW i \in 1..Len(functors'), NEW j \in 1..Len(functors'),
                        functors'[i].fn = "cancel_timer_in_loop",
                        functors'[j].fn = "add_timer_in_loop",
                        functors'[i].id = functors'[j].id
                 PROVE  j < i
      BY DEF CancelsBehind
    <3>1. i \in 1..Len(functors) /\ functors[i].id \in ids
      BY <2>4, <2>7 DEF KnownIds
    <3>2. j \in 1..Len(functors)
      BY <2>3, <2>4, <2>7, <3>1
    <3> QED
      BY <2>4, <3>1, <3>2 DEF CancelsBehind
  <2>10. QueuedNotCancelled'
    BY <2>1, <2>3, <2>6 DEF QueuedNotCancelled, KnownIds
  <2> QED
    BY <1>0, <2>1, <2>2, <2>8, <2>9, <2>10 DEF CancelledInRound, CancelIsFinal
<1>3. ASSUME NEW id \in ids, CancelOwn(id) PROVE Final'
  <2>1. id \in Ids /\ id \notin Queued' /\ Queued' = Queued
    BY <1>0, <1>3, SameQueue DEF TypeOK, CancelOwn
  <2>2. QueuedNotCancelled' /\ CancelledInRound' /\ CancelIsFinal'
    BY <1>3, <2>1, CancelFinal DEF CancelOwn, roundVars
  <2>3. cancelled' = cancelled \cup {id}
    BY <1>3 DEF CancelOwn, CancelInLoop
  <2>4. KnownIds' /\ CancelsBehind'
    BY <1>3, <2>3 DEF CancelOwn, KnownIds, CancelsBehind
  <2> QED
    BY <1>0, <2>2, <2>4
<1>4. ASSUME NEW id \in ids, CancelForeign(id) PROVE Final'
  <2> DEFINE f == [fn |-> "cancel_timer_in_loop", id |-> id]
  <2>1. f \in Functors /\ functors' = Append(functors, f)
    BY <1>0, <1>4 DEF TypeOK, Functors, CancelForeign
  <2>2. Queued' = Queued
    BY <1>0, <2>1, PostCancel
  <2>3. /\ Len(functors') = Len(functors) + 1 /\ functors'[Len(functors) + 1] = f
        /\ \A i \in 1..Len(functors) : functors'[i] = functors[i]
        /\ Len(functors) \in Nat
    BY <1>0, <2>1, AppendFunctor, LenProperties DEF TypeOK
  <2>4. \A i \in 1..Len(functors') : i \in 1..Len(functors) \/ i = Len(functors) + 1
    BY <2>3
  <2>5. KnownIds'
    BY <1>4, <2>3, <2>4 DEF CancelForeign, KnownIds
  <2>6. CancelsBehind'
    <3> SUFFICES ASSUME NEW i \in 1..Len(functors'), NEW j \in 1..Len(functors'),
                        functors'[i].fn = "cancel_timer_in_loop",
                        functors'[j].fn = "add_timer_in_loop",
                        functors'[i].id = functors'[j].id
                 PROVE  j < i
      BY DEF CancelsBehind
    <3>1. j \in 1..Len(functors)
      BY <2>3, <2>4
    <3>2. CASE i = Len(functors) + 1
      BY <2>3, <3>1, <3>2
    <3>3. CASE i \in 1..Len(functors)
      BY <2>3, <3>1, <3>3 DEF CancelsBehind
    <3> QED
      BY <2>4, <3>2, <3>3
  <2> QED
    BY <1>0, <1>4, <2>2, <2>5, <2>6
       DEF CancelForeign, QueuedNotCancelled, CancelledInRound, CancelIsFinal, Id, roundVars
<1>5. ASSUME functors # <<>>, functors' = Tail(functors)
      PROVE  /\ CancelsBehind'
             /\ \A i \in 1..Len(functors') : functors'[i].id \in ids
             /\ Head(functors).id \in ids
             /\ Head(functors).fn = "cancel_timer_in_loop" => Head(functors).id \notin Queued
  <2>1. /\ Head(functors) = functors[1] /\ 1 \in 1..Len(functors)
        /\ \A i \in 1..Len(functors') : /\ i + 1 \in 1..Len(functors)
                                       /\ functors'[i] = functors[i + 1]
    BY <1>0, <1>5, TailFunctor
  <2>2. CancelsBehind'
    <3> SUFFICES ASSUME NEW i \in 1..Len(functors'), NEW j \in 1..Len(functors'),
                        functors'[i].fn = "cancel_timer_in_loop",
                        functors'[j].fn = "add_timer_in_loop",
                        functors'[i].id = functors'[j].id
                 PROVE  j < i
      BY DEF CancelsBehind
    <3>1. /\ i + 1 \in 1..Len(functors) /\ functors'[i] = functors[i + 1]
          /\ j + 1 \in 1..Len(functors) /\ functors'[j] = functors[j + 1]
      BY <2>1
    <3>2. j + 1 < i + 1
      BY <3>1 DEF CancelsBehind
    <3> QED
      BY <3>2
  <2>3. \A j \in Posted : j \in 1..Len(functors) /\ ~(j < 1)
    BY DEF Posted
  <2>4. Head(functors).fn = "cancel_timer_in_loop" => Head(functors).id \notin Queued
    BY <2>1, <2>3 DEF CancelsBehind, Queued, Posted
  <2> QED
    BY <2>1, <2>2, <2>4 DEF KnownIds
<1>6. CASE RunAdd
  <2>1. PICK id : id = Head(functors).id
    OBVIOUS
  <2>2. id \in Queued /\ Queued' = Queued \ {id}
    BY <1>0, <1>6, <2>1, TakeAdd DEF RunAdd
  <2>3. /\ active_timers_' = active_timers_ \cup {id}
        /\ functors # <<>> /\ functors' = Tail(functors)
        /\ UNCHANGED <<heap, ids, num_created_timers_, expired, cancelled, cancel_timers_>>
    BY <1>6, <2>1 DEF RunAdd, Insert, roundVars
  <2>4. CancelsBehind' /\ \A i \in 1..Len(functors') : functors'[i].id \in ids
    BY <1>5, <2>3
  <2> QED
    BY <1>0, <2>2, <2>3, <2>4
       DEF KnownIds, QueuedNotCancelled, CancelledInRound, CancelIsFinal, Id
<1>7. CASE RunCancel
  <2>1. PICK id : id = Head(functors).id
    OBVIOUS
  <2>2. /\ CancelInLoop(id) /\ functors # <<>> /\ functors' = Tail(functors)
        /\ Head(functors).fn = "cancel_timer_in_loop"
        /\ UNCHANGED <<ids, num_created_timers_, expired>>
    BY <1>7, <2>1 DEF RunCancel, roundVars
  <2>3. /\ CancelsBehind' /\ id \in ids /\ id \notin Queued
        /\ \A i \in 1..Len(functors') : functors'[i].id \in ids
    BY <1>5, <2>1, <2>2
  <2>4. Queued' = Queued /\ id \in Ids
    BY <1>0, <2>2, <2>3, TakeCancel DEF TypeOK
  <2>5. QueuedNotCancelled' /\ CancelledInRound' /\ CancelIsFinal'
    BY <2>2, <2>3, <2>4, CancelFinal
  <2>6. KnownIds'
    BY <2>2, <2>3 DEF KnownIds, CancelInLoop
  <2> QED
    BY <1>0, <2>3, <2>5, <2>6
<1>8. CASE Poll
  <2>1. UNCHANGED <<heap, functors, ids, num_created_timers_, cancelled, expired, cancel_timers_,
                    active_timers_>>
    BY <1>8 DEF Poll
  <2> QED
    BY <1>0, <2>1, SameQueue DEF KnownIds, CancelsBehind, QueuedNotCancelled,
                                  CancelledInRound, CancelIsFinal, Id
<1>9. CASE HandleRead
  <2>1. /\ expired' = Due /\ active_timers_' \subseteq active_timers_
        /\ UNCHANGED <<heap, functors, ids, num_created_timers_, cancelled>>
    BY <1>9 DEF HandleRead
  <2>2. \A a \in Due : Id(a) \in active_timers_ /\ Id(a)' = Id(a)
    BY <1>0, <2>1 DEF Due, Owned, TimersOwned, Id
  <2>3. CancelledInRound' /\ CancelIsFinal'
    BY <2>1, <2>2 DEF CancelledInRound, CancelIsFinal
  <2> QED
    BY <1>0, <2>1, <2>3, SameQueue DEF KnownIds, CancelsBehind, QueuedNotCancelled
<1>10. CASE Reset
  <2>1. /\ expired' = {} /\ active_timers_' = active_timers_ \cup {Id(a) : a \in Repeats}
        /\ UNCHANGED <<functors, ids, num_created_timers_, cancelled>>
    BY <1>10 DEF Reset
  <2>2. \A a \in Repeats : Id(a) \notin cancelled
    BY DEF Repeats, CancelledInRound
  <2>3. CancelledInRound' /\ CancelIsFinal'
    BY <2>1, <2>2 DEF CancelledInRound, CancelIsFinal
  <2> QED
    BY <1>0, <2>1, <2>3, SameQueue DEF KnownIds, CancelsBehind, QueuedNotCancelled
<1>11. ASSUME NEW a \in Addrs, Run(a) PROVE Final'
  <2>1. UNCHANGED <<heap, functors, ids, num_created_timers_, cancelled, expired, cancel_timers_,
                    active_timers_>>
    BY <1>11 DEF Run
  <2> QED
    BY <1>0, <2>1, SameQueue DEF KnownIds, CancelsBehind, QueuedNotCancelled,
                                  CancelledInRound, CancelIsFinal, Id
<1>12. CASE Tick
  <2>1. UNCHANGED <<functors, ids, num_created_timers_, cancelled, expired, cancel_timers_,
                    active_timers_>>
    BY <1>12 DEF Tick
  <2>2. \A a \in Addrs : heap'[a].sequence_ = heap[a].sequence_
    BY <1>0, <1>12 DEF Tick, TypeOK
  <2>3. \A a \in expired : Id(a)' = Id(a)
    BY <1>0, <2>2 DEF Id, TypeOK
  <2> QED
    BY <1>0, <2>1, <2>3, SameQueue DEF KnownIds, CancelsBehind, QueuedNotCancelled,
                                        CancelledInRound, CancelIsFinal
<1>13. CASE UNCHANGED vars
  <2>1. UNCHANGED <<heap, functors, ids, num_created_timers_, cancelled, expired, cancel_timers_,
                    active_timers_>>
    BY <1>13 DEF vars, roundVars
  <2> QED
    BY <1>0, <2>1, SameQueue DEF KnownIds, CancelsBehind, QueuedNotCancelled,
                                  CancelledInRound, CancelIsFinal, Id
<1> QED
  BY <1>1, <1>2, <1>3, <1>4, <1>6, <1>7, <1>8, <1>9, <1>10, <1>11, <1>12, <1>13 DEF Next

\* While callbacks cancel only Timers that the loop has, a Timer whose cancel was carried
\* out does not wait again (cancel_timer_in_loop, reset).
THEOREM CancelsAreFinal == ~SharesIds => (Spec => []CancelIsFinal)
<1> SUFFICES ASSUME ~SharesIds PROVE Spec => []CancelIsFinal
  OBVIOUS
<1>1. Final /\ [Next]_vars => Final'
  BY FinalStep
<1>2. Final => CancelIsFinal
  BY DEF Final
<1> QED
  BY FinalInit, <1>1, <1>2, PTL DEF Spec

-----------------------------------------------------------------------------
(* The timerfd is set for the earliest Timer, if an int holds the times.      *)

InRange(d) == 2 * d < IntRange

Near == InRange(1) /\ InRange(MaxInterval) /\ \A d \in Delays : InRange(d)

HeapInRange ==
  \A a \in Addrs : InRange(heap[a].expiration_) /\ heap[a].interval_ms_ <= MaxInterval

Set == Owned /\ HeapInRange /\ ArmedForEarliest

\* In range, reset_timerfd sets what it is told, or one tick.
LEMMA ArmedInRange ==
  ASSUME Near, NEW left \in Nat, InRange(left)
  PROVE  Armed(left) = AtLeast(1, left) /\ AtLeast(1, left) \in Nat \ {0}
<1> DEFINE d == AtLeast(1, left)
<1>1. d \in Nat \ {0} /\ InRange(d)
  BY DEF AtLeast, Near
<1> HIDE DEF d
<1>2. IntRange \in Nat \ {0} /\ d < IntRange
  BY <1>1, TimerAssumption DEF InRange
<1>3. d % IntRange = d
  BY <1>1, <1>2
<1>4. Narrowed(d) = d
  BY <1>1, <1>2, <1>3 DEF Narrowed, InRange
<1> QED
  BY <1>1, <1>4 DEF Armed, d

\* insert, with the time of the new Timer.
LEMMA InsertSet ==
  ASSUME Near, Set, NEW a \in Addrs, NEW id, NEW left \in Nat, InRange(left), Insert(a, id, left),
         a \notin timers_, heap'[a].expiration_ = left,
         \A b \in Addrs : b # a => heap'[b] = heap[b], UNCHANGED run_expired_timers_
  PROVE  ArmedForEarliest'
<1> SUFFICES ASSUME ~run_expired_timers_
             PROVE  /\ alarm' # Off
                    /\ \A b \in timers_' : alarm' <= AtLeast(1, heap'[b].expiration_)
  BY DEF ArmedForEarliest
<1>1. Armed(left) = AtLeast(1, left) /\ AtLeast(1, left) \in Nat \ {0}
  BY ArmedInRange
<1>2. timers_' = timers_ \cup {a} /\ timers_ \subseteq Addrs /\ alarm \in Nat \cup {Off}
  BY DEF Insert, Set, Owned, TypeOK
<1>3. \A b \in timers_ : heap'[b] = heap[b] /\ heap[b].expiration_ \in Nat
  BY <1>2 DEF Set, Owned, TypeOK
<1>4. CASE (\A b \in timers_ : left <= heap[b].expiration_) /\ alarm' = Armed(left)
  <2>1. \A b \in timers_ : AtLeast(1, left) <= AtLeast(1, heap[b].expiration_)
    BY <1>3, <1>4 DEF AtLeast
  <2> QED
    BY <1>1, <1>2, <1>3, <1>4, <2>1
<1>5. CASE (\E b \in timers_ : heap[b].expiration_ <= left) /\ alarm' = alarm
  <2>1. PICK b \in timers_ : heap[b].expiration_ <= left
    BY <1>5
  <2>2. alarm # Off /\ \A c \in timers_ : alarm <= AtLeast(1, heap[c].expiration_)
    BY <2>1 DEF Set, ArmedForEarliest
  <2>3. AtLeast(1, heap[b].expiration_) <= AtLeast(1, left)
    BY <1>3, <2>1 DEF AtLeast
  <2>4. alarm <= AtLeast(1, left)
    <3>1. AtLeast(1, heap[b].expiration_) \in Nat /\ alarm \in Int
      BY <1>2, <1>3, <2>1 DEF AtLeast
    <3>2. alarm <= AtLeast(1, heap[b].expiration_)
      BY <2>1, <2>2
    <3> QED
      BY <1>1, <2>3, <3>1, <3>2
  <2> QED
    BY <1>2, <1>3, <1>5, <2>2, <2>4
<1>6. \/ (\A b \in timers_ : left <= heap[b].expiration_) /\ alarm' = Armed(left)
      \/ (\E b \in timers_ : heap[b].expiration_ <= left) /\ alarm' = alarm
  <2>1. PICK changed \in EarliestChanged(left) :
          alarm' = IF changed THEN Armed(left) ELSE alarm
    BY DEF Insert
  <2>2. CASE \A b \in timers_ : left < heap[b].expiration_
    <3>1. changed = TRUE
      BY <2>1, <2>2 DEF EarliestChanged
    <3> QED
      BY <1>3, <2>1, <2>2, <3>1
  <2>3. CASE \E b \in timers_ : ~(left < heap[b].expiration_)
    <3>1. \E b \in timers_ : heap[b].expiration_ <= left
      BY <1>3, <2>3
    <3>2. CASE left = 0 /\ changed = TRUE
      BY <1>3, <2>1, <3>2
    <3>3. CASE changed = FALSE
      BY <2>1, <3>1, <3>3
    <3>4. (left = 0 /\ changed \in BOOLEAN) \/ changed = FALSE
      BY <2>1, <2>3 DEF EarliestChanged
    <3> QED
      BY <3>2, <3>3, <3>4
  <2> QED
    BY <2>2, <2>3
<1> QED
  BY <1>4, <1>5, <1>6

\* An empty TimerQueue needs no time set.
LEMMA SetInit == Near /\ Init => Set
<1> SUFFICES ASSUME Near, Init PROVE Set
  OBVIOUS
<1>1. HeapInRange
  <2>1. \A a \in Addrs : heap[a].expiration_ = 0 /\ heap[a].interval_ms_ = 0
    BY DEF Init, Blank, Timer
  <2>2. IntRange \in Nat \ {0} /\ MaxInterval \in Nat
    BY TimerAssumption
  <2>3. InRange(0) /\ 0 <= MaxInterval
    BY <2>2 DEF InRange
  <2> QED
    BY <2>1, <2>3 DEF HeapInRange
<1> QED
  BY <1>1, OwnedInit DEF Init, Set, ArmedForEarliest

\* cancel_timer_in_loop leaves the timerfd, and the times of the others.
LEMMA CancelSet ==
  ASSUME Set, NEW id \in Ids, CancelInLoop(id), UNCHANGED <<alarm, run_expired_timers_>>
  PROVE  HeapInRange' /\ ArmedForEarliest'
<1>1. /\ timers_' \subseteq timers_ /\ timers_ \subseteq Addrs
      /\ \A a \in timers_' : heap'[a] = heap[a]
  BY DEF CancelInLoop, Delete, Set, Owned, TypeOK
<1>2. HeapInRange'
  BY TimerAssumption DEF CancelInLoop, Delete, Blank, Timer, Set, HeapInRange, InRange
<1> QED
  BY <1>1, <1>2 DEF Set, ArmedForEarliest

\* Every step sets the timerfd no later than the earliest Timer, and stays in the range of an int.
LEMMA SetStep == Near /\ Set /\ [Next]_vars => Set'
<1> SUFFICES ASSUME Near, Set, [Next]_vars PROVE Set'
  OBVIOUS
<1>0. Owned' /\ Owned /\ TypeOK /\ TypeOK'
  BY OwnedStep DEF Set, Owned
<1> USE DEF Set
<1>1. ASSUME NEW a \in Addrs, NEW left \in Delays, NEW interval \in Intervals,
             AddOwn(a, left, interval)
      PROVE  Set'
  <2>1. /\ left \in Nat /\ InRange(left) /\ a \notin timers_
        /\ heap'[a].expiration_ = left /\ heap'[a].interval_ms_ = interval
        /\ interval \in 0..MaxInterval
        /\ \A b \in Addrs : b # a => heap'[b] = heap[b]
        /\ UNCHANGED run_expired_timers_
    BY <1>0, <1>1, TimerAssumption DEF AddOwn, New, Timer, Near, Owned, TimersOwned, TypeOK, roundVars
  <2>2. HeapInRange'
    BY <2>1 DEF HeapInRange
  <2>3. ArmedForEarliest'
    BY <1>1, <2>1, InsertSet DEF AddOwn
  <2> QED
    BY <1>0, <2>2, <2>3
<1>2. ASSUME NEW a \in Addrs, NEW left \in Delays, NEW interval \in Intervals,
             AddForeign(a, left, interval)
      PROVE  Set'
  <2>1. /\ InRange(left) /\ a \notin timers_ /\ heap'[a].expiration_ = left
        /\ heap'[a].interval_ms_ = interval /\ interval \in 0..MaxInterval
        /\ \A b \in Addrs : b # a => heap'[b] = heap[b]
        /\ timers_ \subseteq Addrs
        /\ UNCHANGED <<timers_, alarm, run_expired_timers_>>
    BY <1>0, <1>2, TimerAssumption
       DEF AddForeign, New, Timer, Near, Owned, TimersOwned, TypeOK, roundVars
  <2>2. HeapInRange'
    BY <2>1 DEF HeapInRange
  <2>3. \A b \in timers_ : heap'[b] = heap[b]
    BY <2>1
  <2> QED
    BY <1>0, <2>1, <2>2, <2>3 DEF ArmedForEarliest
<1>3. ASSUME NEW id \in ids, CancelOwn(id) PROVE Set'
  BY <1>0, <1>3, CancelSet DEF CancelOwn, TypeOK, roundVars
<1>4. ASSUME NEW id \in ids, CancelForeign(id) PROVE Set'
  BY <1>0, <1>4 DEF CancelForeign, HeapInRange, ArmedForEarliest, roundVars
<1>5. CASE RunAdd
  <2>1. Head(functors).id \in Ids /\ Head(functors).id.timer \in Addrs
    BY <1>0, <1>5, FunctorTypes DEF RunAdd, Functors, Ids, TypeOK
  <2>2. PICK id \in Ids, a \in Addrs : id = Head(functors).id /\ a = id.timer
    BY <2>1
  <2>3. id \in Queued
    BY <1>0, <1>5, <2>2, TakeAdd DEF RunAdd, Owned, TimersOwned, Distinct
  <2>4. /\ a \notin timers_ /\ heap[a].expiration_ \in Nat /\ InRange(heap[a].expiration_)
    BY <1>0, <2>2, <2>3 DEF Owned, TimersOwned, TypeOK, HeapInRange
  <2>5. /\ Insert(a, id, heap[a].expiration_) /\ UNCHANGED <<heap, run_expired_timers_>>
    BY <1>5, <2>2 DEF RunAdd, roundVars
  <2>6. ArmedForEarliest'
    BY <2>4, <2>5, InsertSet
  <2> QED
    BY <1>0, <2>5, <2>6 DEF HeapInRange
<1>6. CASE RunCancel
  <2>1. Head(functors).id \in Ids
    BY <1>0, <1>6, FunctorTypes DEF RunCancel, Functors, TypeOK
  <2> QED
    BY <1>0, <1>6, <2>1, CancelSet DEF RunCancel, roundVars
<1>7. CASE Poll
  BY <1>0, <1>7 DEF Poll, HeapInRange, ArmedForEarliest
<1>8. CASE HandleRead
  BY <1>0, <1>8 DEF HandleRead, HeapInRange, ArmedForEarliest
<1>9. CASE Reset
  <2>0. \A a \in Addrs : heap'[a].interval_ms_ <= MaxInterval
    BY <1>0, <1>9, TimerAssumption
       DEF Reset, Repeats, Restarted, Blank, Timer, HeapInRange, TypeOK
  <2>1. \A a \in Addrs : heap'[a].expiration_ \in Nat /\ InRange(heap'[a].expiration_)
    <3> SUFFICES ASSUME NEW a \in Addrs PROVE InRange(heap'[a].expiration_)
      BY <1>0 DEF TypeOK
    <3>1. CASE a \in Repeats
      <4>1. heap'[a].expiration_ = AtLeast(0, heap[a].interval_ms_ - age)
        BY <1>0, <1>9, <3>1 DEF Reset, Restarted, TypeOK
      <4>2. heap[a].interval_ms_ \in 0..MaxInterval /\ age \in Nat
        BY <1>0, TimerAssumption DEF TypeOK, HeapInRange
      <4>3. heap'[a].expiration_ \in 0..MaxInterval
        BY <4>1, <4>2, TimerAssumption DEF AtLeast
      <4> QED
        BY <4>3, TimerAssumption DEF Near, InRange
    <3>2. CASE a \in expired \ Repeats
      BY <1>9, <3>2, TimerAssumption DEF Reset, Blank, Timer, InRange
    <3>3. CASE a \notin expired
      BY <1>9, <3>3 DEF Reset, Repeats, HeapInRange
    <3> QED
      BY <3>1, <3>2, <3>3
  <2>2. ArmedForEarliest'
    <3>1. CASE timers_' = {}
      BY <3>1 DEF ArmedForEarliest
    <3>2. CASE timers_' # {}
      <4>1. PICK a \in timers_' :
              /\ \A b \in timers_' : heap'[a].expiration_ <= heap'[b].expiration_
              /\ alarm' = Armed(heap'[a].expiration_)
        BY <1>9, <3>2 DEF Reset
      <4>2. timers_' \subseteq Addrs
        BY <1>0 DEF TypeOK
      <4>3. alarm' = AtLeast(1, heap'[a].expiration_) /\ alarm' \in Nat \ {0}
        BY <2>1, <4>1, <4>2, ArmedInRange
      <4>4. \A b \in timers_' : alarm' <= AtLeast(1, heap'[b].expiration_)
        BY <2>1, <4>1, <4>2, <4>3 DEF AtLeast
      <4> QED
        BY <4>3, <4>4 DEF ArmedForEarliest
    <3> QED
      BY <3>1, <3>2
  <2> QED
    BY <1>0, <2>0, <2>1, <2>2 DEF HeapInRange
<1>10. ASSUME NEW a \in Addrs, Run(a) PROVE Set'
  BY <1>0, <1>10 DEF Run, HeapInRange, ArmedForEarliest
<1>11. CASE Tick
  <2>1. /\ \A a \in Addrs : /\ heap'[a].expiration_ = AtLeast(0, heap[a].expiration_ - 1)
                             /\ heap'[a].interval_ms_ = heap[a].interval_ms_
        /\ \A a \in Addrs : heap[a].expiration_ \in Nat
    BY <1>0, <1>11 DEF Tick, TypeOK
  <2>2. HeapInRange'
    BY <2>1, TimerAssumption DEF HeapInRange, InRange, AtLeast
  <2>3. ArmedForEarliest'
    <3>1. /\ alarm' = IF alarm > 0 THEN alarm - 1 ELSE alarm
          /\ UNCHANGED <<timers_, run_expired_timers_>>
          /\ timers_ \subseteq Addrs /\ alarm \in Nat \cup {Off}
      BY <1>0, <1>11 DEF Tick, TypeOK
    <3>2. ASSUME timers_ # {}, ~run_expired_timers_, NEW a \in timers_
          PROVE  alarm' <= AtLeast(1, heap'[a].expiration_)
      <4>1. alarm <= AtLeast(1, heap[a].expiration_) /\ a \in Addrs
        BY <3>1, <3>2 DEF ArmedForEarliest
      <4> QED
        BY <2>1, <3>1, <4>1 DEF AtLeast
    <3> QED
      BY <3>1, <3>2 DEF ArmedForEarliest
  <2> QED
    BY <1>0, <2>2, <2>3
<1>12. CASE UNCHANGED vars
  BY <1>0, <1>12 DEF vars, roundVars, HeapInRange, ArmedForEarliest
<1> QED
  BY <1>1, <1>2, <1>3, <1>4, <1>5, <1>6, <1>7, <1>8, <1>9, <1>10, <1>11, <1>12 DEF Next

\* If no delay or interval leaves the range of an int, the timerfd is set for the earliest
\* Timer between rounds (insert, reset, time_from_now).
THEOREM EarliestIsArmed == Near => (Spec => []ArmedForEarliest)
<1> SUFFICES ASSUME Near PROVE Spec => []ArmedForEarliest
  OBVIOUS
<1>1. Init => Set
  BY SetInit
<1>2. Set /\ [Next]_vars => Set'
  BY SetStep
<1>3. Set => ArmedForEarliest
  BY DEF Set
<1> QED
  BY <1>1, <1>2, <1>3, PTL DEF Spec
=============================================================================
