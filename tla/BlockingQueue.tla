--------------------------- MODULE BlockingQueue ---------------------------
(***************************************************************************)
(* core/include/blocking_queue.hpp: an unbounded queue between threads.     *)
(* push() notifies one waiting pop() after it unlocked mtx_, and drain()    *)
(* takes everything and notifies nobody.                                    *)
(*                                                                         *)
(* What a thread does under mtx_ is one step.  A thread that waits in pop() *)
(* is asleep in cond_var_, or awake: it left the wait, notified or not, and *)
(* will look at the queue again.                                            *)
(***************************************************************************)
EXTENDS Naturals, Sequences, FiniteSets

CONSTANTS
  Threads,      \* the threads that use the queue
  Elements      \* what they push

VARIABLES
  queue_,
  awake,        \* the threads that left cond_var_ and will look again
  asleep,       \* the threads that wait in cond_var_
  notifying     \* the threads between push()'s unlock and its notify_one

vars == <<queue_, awake, asleep, notifying>>

Busy == awake \cup asleep \cup notifying

Init ==
  /\ queue_ = <<>>
  /\ awake = {} /\ asleep = {} /\ notifying = {}

-----------------------------------------------------------------------------
\* push(), up to the unlock.
Push(t, e) ==
  /\ t \notin Busy
  /\ queue_' = Append(queue_, e)
  /\ notifying' = notifying \cup {t}
  /\ UNCHANGED <<awake, asleep>>

\* Mutant: push() notifies only when the queue was empty before.
NotifyOneFirst(t) ==
  /\ t \in notifying
  /\ notifying' = notifying \ {t}
  /\ IF asleep = {} \/ Len(queue_) > 1
     THEN UNCHANGED <<awake, asleep>>
     ELSE \E s \in asleep : awake' = awake \cup {s} /\ asleep' = asleep \ {s}
  /\ UNCHANGED queue_

\* push(): notify_one wakes one of the threads that wait, if any does.
NotifyOne(t) ==
  /\ t \in notifying
  /\ notifying' = notifying \ {t}
  /\ IF asleep = {}
     THEN UNCHANGED <<awake, asleep>>
     ELSE \E s \in asleep : awake' = awake \cup {s} /\ asleep' = asleep \ {s}
  /\ UNCHANGED queue_

\* pop(): the predicate of the wait holds, at once or after a wait.
PopTakes(t) ==
  /\ t \notin asleep \cup notifying
  /\ queue_ # <<>>
  /\ queue_' = Tail(queue_)
  /\ awake' = awake \ {t}
  /\ UNCHANGED <<asleep, notifying>>

\* pop(): the predicate does not hold.
PopWaits(t) ==
  /\ t \notin asleep \cup notifying
  /\ queue_ = <<>>
  /\ awake' = awake \ {t}
  /\ asleep' = asleep \cup {t}
  /\ UNCHANGED <<queue_, notifying>>

\* A wait may end without a notification.
PopWakes(t) ==
  /\ t \in asleep
  /\ asleep' = asleep \ {t}
  /\ awake' = awake \cup {t}
  /\ UNCHANGED <<queue_, notifying>>

Drain(t) ==
  /\ t \notin Busy
  /\ queue_' = <<>>
  /\ UNCHANGED <<awake, asleep, notifying>>

Popping(t) == PopTakes(t) \/ PopWaits(t)

Next == \E t \in Threads :
  \/ \E e \in Elements : Push(t, e)
  \/ NotifyOne(t)
  \/ Popping(t)
  \/ PopWakes(t)
  \/ Drain(t)

Spec == Init /\ [][Next]_vars

-----------------------------------------------------------------------------
TypeOK ==
  /\ queue_ \in Seq(Elements)
  /\ awake \subseteq Threads /\ asleep \subseteq Threads
  /\ notifying \subseteq Threads

\* Beside a thread that sleeps in pop() there are never more elements than
\* threads that are about to take one or to wake a sleeper: push() wakes a
\* thread for every element, also when another thread took the one before, and
\* drain() need not wake anybody (blocking_queue.hpp, push, pop and drain).
NoSleeperBesideElement ==
  asleep # {} => Len(queue_) <= Cardinality(awake) + Cardinality(notifying)
=============================================================================
