------------------------------ MODULE Executor ------------------------------
(***************************************************************************)
(* What an EventLoop promises to the threads that hand it work: a functor   *)
(* that was accepted runs at most once, in the order of acceptance, and     *)
(* nothing runs that was not accepted.  EventLoop.tla is shown to implement *)
(* this specification as long as its queue is not accessed by two threads   *)
(* at once; an executor whose queue was torn is 'broken' and promises       *)
(* nothing any more.                                                        *)
(***************************************************************************)
EXTENDS Sequences

CONSTANT Functors        \* the functors that may be posted, each at most once

VARIABLES
  pending,               \* accepted and not yet started, oldest first
  done,                  \* started, in the order in which they were started
  broken                 \* the queue was torn by two threads

vars == <<pending, done, broken>>

Init == pending = <<>> /\ done = <<>> /\ broken = FALSE

Post(f) ==
  /\ ~broken
  /\ pending' = Append(pending, f)
  /\ UNCHANGED <<done, broken>>

Run ==
  /\ ~broken
  /\ pending # <<>>
  /\ done' = Append(done, Head(pending))
  /\ pending' = Tail(pending)
  /\ UNCHANGED broken

Break ==
  /\ ~broken
  /\ pending' = <<>> /\ done' = <<>> /\ broken' = TRUE

Next == (\E f \in Functors : Post(f)) \/ Run \/ Break

Spec == Init /\ [][Next]_vars
=============================================================================
