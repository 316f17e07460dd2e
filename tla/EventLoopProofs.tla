-------------------------- MODULE EventLoopProofs --------------------------
(***************************************************************************)
(* Proofs about EventLoop for every set of threads and functors.            *)
(***************************************************************************)
EXTENDS EventLoop, SequenceTheorems, TLAPS

-----------------------------------------------------------------------------
(* Type correctness and the two supporting parts.                           *)

TypeInv == TypeOK /\ PostingMatches

\* The empty queue is a queue.
LEMMA EmptyQueue == <<>> \in Seq(Functors)
BY EmptySeq

\* Every variable keeps its type, and a thread in emplace_back holds a functor
\* (queue_in_loop, do_queued_functors, quit, loop).
LEMMA TypeInit == Init => TypeInv
BY NoFunctorAssumption, EmptyQueue DEF Init, TypeInv, TypeOK, PostingMatches, OwnerPC, ThreadPC

\* Every step keeps them.
LEMMA TypeStep == TypeInv /\ [Next]_vars => TypeInv'
<1> SUFFICES ASSUME TypeInv, [Next]_vars PROVE TypeInv'
  OBVIOUS
<1> USE NoFunctorAssumption DEF TypeInv, TypeOK, PostingMatches, OwnerPC, ThreadPC
<1>1. CASE RegisterWakeup
  BY <1>1 DEF RegisterWakeup, ownerVars, threadVars, history
<1>2. CASE QuitOwn
  BY <1>2 DEF QuitOwn, ownerVars, threadVars, history
<1>3. ASSUME NEW f \in Functors, QueueOwn(f) PROVE TypeInv'
  BY <1>3 DEF QueueOwn, ownerVars, threadVars, history
<1>4. CASE StartLoop
  BY <1>4 DEF StartLoop, Goto, sharedVars, threadVars, history
<1>5. CASE CheckQuit
  BY <1>5 DEF CheckQuit, Goto, sharedVars, threadVars, history
<1>6. CASE PollWakeup \/ PollIo \/ PollTimeout
  BY <1>6 DEF PollWakeup, PollIo, PollTimeout, PollReturns, sharedVars, threadVars, history
<1>7. CASE HandleWakeup
  BY <1>7 DEF HandleWakeup, threadVars, history
<1>8. CASE HandleIo
  BY <1>8 DEF HandleIo, sharedVars, threadVars, history
<1>9. CASE HandlerReturns
  BY <1>9 DEF HandlerReturns, Goto, sharedVars, threadVars, history
<1>10. CASE LockMtx
  BY <1>10 DEF LockMtx, sharedVars, threadVars
<1>11. CASE SwapOrReturn
  BY <1>11, EmptyQueue DEF SwapOrReturn, threadVars, history
<1>12. CASE CallFunctor
  <2>1. Head(functors) \in Functors /\ Tail(functors) \in Seq(Functors)
    BY <1>12, HeadTailProperties DEF CallFunctor
  <2> QED
    BY <1>12, <2>1 DEF CallFunctor, sharedVars, threadVars
<1>13. CASE FunctorReturns
  BY <1>13 DEF FunctorReturns, Goto, sharedVars, threadVars, history
<1>14. CASE BatchDone
  BY <1>14 DEF BatchDone, sharedVars, threadVars, history
<1>15. CASE Crash
  BY <1>15 DEF Crash, Goto, sharedVars, threadVars, history
<1>16. ASSUME NEW t \in Threads, NEW f \in Functors, LockMutex(t, f) PROVE TypeInv'
  BY <1>16 DEF LockMutex, ownerVars, sharedVars
<1>17. ASSUME NEW t \in Threads, EmplaceBack(t) PROVE TypeInv'
  <2>1. posting[t] \in Functors
    BY <1>17 DEF EmplaceBack
  <2>2. queue_functors_' \in Seq(Functors) /\ enqueued' \in Seq(Functors)
    <3>1. /\ Append(queue_functors_, posting[t]) \in Seq(Functors)
          /\ Append(enqueued, posting[t]) \in Seq(Functors)
      BY <2>1
    <3>2. queue_functors_' = Append(queue_functors_, posting[t]) \/ UNCHANGED queue_functors_
      BY <1>17 DEF EmplaceBack
    <3> QED
      BY <1>17, <3>1, <3>2 DEF EmplaceBack
  <2>3. PostingMatches'
    BY <1>17 DEF EmplaceBack
  <2> QED
    BY <1>17, <2>2, <2>3 DEF EmplaceBack, ownerVars
<1>18. ASSUME NEW t \in Threads, QuitForeign(t) PROVE TypeInv'
  BY <1>18 DEF QuitForeign, ownerVars, history
<1>19. ASSUME NEW t \in Threads, Wakeup(t) PROVE TypeInv'
  BY <1>19 DEF Wakeup, ownerVars, history
<1>20. CASE UNCHANGED vars
  BY <1>20 DEF vars, ownerVars, sharedVars, threadVars, history
<1>21. QED
  BY <1>1, <1>2, <1>3, <1>4, <1>5, <1>6, <1>7, <1>8, <1>9, <1>10, <1>11, <1>12,
     <1>13, <1>14, <1>15, <1>16, <1>17, <1>18, <1>19, <1>20
     DEF Next, UserStep, LoopStep, ThreadCall, ThreadStep

\* TypeOK holds in every reachable state, for any number of threads and functors.
THEOREM TypeCorrect == Spec => []TypeOK
<1>1. TypeInv => TypeOK
  BY DEF TypeInv
<1> QED
  BY TypeInit, TypeStep, <1>1, PTL DEF Spec

\* So they hold in every reachable state.
LEMMA TypeInvariant == Spec => []TypeInv
BY TypeInit, TypeStep, PTL DEF Spec

-----------------------------------------------------------------------------
(* No wakeup is lost.                                                       *)

WakeupInv == RunFlagMatchesLoop /\ NoLostWakeup

\* Nothing is queued before the first step.
LEMMA WakeupInit == Init => WakeupInv
BY EmptySeq DEF Init, WakeupInv, RunFlagMatchesLoop, NoLostWakeup

\* What is left of a queue that the owner or a thread appended f to.
LEMMA AppendElements ==
  ASSUME NEW S, NEW s \in Seq(S), NEW x \in S, NEW i \in 1..Len(Append(s, x))
  PROVE  \/ i \in 1..Len(s) /\ Append(s, x)[i] = s[i]
         \/ Append(s, x)[i] = x
OBVIOUS

\* The flag of do_queued_functors follows the loop, and who leaves something for a
\* loop that may sleep, or clears the eventfd, leaves a wakeup coming or a swap ahead.
LEMMA WakeupStep == TypeInv /\ WakeupInv /\ [Next]_vars => WakeupInv'
<1> SUFFICES ASSUME TypeInv, WakeupInv, [Next]_vars PROVE WakeupInv'
  OBVIOUS
<1> USE DEF WakeupInv, RunFlagMatchesLoop, NoLostWakeup, MaySleepFirst, WakeupComing
<1>1. CASE RegisterWakeup
  BY <1>1 DEF RegisterWakeup, ownerVars, threadVars, history
<1>2. CASE QuitOwn
  BY <1>2 DEF QuitOwn, InUserCode, ownerVars, threadVars, history
<1>3. ASSUME NEW f \in Functors, QueueOwn(f) PROVE WakeupInv'
  <2>1. pc = "functor" => wakeup_fd_'
    BY <1>3 DEF QueueOwn
  <2>2. pc \in {"created", "done"} => f \in early'
    BY <1>3 DEF QueueOwn, Looping
  <2>3. pc' = pc /\ run_queue_functors_' = run_queue_functors_ /\ tpc' = tpc
    BY <1>3 DEF QueueOwn, ownerVars, threadVars
  <2>4. wakeup_fd_ => wakeup_fd_'
    BY <1>3 DEF QueueOwn, TypeInv, TypeOK
  <2>5. ASSUME MaySleepFirst', NEW i \in 1..Len(queue_functors_'),
               queue_functors_'[i] \notin early'
        PROVE  WakeupComing'
    <3>1. CASE queue_functors_'[i] = f
      BY <1>3, <2>1, <2>2, <2>3, <2>5, <3>1 DEF QueueOwn, InUserCode
    <3>2. CASE i \in 1..Len(queue_functors_) /\ queue_functors_'[i] = queue_functors_[i]
      BY <1>3, <2>3, <2>4, <2>5, <3>2 DEF QueueOwn
    <3> QED
      BY <1>3, <3>1, <3>2, AppendElements DEF QueueOwn, TypeInv, TypeOK
  <2> QED
    BY <1>3, <2>3, <2>5 DEF QueueOwn, InUserCode
<1>4. CASE StartLoop
  BY <1>4 DEF StartLoop, Goto, sharedVars, threadVars, history
<1>5. CASE CheckQuit
  BY <1>5 DEF CheckQuit, Goto, sharedVars, threadVars, history
<1>6. CASE PollWakeup \/ PollIo \/ PollTimeout
  BY <1>6 DEF PollWakeup, PollIo, PollTimeout, PollReturns, sharedVars, threadVars, history
<1>7. CASE HandleWakeup
  BY <1>7 DEF HandleWakeup, threadVars, history
<1>8. CASE HandleIo
  BY <1>8 DEF HandleIo, sharedVars, threadVars, history
<1>9. CASE HandlerReturns
  BY <1>9 DEF HandlerReturns, Goto, sharedVars, threadVars, history
<1>10. CASE LockMtx
  BY <1>10 DEF LockMtx, sharedVars, threadVars
<1>11. CASE SwapOrReturn
  <2>1. queue_functors_' = <<>>
    BY <1>11 DEF SwapOrReturn
  <2>2. \A i \in 1..Len(queue_functors_') : FALSE
    BY <2>1, EmptySeq
  <2>3. RunFlagMatchesLoop'
    BY <1>11 DEF SwapOrReturn
  <2> QED
    BY <1>11, <2>2, <2>3 DEF SwapOrReturn
<1>12. CASE CallFunctor
  BY <1>12 DEF CallFunctor, sharedVars, threadVars
<1>13. CASE FunctorReturns
  BY <1>13 DEF FunctorReturns, Goto, sharedVars, threadVars, history
<1>14. CASE BatchDone
  BY <1>14 DEF BatchDone, sharedVars, threadVars, history
<1>15. CASE Crash
  BY <1>15 DEF Crash, Goto, sharedVars, threadVars, history
<1>16. ASSUME NEW t \in Threads, NEW f \in Functors, LockMutex(t, f) PROVE WakeupInv'
  BY <1>16 DEF LockMutex, TypeInv, TypeOK, ownerVars, sharedVars
<1>17. ASSUME NEW t \in Threads, EmplaceBack(t) PROVE WakeupInv'
  BY <1>17 DEF EmplaceBack, TypeInv, TypeOK, ownerVars
<1>18. ASSUME NEW t \in Threads, QuitForeign(t) PROVE WakeupInv'
  BY <1>18 DEF QuitForeign, TypeInv, TypeOK, ownerVars, history
<1>19. ASSUME NEW t \in Threads, Wakeup(t) PROVE WakeupInv'
  BY <1>19 DEF Wakeup, ownerVars, history
<1>20. CASE UNCHANGED vars
  BY <1>20 DEF vars, ownerVars, sharedVars, threadVars, history
<1>21. QED
  BY <1>1, <1>2, <1>3, <1>4, <1>5, <1>6, <1>7, <1>8, <1>9, <1>10, <1>11, <1>12,
     <1>13, <1>14, <1>15, <1>16, <1>17, <1>18, <1>19, <1>20
     DEF Next, UserStep, LoopStep, ThreadCall, ThreadStep

\* A loop that may sleep before it looks at its queue again has a wakeup coming
\* for what is queued and for quit (queue_in_loop, quit, handle_wakeup, loop).
THEOREM WakeupNeverLost == Spec => []NoLostWakeup
<1>1. WakeupInv => NoLostWakeup
  BY DEF WakeupInv
<1> QED
  BY TypeInvariant, WakeupInit, WakeupStep, <1>1, PTL DEF Spec

-----------------------------------------------------------------------------
(* Order of the functors.                                                   *)

OrderInv == BatchIsLocal /\ FunctorOrder

\* A concatenation of two sequences over a set is one.
LEMMA ConcatType ==
  ASSUME NEW S, NEW s \in Seq(S), NEW t \in Seq(S)
  PROVE  s \o t \in Seq(S)
BY ConcatProperties

\* Appending to the last part of a concatenation appends to the whole.
LEMMA AppendToConcat ==
  ASSUME NEW S, NEW s \in Seq(S), NEW t \in Seq(S), NEW x \in S
  PROVE  Append(s \o t, x) = s \o Append(t, x)
<1>1. <<x>> \in Seq(S)
  OBVIOUS
<1>2. Append(s \o t, x) = (s \o t) \o <<x>> /\ Append(t, x) = t \o <<x>>
  BY ConcatType, AppendIsConcat
<1> QED
  BY <1>1, <1>2, ConcatAssociative

\* Moving the first element of the second part to the end of the first changes
\* nothing in a concatenation.
LEMMA MoveHead ==
  ASSUME NEW S, NEW s \in Seq(S), NEW t \in Seq(S), t # <<>>
  PROVE  s \o t = Append(s, Head(t)) \o Tail(t)
<1>1. Head(t) \in S /\ Tail(t) \in Seq(S) /\ <<Head(t)>> \in Seq(S)
  BY HeadTailProperties
<1>2. t = <<Head(t)>> \o Tail(t)
  BY HeadTailAppend
<1>3. Append(s, Head(t)) = s \o <<Head(t)>>
  BY <1>1, AppendIsConcat
<1> QED
  BY <1>1, <1>2, <1>3, ConcatAssociative

\* Nothing was posted before the first step.
LEMMA OrderInit == Init => OrderInv
<1>1. <<>> \o <<>> = <<>>
  BY ConcatEmptySeq, EmptyQueue
<1> QED
  BY <1>1 DEF Init, OrderInv, BatchIsLocal, FunctorOrder

\* Posting a functor extends what was posted and what is to be run alike.
LEMMA PostKeepsOrder ==
  ASSUME TypeInv, NEW f \in Functors, enqueued = executed \o functors \o queue_functors_
  PROVE  Append(enqueued, f) = executed \o functors \o Append(queue_functors_, f)
<1>1. /\ executed \in Seq(Functors) /\ functors \in Seq(Functors)
      /\ queue_functors_ \in Seq(Functors)
  BY DEF TypeInv, TypeOK
<1>2. ASSUME NEW s \in Seq(Functors), NEW q \in Seq(Functors)
      PROVE  Append(s \o q, f) = s \o Append(q, f)
  BY SMTT(30)
<1>3. executed \o functors \in Seq(Functors)
  BY <1>1, ConcatType
<1> QED
  BY <1>1, <1>2, <1>3, Zenon

\* Posting, the swap and the call of a functor keep the order.
LEMMA OrderStep == TypeInv /\ OrderInv /\ [Next]_vars => OrderInv'
<1> SUFFICES ASSUME TypeInv, OrderInv, [Next]_vars PROVE OrderInv'
  OBVIOUS
<1> USE DEF OrderInv, BatchIsLocal, FunctorOrder
<1>1. CASE RegisterWakeup \/ QuitOwn
  BY <1>1 DEF RegisterWakeup, QuitOwn, ownerVars, history
<1>2. ASSUME NEW f \in Functors, QueueOwn(f) PROVE OrderInv'
  BY <1>2, PostKeepsOrder DEF QueueOwn, ownerVars
<1>3. CASE StartLoop \/ CheckQuit
  BY <1>3 DEF StartLoop, Goto, CheckQuit, sharedVars, history
<1>4. CASE PollWakeup \/ PollIo \/ PollTimeout
  BY <1>4 DEF PollWakeup, PollIo, PollTimeout, PollReturns, sharedVars, history
<1>5. CASE HandleWakeup \/ HandleIo \/ HandlerReturns
  BY <1>5 DEF HandleWakeup, HandleIo, HandlerReturns, Goto, sharedVars, history
<1>6. CASE LockMtx
  BY <1>6 DEF LockMtx, sharedVars
<1>7. CASE SwapOrReturn
  <2>1. CASE queue_functors_ = <<>>
    BY <1>7, <2>1 DEF SwapOrReturn, history
  <2>2. CASE queue_functors_ # <<>>
    <3>1. functors = <<>> /\ functors' = queue_functors_ /\ queue_functors_' = <<>>
      BY <1>7, <2>2 DEF SwapOrReturn
    <3>2. executed \o functors = executed
      BY <3>1, ConcatEmptySeq DEF TypeInv, TypeOK
    <3>3. (executed \o queue_functors_) \o <<>> = executed \o queue_functors_
      BY ConcatType, ConcatEmptySeq DEF TypeInv, TypeOK
    <3> QED
      BY <1>7, <2>2, <3>1, <3>2, <3>3 DEF SwapOrReturn, history
  <2> QED
    BY <2>1, <2>2
<1>8. CASE CallFunctor
  <2>1. executed \o functors = executed' \o functors'
    BY <1>8, MoveHead DEF CallFunctor, TypeInv, TypeOK
  <2> QED
    BY <1>8, <2>1 DEF CallFunctor, sharedVars
<1>9. CASE FunctorReturns \/ BatchDone \/ Crash
  BY <1>9 DEF FunctorReturns, Goto, BatchDone, Crash, sharedVars, history
<1>10. ASSUME NEW t \in Threads, NEW f \in Functors, LockMutex(t, f) PROVE OrderInv'
  BY <1>10 DEF LockMutex, ownerVars, sharedVars
<1>11. ASSUME NEW t \in Threads, EmplaceBack(t) PROVE OrderInv'
  <2>1. posting[t] \in Functors
    BY <1>11 DEF EmplaceBack, TypeInv, PostingMatches
  <2>2. ~raced => /\ queue_functors_' = Append(queue_functors_, posting[t])
                  /\ enqueued' = Append(enqueued, posting[t])
    BY <1>11 DEF EmplaceBack
  <2> QED
    BY <1>11, <2>1, <2>2, PostKeepsOrder DEF EmplaceBack, ownerVars
<1>12. ASSUME NEW t \in Threads, QuitForeign(t) \/ Wakeup(t) PROVE OrderInv'
  BY <1>12 DEF QuitForeign, Wakeup, ownerVars, history
<1>13. CASE UNCHANGED vars
  BY <1>13 DEF vars, ownerVars, sharedVars, history
<1>14. QED
  BY <1>1, <1>2, <1>3, <1>4, <1>5, <1>6, <1>7, <1>8, <1>9, <1>10, <1>11, <1>12, <1>13
     DEF Next, UserStep, LoopStep, ThreadCall, ThreadStep

\* Until the queue is torn, every functor posted has run or waits, once and in
\* the order of posting (queue_in_loop and do_queued_functors).
THEOREM FunctorsInOrder == Spec => []FunctorOrder
<1>1. OrderInv => FunctorOrder
  BY DEF OrderInv
<1> QED
  BY TypeInvariant, OrderInit, OrderStep, <1>1, PTL DEF Spec

\* The whole invariant that the runs check, the parts that support each other
\* together (queue_in_loop, do_queued_functors, loop, handle_wakeup, quit).
THEOREM LoopInvariant == Spec => []LoopInv
<1>1. TypeInv /\ WakeupInv /\ OrderInv => LoopInv
  BY DEF TypeInv, WakeupInv, OrderInv, LoopInv
<1> QED
  BY TypeInvariant, WakeupInit, WakeupStep, OrderInit, OrderStep, <1>1, PTL DEF Spec

-----------------------------------------------------------------------------
(* The loop implements the abstract executor.                               *)

\* An empty loop is an empty executor.
LEMMA RefinesInit == Init => E!Init
BY ConcatEmptySeq, EmptyQueue DEF Init, E!Init, abstractPending, abstractDone

\* A step that leaves the queue, the batch and the history alone is a stutter.
LEMMA RefinesStutter ==
  UNCHANGED <<functors, queue_functors_, raced, executed>> => UNCHANGED E!vars
BY DEF E!vars, abstractPending, abstractDone

\* A step that tears the queue breaks the executor, or it was broken before.
LEMMA RefinesTear ==
  ASSUME UNCHANGED <<functors, queue_functors_, executed>>,
         raced' = TRUE \/ raced' = raced, raced \in BOOLEAN
  PROVE  E!Break \/ UNCHANGED E!vars
<1>1. CASE raced' = raced
  BY <1>1, RefinesStutter
<1>2. CASE raced = FALSE /\ raced' = TRUE
  BY <1>2 DEF E!Break, abstractPending, abstractDone
<1> QED
  BY <1>1, <1>2

\* A step on a torn queue is no step of the executor.
LEMMA RefinesBroken ==
  raced = TRUE /\ raced' = TRUE => UNCHANGED E!vars
BY DEF E!vars, abstractPending, abstractDone

\* emplace_back on an untorn queue is the executor's Post.
LEMMA RefinesPost ==
  ASSUME TypeInv, NEW f \in Functors, raced = FALSE, raced' = FALSE,
         UNCHANGED <<functors, executed>>,
         queue_functors_' = Append(queue_functors_, f)
  PROVE  E!Post(f)
<1>1. abstractPending' = Append(abstractPending, f)
  BY AppendToConcat DEF abstractPending, TypeInv, TypeOK
<1> QED
  BY <1>1 DEF E!Post, abstractDone

\* The call of a functor of the batch is the executor's Run.
LEMMA RefinesRun ==
  ASSUME TypeInv, raced = FALSE, CallFunctor
  PROVE  E!Run
<1>1. /\ functors # <<>> /\ raced' = FALSE
      /\ functors' = Tail(functors) /\ queue_functors_' = queue_functors_
      /\ executed' = Append(executed, Head(functors))
  BY DEF CallFunctor, sharedVars
<1>2. /\ functors \o queue_functors_ # <<>>
      /\ Head(functors \o queue_functors_) = Head(functors)
      /\ Tail(functors \o queue_functors_) = Tail(functors) \o queue_functors_
  BY <1>1 DEF TypeInv, TypeOK
<1> QED
  BY <1>1, <1>2 DEF E!Run, abstractPending, abstractDone

\* Every step of the loop is a step of the executor or leaves it alone.
LEMMA RefinesStep == TypeInv /\ OrderInv /\ [Next]_vars => [E!Next]_(E!vars)
<1> SUFFICES ASSUME TypeInv, OrderInv, [Next]_vars PROVE E!Next \/ UNCHANGED E!vars
  OBVIOUS
<1>0. raced \in BOOLEAN
  BY DEF TypeInv, TypeOK
<1>1. ASSUME NEW f \in Functors, QueueOwn(f) PROVE E!Next \/ UNCHANGED E!vars
  BY <1>0, <1>1, RefinesPost, RefinesBroken DEF QueueOwn, ownerVars, E!Next
<1>2. CASE LockMtx
  BY <1>0, <1>2, RefinesTear DEF LockMtx, sharedVars, E!Next
<1>3. CASE SwapOrReturn
  <2>1. CASE queue_functors_ = <<>>
    BY <1>3, <2>1, RefinesStutter DEF SwapOrReturn, history
  <2>2. CASE queue_functors_ # <<>>
    <3>1. /\ functors = <<>> /\ functors' = queue_functors_ /\ queue_functors_' = <<>>
          /\ raced' = raced /\ executed' = executed
      BY <1>3, <2>2 DEF SwapOrReturn, OrderInv, BatchIsLocal, history
    <3>2. functors' \o queue_functors_' = functors \o queue_functors_
      BY <3>1, ConcatEmptySeq DEF TypeInv, TypeOK
    <3> QED
      BY <3>1, <3>2 DEF E!vars, abstractPending, abstractDone
  <2> QED
    BY <2>1, <2>2
<1>4. CASE CallFunctor
  BY <1>0, <1>4, RefinesRun, RefinesBroken DEF CallFunctor, E!Next
<1>5. ASSUME NEW t \in Threads, NEW f \in Functors, LockMutex(t, f)
      PROVE  E!Next \/ UNCHANGED E!vars
  BY <1>0, <1>5, RefinesTear DEF LockMutex, ownerVars, sharedVars, E!Next
<1>6. ASSUME NEW t \in Threads, EmplaceBack(t) PROVE E!Next \/ UNCHANGED E!vars
  <2>1. posting[t] \in Functors
    BY <1>6 DEF EmplaceBack, TypeInv, PostingMatches
  <2> QED
    BY <1>0, <1>6, <2>1, RefinesPost, RefinesBroken DEF EmplaceBack, ownerVars, E!Next
<1>7. CASE RegisterWakeup \/ QuitOwn
  BY <1>7, RefinesStutter DEF RegisterWakeup, QuitOwn, ownerVars, history
<1>8. CASE StartLoop \/ CheckQuit
  BY <1>8, RefinesStutter DEF StartLoop, Goto, CheckQuit, sharedVars, history
<1>9. CASE PollWakeup \/ PollIo \/ PollTimeout
  BY <1>9, RefinesStutter
     DEF PollWakeup, PollIo, PollTimeout, PollReturns, sharedVars, history
<1>10. CASE HandleWakeup \/ HandleIo \/ HandlerReturns
  BY <1>10, RefinesStutter DEF HandleWakeup, HandleIo, HandlerReturns, Goto, sharedVars, history
<1>11. CASE FunctorReturns \/ BatchDone \/ Crash
  BY <1>11, RefinesStutter DEF FunctorReturns, Goto, BatchDone, Crash, sharedVars, history
<1>12. ASSUME NEW t \in Threads, QuitForeign(t) \/ Wakeup(t)
       PROVE  E!Next \/ UNCHANGED E!vars
  BY <1>12, RefinesStutter DEF QuitForeign, Wakeup, ownerVars, history
<1>13. CASE UNCHANGED vars
  BY <1>13, RefinesStutter DEF vars, ownerVars, sharedVars, history
<1>14. QED
  BY <1>1, <1>2, <1>3, <1>4, <1>5, <1>6, <1>7, <1>8, <1>9, <1>10, <1>11, <1>12, <1>13
     DEF Next, UserStep, LoopStep, ThreadCall, ThreadStep

\* Every behaviour of the loop is one of the abstract executor: functors start
\* once each and in the order of posting, until two threads tear the queue.
THEOREM LoopIsExecutor == Spec => ImplementsExecutor
<1>1. TypeInv /\ OrderInv /\ [Next]_vars => [E!Next]_(E!vars)
  BY RefinesStep
<1> QED
  BY TypeInvariant, OrderInit, OrderStep, RefinesInit, <1>1, PTL
     DEF Spec, ImplementsExecutor, E!Spec
=============================================================================
