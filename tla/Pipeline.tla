------------------------------ MODULE Pipeline ------------------------------
(***************************************************************************)
(* A ThreadPool whose tasks push their results into a BlockingQueue, and    *)
(* threads that pop or drain them: the use the two classes are made for.    *)
(* A task pushes one result and returns; which one does not matter.         *)
(***************************************************************************)
EXTENDS ThreadPool

CONSTANT Consumers      \* the threads that take the results

ASSUME ConsumersAssumption ==
  IsFiniteSet(Consumers) /\ Consumers \cap Threads = {}

VARIABLES
  results,              \* BlockingQueue::queue_
  results_awake, results_asleep, results_notifying

resultVars == <<results, results_awake, results_asleep, results_notifying>>
pipelineVars == <<vars, resultVars>>

Results == INSTANCE BlockingQueue WITH
  Threads <- Threads \cup Consumers, Elements <- {"result"},
  queue_ <- results, awake <- results_awake, asleep <- results_asleep, notifying <- results_notifying

PipelineInit == Init /\ Results!Init

-----------------------------------------------------------------------------
\* The body of a task pushes its result.
PushResult(t) ==
  /\ pc[t] = "body"
  /\ Results!Push(t, "result")
  /\ UNCHANGED vars

\* The push notifies, and the task returns.
DeliverResult(t) ==
  /\ Results!NotifyOne(t)
  /\ TaskReturns(t)

Works(t) ==
  \/ Proceeds(t) /\ UNCHANGED resultVars
  \/ PushResult(t)
  \/ DeliverResult(t)

Consumes(c) ==
  /\ Results!Popping(c) \/ Results!PopWakes(c) \/ Results!Drain(c)
  /\ UNCHANGED vars

PipelineNext ==
  \/ Owner /\ UNCHANGED resultVars
  \/ \E t \in Threads : Works(t)
  \/ \E t \in Threads : Wakes(t) /\ UNCHANGED resultVars
  \/ \E c \in Callers : CallRun(c) /\ UNCHANGED resultVars
  \/ \E c \in Consumers : Consumes(c)

PipelineSpec == PipelineInit /\ [][PipelineNext]_pipelineVars

\* A thread that runs comes on: tasks end, start() creates its threads and
\* stop(), once called, goes on.  Nobody is made to call anything.
FairPipeline ==
  /\ PipelineSpec
  /\ \A t \in Threads : WF_pipelineVars(Works(t))
  /\ WF_pipelineVars(Stopping /\ UNCHANGED resultVars)
  /\ WF_pipelineVars((\E w \in Workers : EmplaceThread(w)) /\ UNCHANGED resultVars)

-----------------------------------------------------------------------------
\* The elements of results never wait beside a thread that sleeps in pop()
\* (blocking_queue.hpp, push, pop and drain).
NoSleeperBesideResult == Results!NoSleeperBesideElement

\* The queue is full and every worker is inside a task whose run() needs room:
\* only a worker could make room, so the pool is deadlocked.
AllNeedRoom ==
  /\ threads_ = Workers /\ is_full_
  /\ \A w \in Workers : pc[w] \in {"run", "not_full"}

\* What run() accepted is taken: the queue, to which the programs add finitely
\* many tasks, comes to be empty, unless stop() comes first or every worker waits
\* in a run() of its own for room (thread_pool.cpp:124): no other use of the pool
\* blocks it.
EveryTaskRuns == queue_ # <<>> ~> queue_ = <<>> \/ ~run_flag_ \/ AllNeedRoom

\* stop() returns: it releases the workers, also those that wait in run() for
\* room, and each ends after at most the task it runs and one more.
StopReturns == owner = "stopped" ~> owner = "joined"
=============================================================================
