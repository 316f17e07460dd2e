----------------------------- MODULE ThreadPool -----------------------------
(***************************************************************************)
(* core/src/thread_pool.cpp: worker threads that take tasks from a queue,   *)
(* which max_queue_size_ may bound.  run() waits in not_full_ for room and  *)
(* a worker waits in not_empty_ for a task; a task may itself call run(),   *)
(* on its worker, or on the caller's thread when the pool has no threads    *)
(* yet.  One thread starts the pool and stops it.                           *)
(*                                                                         *)
(* What a thread does under mtx_ is one step.  A thread that waits for a    *)
(* condition may leave it without a notification, and looks again.          *)
(* run_in_thread reads run_flag_ without mtx_: a value that is stale when   *)
(* it is used is the same as the thread being slow between "check" and      *)
(* "take".                                                                  *)
(***************************************************************************)
EXTENDS Naturals, Sequences, FiniteSets

CONSTANTS
  Workers,      \* the threads that start() creates
  Callers,      \* the other threads that call run()
  Tasks,
  Program,      \* Program[c]: the tasks that caller c gives to run(), in order
  Follow,       \* Follow[t]: the task that t gives to run(), or NoTask
  NoTask,
  MaxQueue      \* max_queue_size_; 0: the queue is not bounded

Threads == Workers \cup Callers

ASSUME PoolAssumption ==
  /\ IsFiniteSet(Threads) /\ Workers \cap Callers = {}
  /\ NoTask \notin Tasks
  /\ Program \in [Callers -> Seq(Tasks)]
  /\ Follow \in [Tasks -> Tasks \cup {NoTask}]
  /\ MaxQueue \in Nat

VARIABLES
  queue_,
  run_flag_,
  threads_,     \* the workers that start() has created
  owner,        \* what the thread that starts and stops the pool does
  pc,           \* where a thread is
  running,      \* running[t]: the tasks that t is inside of, the innermost last
  task,         \* task[t]: the argument of the run() that t is inside of
  given,        \* given[c]: how many tasks of its program c gave to run()
  taken         \* history: the tasks that the workers took, in that order

vars == <<queue_, run_flag_, threads_, owner, pc, running, task, given, taken>>

OwnerPC == {"created", "starting", "running", "stopped", "notified", "joined"}

ThreadPC == {"unborn", "check", "take", "not_empty", "run", "not_full",
             "notify", "body", "idle", "done"}

Init ==
  /\ queue_ = <<>>
  /\ run_flag_ = FALSE
  /\ threads_ = {}
  /\ owner = "created"
  /\ pc = [t \in Threads |-> IF t \in Workers THEN "unborn" ELSE "idle"]
  /\ running = [t \in Threads |-> <<>>]
  /\ task = [t \in Threads |-> NoTask]
  /\ given = [c \in Callers |-> 0]
  /\ taken = <<>>

is_full_ == MaxQueue > 0 /\ Len(queue_) >= MaxQueue

\* The threads at a place.
At(place) == {t \in Threads : pc[t] = place}

\* Thread t goes from one place to another and changes nothing else of its own.
Goto(t, from, to) ==
  /\ pc[t] = from
  /\ pc' = [pc EXCEPT ![t] = to]
  /\ UNCHANGED <<running, task>>

\* Another thread's pc when notify_one on the waiters at `place` lets one of
\* them look again at `again`.
Woken(s, f, place, again) ==
  IF At(place) = {} THEN s = f
  ELSE \E u \in At(place) : s = [f EXCEPT ![u] = again]

\* Thread t is inside task k, innermost: it gives a task to run(), or is in the
\* rest of its body.
Enter(t, inside, k) ==
  /\ running' = [running EXCEPT ![t] = Append(inside, k)]
  /\ task' = [task EXCEPT ![t] = Follow[k]]

Entered(k) == IF Follow[k] = NoTask THEN "body" ELSE "run"

-----------------------------------------------------------------------------
(* start() and stop(), on the owner's thread.                               *)

Start ==
  /\ owner = "created"
  /\ owner' = "starting"
  /\ run_flag_' = TRUE
  /\ UNCHANGED <<queue_, threads_, pc, running, task, given, taken>>

\* A thread begins with init_task_, which is not the pool's.
EmplaceThread(w) ==
  /\ owner = "starting"
  /\ Goto(w, "unborn", "check")
  /\ threads_' = threads_ \cup {w}
  /\ owner' = IF threads_' = Workers THEN "running" ELSE owner
  /\ UNCHANGED <<queue_, run_flag_, given, taken>>

\* stop(), and the destructor of a pool that was not stopped.
Stop ==
  /\ owner = "running"
  /\ owner' = "stopped"
  /\ run_flag_' = FALSE
  /\ UNCHANGED <<queue_, threads_, pc, running, task, given, taken>>

\* Mutant: stop() wakes the workers only.
StopNotifiesWorkers ==
  /\ owner = "stopped"
  /\ owner' = "notified"
  /\ pc' = [t \in Threads |-> IF pc[t] = "not_empty" THEN "take" ELSE pc[t]]
  /\ UNCHANGED <<queue_, run_flag_, threads_, running, task, given, taken>>

\* stop(): the two notify_all.  They are one step: run_flag_ is unset by now, so what a
\* thread does between them is what it does after both.
StopNotifies ==
  /\ owner = "stopped"
  /\ owner' = "notified"
  /\ pc' = [t \in Threads |-> CASE pc[t] = "not_empty" -> "take"
                                [] pc[t] = "not_full" -> "run"
                                [] OTHER -> pc[t]]
  /\ UNCHANGED <<queue_, run_flag_, threads_, running, task, given, taken>>

\* stop(): every thread is joined.
StopJoins ==
  /\ owner = "notified"
  /\ \A w \in threads_ : pc[w] = "done"
  /\ owner' = "joined"
  /\ UNCHANGED <<queue_, run_flag_, threads_, pc, running, task, given, taken>>

-----------------------------------------------------------------------------
(* run_in_thread() and take(), on a worker.                                 *)

CheckFlag(w) ==
  /\ w \in Workers
  /\ Goto(w, "check", IF run_flag_ THEN "take" ELSE "done")
  /\ UNCHANGED <<queue_, run_flag_, threads_, owner, given, taken>>

TakeWaits(w) ==
  /\ queue_ = <<>> /\ run_flag_
  /\ Goto(w, "take", "not_empty")
  /\ UNCHANGED <<queue_, run_flag_, threads_, owner, given, taken>>

\* The pool was stopped: take() returns an empty task.
TakeNothing(w) ==
  /\ queue_ = <<>> /\ ~run_flag_
  /\ Goto(w, "take", "check")
  /\ UNCHANGED <<queue_, run_flag_, threads_, owner, given, taken>>

\* Mutant: take() makes room and tells nobody.
TakeTaskSilently(w) ==
  /\ pc[w] = "take" /\ queue_ # <<>>
  /\ queue_' = Tail(queue_)
  /\ taken' = Append(taken, Head(queue_))
  /\ Enter(w, <<>>, Head(queue_))
  /\ pc' = [pc EXCEPT ![w] = Entered(Head(queue_))]
  /\ UNCHANGED <<run_flag_, threads_, owner, given>>

\* take() hands out a task, stopped or not, and lets one waiting run() look
\* again.
TakeTask(w) ==
  /\ pc[w] = "take" /\ queue_ # <<>>
  /\ queue_' = Tail(queue_)
  /\ taken' = Append(taken, Head(queue_))
  /\ Enter(w, <<>>, Head(queue_))
  /\ LET entered == [pc EXCEPT ![w] = Entered(Head(queue_))] IN
     IF MaxQueue > 0 THEN Woken(pc', entered, "not_full", "run") ELSE pc' = entered
  /\ UNCHANGED <<run_flag_, threads_, owner, given>>

Take(w) == w \in Workers /\ (TakeWaits(w) \/ TakeNothing(w) \/ TakeTask(w))

-----------------------------------------------------------------------------
(* run(), on a caller's thread or inside a task.                            *)

\* A thread outside the pool gives its next task to run().
CallRun(c) ==
  /\ pc[c] = "idle" /\ given[c] < Len(Program[c])
  /\ given' = [given EXCEPT ![c] = @ + 1]
  /\ pc' = [pc EXCEPT ![c] = "run"]
  /\ task' = [task EXCEPT ![c] = Program[c][given'[c]]]
  /\ UNCHANGED <<queue_, run_flag_, threads_, owner, running, taken>>

\* run() returns: the thread goes on with the task it is inside of, if any.
AfterRun(t) == IF running[t] = <<>> THEN "idle" ELSE "body"

\* run() finds no threads: the caller runs the task itself.  (Once there are
\* threads there always are: the test is one step with the wait for mtx_.)
RunInline(t) ==
  /\ pc[t] = "run" /\ threads_ = {}
  /\ Enter(t, running[t], task[t])
  /\ pc' = [pc EXCEPT ![t] = Entered(task[t])]
  /\ UNCHANGED <<queue_, run_flag_, threads_, owner, given, taken>>

RunWaits(t) ==
  /\ threads_ # {} /\ is_full_ /\ run_flag_
  /\ Goto(t, "run", "not_full")
  /\ UNCHANGED <<queue_, run_flag_, threads_, owner, given, taken>>

\* The pool is stopped: the task is dropped.
RunDrops(t) ==
  /\ threads_ # {} /\ ~run_flag_
  /\ Goto(t, "run", AfterRun(t))
  /\ UNCHANGED <<queue_, run_flag_, threads_, owner, given, taken>>

RunAppends(t) ==
  /\ threads_ # {} /\ ~is_full_ /\ run_flag_
  /\ Goto(t, "run", "notify")
  /\ queue_' = Append(queue_, task[t])
  /\ UNCHANGED <<run_flag_, threads_, owner, given, taken>>

\* Mutant: run() leaves without notify_one.
RunNotifiesNobody(t) ==
  /\ pc[t] = "notify"
  /\ pc' = [pc EXCEPT ![t] = AfterRun(t)]
  /\ UNCHANGED <<queue_, run_flag_, threads_, owner, running, task, given, taken>>

\* run(): notify_one, after the unlock.
RunNotifies(t) ==
  /\ pc[t] = "notify"
  /\ Woken(pc', [pc EXCEPT ![t] = AfterRun(t)], "not_empty", "take")
  /\ UNCHANGED <<queue_, run_flag_, threads_, owner, running, task, given, taken>>

Run(t) == RunInline(t) \/ RunWaits(t) \/ RunDrops(t) \/ RunAppends(t) \/ RunNotifies(t)

\* A task returns: to the task that ran it, to take(), or to its caller.
TaskReturns(t) ==
  /\ pc[t] = "body"
  /\ running' = [running EXCEPT ![t] = SubSeq(@, 1, Len(@) - 1)]
  /\ pc' = [pc EXCEPT ![t] = CASE Len(running[t]) > 1 -> "body"
                               [] t \in Workers -> "check"
                               [] OTHER -> "idle"]
  /\ UNCHANGED <<queue_, run_flag_, threads_, owner, task, given, taken>>

\* A wait may end without a notification.
Wakes(t) ==
  /\ \/ Goto(t, "not_empty", "take")
     \/ Goto(t, "not_full", "run")
  /\ UNCHANGED <<queue_, run_flag_, threads_, owner, given, taken>>

-----------------------------------------------------------------------------
Stopping == StopNotifies \/ StopJoins

Owner == Start \/ (\E w \in Workers : EmplaceThread(w)) \/ Stop \/ Stopping

\* What a thread does of itself, up to the body of its task.
Proceeds(t) == CheckFlag(t) \/ Take(t) \/ Run(t)

Next ==
  \/ Owner
  \/ \E t \in Threads : Proceeds(t) \/ TaskReturns(t) \/ Wakes(t)
  \/ \E c \in Callers : CallRun(c)

Spec == Init /\ [][Next]_vars

-----------------------------------------------------------------------------
TypeOK ==
  /\ queue_ \in Seq(Tasks) /\ taken \in Seq(Tasks) /\ given \in [Callers -> Nat]
  /\ run_flag_ \in BOOLEAN /\ threads_ \subseteq Workers
  /\ owner \in OwnerPC /\ pc \in [Threads -> ThreadPC]
  /\ running \in [Threads -> Seq(Tasks)]
  /\ task \in [Threads -> Tasks \cup {NoTask}]

\* Nobody waits beside what it waits for.  While the pool runs, there are never
\* more tasks than workers that are about to take one or run()s that are about
\* to wake a worker, if a worker sleeps; and never more room than run()s that
\* are about to look, if a run() waits for room.  After stop() has notified,
\* nobody waits (thread_pool.cpp, stop, run and take: one notify_one for each
\* task and for each place, the two notify_all).
NoSleeperBesideWork ==
  /\ run_flag_ /\ At("not_empty") # {} =>
       Len(queue_) <= Cardinality(At("take")) + Cardinality(At("notify"))
  /\ run_flag_ /\ At("not_full") # {} =>
       MaxQueue <= Len(queue_) + Cardinality(At("run"))
  /\ owner \in {"notified", "joined"} => At("not_empty") = {} /\ At("not_full") = {}

\* The pool is a FIFO executor: it takes the tasks that run() accepted in the
\* order of the emplace_back, each once (thread_pool.cpp, run and take).
AbstractExecutor == INSTANCE Executor WITH Functors <- Tasks, pending <- queue_,
                                           done <- taken, broken <- FALSE
ImplementsExecutor == AbstractExecutor!Spec
=============================================================================
