--------------------------- MODULE PipelineProofs ---------------------------
(* Proofs about ThreadPool: it implements Executor, and nobody waits beside  *)
(* what it waits for; and about Pipeline, which is a ThreadPool and a        *)
(* BlockingQueue at once, so that what holds of each of them holds of it.    *)
EXTENDS Pipeline, FiniteSetTheorems, TLAPS

\* As much of the types as the steps depend on.
Typed ==
  /\ queue_ \in Seq(Tasks) /\ taken \in Seq(Tasks)
  /\ given \in [Callers -> Nat]
  /\ pc \in [Threads -> ThreadPC]
  /\ task \in [Threads -> Tasks \cup {NoTask}]

\* A run() in progress has a task for an argument.
RunHasTask == \A t \in Threads : pc[t] \in {"run", "not_full", "notify"} => task[t] \in Tasks

RefInv == Typed /\ RunHasTask

-----------------------------------------------------------------------------
\* Nothing has been given to run() in the beginning.
LEMMA InitTyped == Init => RefInv
  BY PoolAssumption DEF Init, RefInv, Typed, RunHasTask, Threads, ThreadPC

\* A thread that goes from one place to another has the task it had.
LEMMA GotoTyped ==
  ASSUME RefInv, NEW t \in Threads, NEW from \in ThreadPC, NEW to \in ThreadPC, Goto(t, from, to),
         to \in {"run", "not_full", "notify"} => from \in {"run", "not_full", "notify"},
         queue_' \in Seq(Tasks), UNCHANGED <<taken, given>>
  PROVE  RefInv'
  BY DEF RefInv, Typed, RunHasTask, Goto

\* A thread that enters a task: from there on it gives the follower to run(), if
\* there is one.
LEMMA EnterTyped ==
  ASSUME RefInv, NEW t \in Threads, NEW k \in Tasks, NEW inside, Enter(t, inside, k)
  PROVE  /\ Entered(k) \in ThreadPC
         /\ task' \in [Threads -> Tasks \cup {NoTask}]
         /\ Entered(k) = "run" => task'[t] \in Tasks
         /\ Entered(k) \in {"body", "run"}
         /\ \A u \in Threads : u # t => task'[u] = task[u]
<1>1. Follow[k] \in Tasks \cup {NoTask}
  BY PoolAssumption
<1>2. task \in [Threads -> Tasks \cup {NoTask}] /\ task' = [task EXCEPT ![t] = Follow[k]]
  BY DEF RefInv, Typed, Enter
<1> QED
  BY <1>1, <1>2 DEF Entered, ThreadPC

\* Waking one thread, if any waits, at a place where it looks again with the
\* task it had.
LEMMA WokenTyped ==
  ASSUME NEW f \in [Threads -> ThreadPC], NEW again \in ThreadPC, NEW place,
         Woken(pc', f, place, again)
  PROVE  /\ pc' \in [Threads -> ThreadPC]
         /\ \A u \in Threads : pc'[u] = f[u] \/ (pc[u] = place /\ pc'[u] = again)
  BY DEF Woken, At

\* start() and stop().
LEMMA OwnerTyped == RefInv /\ Owner => RefInv'
<1> SUFFICES ASSUME RefInv, Owner PROVE RefInv'
  OBVIOUS
<1>1. CASE Start \/ Stop \/ StopJoins
  BY <1>1 DEF Start, Stop, StopJoins, RefInv, Typed, RunHasTask
<1>2. ASSUME NEW w \in Workers, EmplaceThread(w) PROVE RefInv'
  <2>1. Goto(w, "unborn", "check") /\ UNCHANGED <<queue_, taken, given>>
    BY <1>2, Zenon DEF EmplaceThread
  <2> QED
    BY <2>1, GotoTyped DEF Threads, ThreadPC, RefInv, Typed
<1>3. CASE StopNotifies
  BY <1>3 DEF StopNotifies, RefInv, Typed, RunHasTask, ThreadPC
<1> QED
  BY <1>1, <1>2, <1>3 DEF Owner, Stopping

\* run_in_thread() and take().
LEMMA WorkerTyped ==
  ASSUME RefInv, NEW w \in Threads, CheckFlag(w) \/ Take(w)
  PROVE  RefInv'
<1>1. CASE CheckFlag(w)
  <2>1. PICK to \in {"take", "done"} : Goto(w, "check", to)
    BY <1>1 DEF CheckFlag
  <2>2. UNCHANGED <<queue_, taken, given>>
    BY <1>1 DEF CheckFlag
  <2> QED
    BY <2>1, <2>2, GotoTyped DEF ThreadPC, RefInv, Typed
<1>2. CASE TakeWaits(w)
  <2>1. Goto(w, "take", "not_empty") /\ UNCHANGED <<queue_, taken, given>>
    BY <1>2 DEF TakeWaits
  <2> QED
    BY <2>1, GotoTyped DEF ThreadPC, RefInv, Typed
<1>3. CASE TakeNothing(w)
  <2>1. Goto(w, "take", "check") /\ UNCHANGED <<queue_, taken, given>>
    BY <1>3 DEF TakeNothing
  <2> QED
    BY <2>1, GotoTyped DEF ThreadPC, RefInv, Typed
<1>4. CASE TakeTask(w)
  <2> DEFINE k == Head(queue_)
             f == [pc EXCEPT ![w] = Entered(k)]
  <2>1. /\ pc[w] = "take" /\ queue_ # <<>> /\ k \in Tasks
        /\ queue_' \in Seq(Tasks) /\ taken' \in Seq(Tasks)
        /\ Enter(w, <<>>, k) /\ given' = given
        /\ (IF MaxQueue > 0 THEN Woken(pc', f, "not_full", "run") ELSE pc' = f)
    BY <1>4 DEF TakeTask, RefInv, Typed
  <2>2. /\ Entered(k) \in ThreadPC /\ Entered(k) \in {"body", "run"}
        /\ task' \in [Threads -> Tasks \cup {NoTask}]
        /\ Entered(k) = "run" => task'[w] \in Tasks
        /\ \A u \in Threads : u # w => task'[u] = task[u]
    BY <2>1, EnterTyped
  <2>3. f \in [Threads -> ThreadPC]
    BY <2>2 DEF RefInv, Typed
  <2>4. /\ pc' \in [Threads -> ThreadPC]
        /\ \A u \in Threads : pc'[u] = f[u] \/ (pc[u] = "not_full" /\ pc'[u] = "run")
    <3>1. "run" \in ThreadPC
      BY DEF ThreadPC
    <3>2. CASE MaxQueue > 0
      BY <2>1, <2>3, <3>1, <3>2, WokenTyped
    <3>3. CASE ~(MaxQueue > 0)
      BY <2>1, <2>3, <3>3
    <3> QED
      BY <3>2, <3>3
  <2>5. RunHasTask'
    <3> SUFFICES ASSUME NEW u \in Threads, pc'[u] \in {"run", "not_full", "notify"}
                 PROVE  task'[u] \in Tasks
      BY DEF RunHasTask
    <3>1. CASE u = w
      BY <2>1, <2>2, <2>4, <3>1 DEF RefInv, Typed
    <3>2. CASE u # w
      BY <2>2, <2>4, <3>2 DEF RefInv, Typed, RunHasTask
    <3> QED
      BY <3>1, <3>2
  <2> QED
    BY <2>1, <2>2, <2>4, <2>5 DEF RefInv, Typed
<1> QED
  BY <1>1, <1>2, <1>3, <1>4 DEF Take

\* Where run() returns to does not depend on its argument.
LEMMA AfterRunPlace ==
  ASSUME NEW t PROVE AfterRun(t) \in {"idle", "body"} /\ AfterRun(t) \in ThreadPC
  BY DEF AfterRun, ThreadPC

\* run(), wherever it is called.
LEMMA RunTyped ==
  ASSUME RefInv, NEW t \in Threads, Run(t)
  PROVE  RefInv'
<1>1. CASE RunInline(t)
  <2>1. /\ pc[t] = "run" /\ Enter(t, running[t], task[t])
        /\ pc' = [pc EXCEPT ![t] = Entered(task[t])]
        /\ UNCHANGED <<queue_, given, taken>>
    BY <1>1 DEF RunInline
  <2>2. task[t] \in Tasks
    BY <2>1 DEF RefInv, RunHasTask
  <2>3. /\ Entered(task[t]) \in ThreadPC /\ Entered(task[t]) \in {"body", "run"}
        /\ task' \in [Threads -> Tasks \cup {NoTask}]
        /\ Entered(task[t]) = "run" => task'[t] \in Tasks
        /\ \A u \in Threads : u # t => task'[u] = task[u]
    BY <2>1, <2>2, EnterTyped
  <2> QED
    BY <2>1, <2>3 DEF RefInv, Typed, RunHasTask
<1>2. CASE RunWaits(t)
  <2>1. Goto(t, "run", "not_full") /\ UNCHANGED <<queue_, taken, given>>
    BY <1>2 DEF RunWaits
  <2> QED
    BY <2>1, GotoTyped DEF ThreadPC, RefInv, Typed
<1>3. CASE RunDrops(t)
  <2>1. Goto(t, "run", AfterRun(t)) /\ UNCHANGED <<queue_, taken, given>>
    BY <1>3 DEF RunDrops
  <2> QED
    BY <2>1, AfterRunPlace, GotoTyped DEF ThreadPC, RefInv, Typed
<1>4. CASE RunAppends(t)
  <2>1. /\ Goto(t, "run", "notify") /\ UNCHANGED <<taken, given>>
        /\ queue_' = Append(queue_, task[t]) /\ pc[t] = "run"
    BY <1>4 DEF RunAppends, Goto
  <2>2. queue_' \in Seq(Tasks)
    BY <2>1 DEF RefInv, Typed, RunHasTask
  <2> QED
    BY <2>1, <2>2, GotoTyped DEF ThreadPC
<1>5. CASE RunNotifies(t)
  <2>1. /\ Woken(pc', [pc EXCEPT ![t] = AfterRun(t)], "not_empty", "take")
        /\ UNCHANGED <<queue_, task, given, taken>>
    BY <1>5 DEF RunNotifies
  <2>2. [pc EXCEPT ![t] = AfterRun(t)] \in [Threads -> ThreadPC] /\ "take" \in ThreadPC
    BY AfterRunPlace DEF RefInv, Typed, ThreadPC
  <2>3. /\ pc' \in [Threads -> ThreadPC]
        /\ \A u \in Threads : \/ pc'[u] = [pc EXCEPT ![t] = AfterRun(t)][u]
                              \/ (pc[u] = "not_empty" /\ pc'[u] = "take")
    BY <2>1, <2>2, WokenTyped
  <2>4. RunHasTask'
    BY <2>1, <2>3, AfterRunPlace DEF RefInv, Typed, RunHasTask
  <2> QED
    BY <2>1, <2>3, <2>4 DEF RefInv, Typed
<1> QED
  BY <1>1, <1>2, <1>3, <1>4, <1>5 DEF Run

\* The end of a task, and a wake-up without notification.
LEMMA OtherTyped ==
  ASSUME RefInv, NEW t \in Threads, TaskReturns(t) \/ Wakes(t)
  PROVE  RefInv'
<1>1. CASE TaskReturns(t)
  <2> DEFINE to == CASE Len(running[t]) > 1 -> "body"
                     [] t \in Workers -> "check"
                     [] OTHER -> "idle"
  <2>1. to \in {"body", "check", "idle"} /\ pc' = [pc EXCEPT ![t] = to]
    BY <1>1 DEF TaskReturns
  <2> HIDE DEF to
  <2>2. UNCHANGED <<queue_, taken, given, task>>
    BY <1>1 DEF TaskReturns
  <2> QED
    BY <2>1, <2>2 DEF RefInv, Typed, RunHasTask, ThreadPC
<1>2. CASE Wakes(t)
  <2>1. Goto(t, "not_empty", "take") \/ Goto(t, "not_full", "run")
    BY <1>2 DEF Wakes
  <2>2. UNCHANGED <<queue_, taken, given>>
    BY <1>2 DEF Wakes
  <2> QED
    BY <2>1, <2>2, GotoTyped DEF ThreadPC, RefInv, Typed
<1> QED
  BY <1>1, <1>2

\* A caller's run().
LEMMA CallerTyped ==
  ASSUME RefInv, NEW c \in Callers, CallRun(c)
  PROVE  RefInv'
<1>1. /\ given[c] < Len(Program[c]) /\ given' = [given EXCEPT ![c] = given[c] + 1]
      /\ pc' = [pc EXCEPT ![c] = "run"]
      /\ task' = [task EXCEPT ![c] = Program[c][given'[c]]]
      /\ UNCHANGED <<queue_, taken>>
  BY DEF CallRun
<1>2. given[c] \in Nat /\ given' \in [Callers -> Nat] /\ given'[c] = given[c] + 1
  BY <1>1 DEF RefInv, Typed
<1>3. Program[c][given'[c]] \in Tasks
  BY <1>1, <1>2, PoolAssumption
<1> QED
  BY <1>1, <1>2, <1>3 DEF RefInv, Typed, RunHasTask, ThreadPC, Threads

\* Every step keeps the types.
LEMMA StepTyped == RefInv /\ [Next]_vars => RefInv'
<1> SUFFICES ASSUME RefInv, [Next]_vars PROVE RefInv'
  OBVIOUS
<1>1. CASE Owner
  BY <1>1, OwnerTyped
<1>2. ASSUME NEW t \in Threads, Proceeds(t) \/ TaskReturns(t) \/ Wakes(t) PROVE RefInv'
  BY <1>2, WorkerTyped, RunTyped, OtherTyped DEF Proceeds
<1>3. ASSUME NEW c \in Callers, CallRun(c) PROVE RefInv'
  BY <1>3, CallerTyped
<1>4. CASE UNCHANGED vars
  BY <1>4 DEF vars, RefInv, Typed, RunHasTask
<1> QED
  BY <1>1, <1>2, <1>3, <1>4 DEF Next

-----------------------------------------------------------------------------
\* Every step is a step of the executor, or changes nothing of it: only run()
\* and take() touch the queue.
LEMMA StepImplements ==
  RefInv /\ [Next]_vars => [AbstractExecutor!Next]_(AbstractExecutor!vars)
<1> SUFFICES ASSUME RefInv, [Next]_vars PROVE [AbstractExecutor!Next]_(AbstractExecutor!vars)
  OBVIOUS
<1> DEFINE Stutters == UNCHANGED <<queue_, taken>>
<1>1. ASSUME NEW w \in Threads, TakeTask(w) PROVE AbstractExecutor!Run
  BY <1>1 DEF TakeTask, AbstractExecutor!Run
<1>2. ASSUME NEW t \in Threads, RunAppends(t) PROVE \E f \in Tasks : AbstractExecutor!Post(f)
  <2>1. /\ task[t] \in Tasks /\ queue_' = Append(queue_, task[t]) /\ taken' = taken
    BY <1>2 DEF RunAppends, Goto, RefInv, RunHasTask
  <2> QED
    BY <2>1 DEF AbstractExecutor!Post
<1>3. CASE Owner
  <2>1. Stutters
    BY <1>3, Zenon DEF Owner, Stopping, Start, EmplaceThread, Stop, StopNotifies, StopJoins
  <2> QED
    BY <2>1 DEF AbstractExecutor!vars
<1>4. ASSUME NEW t \in Threads, Proceeds(t) \/ TaskReturns(t) \/ Wakes(t)
      PROVE  [AbstractExecutor!Next]_(AbstractExecutor!vars)
  <2>1. CASE TakeTask(t)
    BY <1>1, <2>1 DEF AbstractExecutor!Next
  <2>2. CASE RunAppends(t)
    BY <1>2, <2>2 DEF AbstractExecutor!Next
  <2>3. CASE ~TakeTask(t) /\ ~RunAppends(t)
    <3>1. Stutters
      BY <1>4, <2>3, Zenon DEF Proceeds, CheckFlag, Take, TakeWaits, TakeNothing, Run, RunInline,
          RunWaits, RunDrops, RunNotifies, TaskReturns, Wakes
    <3> QED
      BY <3>1 DEF AbstractExecutor!vars
  <2> QED
    BY <2>1, <2>2, <2>3
<1>5. ASSUME NEW c \in Callers, CallRun(c) PROVE [AbstractExecutor!Next]_(AbstractExecutor!vars)
  BY <1>5 DEF CallRun, AbstractExecutor!vars
<1>6. CASE UNCHANGED vars
  BY <1>6 DEF vars, AbstractExecutor!vars
<1> QED
  BY <1>3, <1>4, <1>5, <1>6 DEF Next

\* For any workers, callers, programs and bound of the queue: the pool takes what
\* run() accepted, in that order, each task once, and nothing else (thread_pool.cpp,
\* run and take).
THEOREM PoolIsExecutor == Spec => ImplementsExecutor
<1>1. Init => AbstractExecutor!Init
  BY DEF Init, AbstractExecutor!Init
<1> QED
  BY InitTyped, StepTyped, StepImplements, <1>1, PTL
  DEF Spec, ImplementsExecutor, AbstractExecutor!Spec

-----------------------------------------------------------------------------
(* Counting the threads at a place.                                         *)

Count(f, place) == Cardinality({t \in Threads : f[t] = place})

\* One thread moves: it is counted where it is now and not where it was.
Moved(place, from, to) == (IF place = to THEN 1 ELSE 0) - (IF place = from THEN 1 ELSE 0)

\* A count is a number, and it is zero when nobody is there.
LEMMA CountType ==
  ASSUME NEW f, NEW place
  PROVE  /\ Count(f, place) \in Nat
         /\ Count(f, place) = 0 <=> \A t \in Threads : f[t] # place
<1> DEFINE S == {t \in Threads : f[t] = place}
<1>1. IsFiniteSet(S)
  BY PoolAssumption, FS_Subset, S \subseteq Threads
<1>2. Cardinality(S) \in Nat /\ (Cardinality(S) = 0 <=> S = {})
  BY <1>1, FS_CardinalityType, FS_EmptySet
<1> QED
  BY <1>2 DEF Count

\* What the count of a place becomes when one thread moves.
LEMMA CountMoves ==
  ASSUME NEW f \in [Threads -> ThreadPC], NEW t \in Threads, NEW to, NEW place
  PROVE  Count([f EXCEPT ![t] = to], place) = Count(f, place) + Moved(place, f[t], to)
<1> DEFINE g == [f EXCEPT ![t] = to]
           S == {u \in Threads : f[u] = place}
           R == {u \in Threads : g[u] = place}
<1>1. IsFiniteSet(S) /\ IsFiniteSet(R)
  BY PoolAssumption, FS_Subset, S \subseteq Threads, R \subseteq Threads
<1>2. Cardinality(S) \in Nat /\ Cardinality(R) \in Nat
  BY <1>1, FS_CardinalityType
<1>3. Count(f, place) = Cardinality(S) /\ Count(g, place) = Cardinality(R)
  BY DEF Count
<1>4. CASE f[t] = place /\ to = place
  <2>1. R = S
    BY <1>4
  <2> QED
    BY <1>2, <1>4, <1>3, <2>1 DEF Moved
<1>5. CASE f[t] = place /\ to # place
  <2>1. t \in S /\ R = S \ {t}
    BY <1>5
  <2>2. Cardinality(R) = Cardinality(S) - 1
    BY <1>1, <2>1, FS_RemoveElement
  <2> QED
    BY <1>2, <1>5, <1>3, <2>2 DEF Moved
<1>6. CASE f[t] # place /\ to = place
  <2>1. t \notin S /\ R = S \cup {t}
    BY <1>6
  <2>2. Cardinality(R) = Cardinality(S) + 1
    BY <1>1, <2>1, FS_AddElement
  <2> QED
    BY <1>2, <1>6, <1>3, <2>2 DEF Moved
<1>7. CASE f[t] # place /\ to # place
  <2>1. R = S
    BY <1>7
  <2>2. Cardinality(R) = Cardinality(S)
    BY <2>1
  <2>3. Moved(place, f[t], to) = 0
    BY <1>7 DEF Moved
  <2> HIDE DEF S, R
  <2> QED
    BY <1>2, <1>3, <2>2, <2>3
<1> QED
  BY <1>4, <1>5, <1>6, <1>7

\* The same for every place, when the step is the move.
LEMMA OneMoves ==
  ASSUME pc \in [Threads -> ThreadPC], NEW t \in Threads, NEW to, pc' = [pc EXCEPT ![t] = to]
  PROVE  \A place : Count(pc', place) = Count(pc, place) + Moved(place, pc[t], to)
<1> TAKE place
<1>1. Count([pc EXCEPT ![t] = to], place) = Count(pc, place) + Moved(place, pc[t], to)
  BY CountMoves
<1> QED
  BY <1>1

\* When a thread goes from one place to another and lets one of those that wait at
\* a third look again, that one moves too, if there is one.
LEMMA CountWoken ==
  ASSUME pc \in [Threads -> ThreadPC], NEW t \in Threads, NEW to \in ThreadPC,
         NEW waits, NEW again, pc[t] # waits,
         Woken(pc', [pc EXCEPT ![t] = to], waits, again)
  PROVE  \A place :
         Count(pc', place) = Count(pc, place) + Moved(place, pc[t], to)
                             + (IF Count(pc, waits) > 0 THEN Moved(place, waits, again) ELSE 0)
<1> TAKE place
<1> DEFINE f == [pc EXCEPT ![t] = to]
<1>1. f \in [Threads -> ThreadPC]
  OBVIOUS
<1>2. Count(f, place) = Count(pc, place) + Moved(place, pc[t], to)
  BY CountMoves
<1>3. /\ Count(pc, place) \in Nat /\ Count(pc, waits) \in Nat
      /\ Count(pc, waits) > 0 <=> At(waits) # {}
  BY CountType DEF At
<1>4. CASE At(waits) = {}
  <2>1. pc' = f
    BY <1>4 DEF Woken
  <2> QED
    BY <1>2, <1>3, <1>4, <2>1 DEF Moved
<1>5. CASE At(waits) # {}
  <2>1. PICK u \in At(waits) : pc' = [f EXCEPT ![u] = again]
    BY <1>5 DEF Woken
  <2>2. u \in Threads /\ f[u] = waits
    BY <2>1 DEF At
  <2>3. Count(pc', place) = Count(f, place) + Moved(place, waits, again)
    <3> HIDE DEF f
    <3>1. Count(pc', place) = Count(f, place) + Moved(place, f[u], again)
      BY <1>1, <2>1, <2>2, CountMoves
    <3> QED
      BY <2>2, <3>1
  <2> QED
    BY <1>2, <1>3, <1>5, <2>3 DEF Moved
<1> QED
  BY <1>4, <1>5

-----------------------------------------------------------------------------
\* NoSleeperBesideWork in numbers, and what keeps it: nobody waits before start()
\* or after stop() has notified, and nobody waits for room before there are
\* threads.
Calm ==
  /\ owner \in OwnerPC /\ (run_flag_ <=> owner \in {"starting", "running"})
  /\ run_flag_ /\ Count(pc, "not_empty") > 0 =>
       Len(queue_) <= Count(pc, "take") + Count(pc, "notify")
  /\ run_flag_ /\ Count(pc, "not_full") > 0 =>
       MaxQueue <= Len(queue_) + Count(pc, "run")
  /\ owner \notin {"starting", "running", "stopped"} =>
       Count(pc, "not_empty") = 0 /\ Count(pc, "not_full") = 0
  /\ threads_ = {} => Count(pc, "not_full") = 0

CalmInv == RefInv /\ Calm

\* The numbers are numbers.
LEMMA Numbers ==
  /\ Count(pc, "not_empty") \in Nat /\ Count(pc, "not_full") \in Nat
  /\ Count(pc, "take") \in Nat /\ Count(pc, "notify") \in Nat /\ Count(pc, "run") \in Nat
  BY CountType

\* Nobody waits in the beginning.
LEMMA InitCalm == Init => CalmInv
<1> SUFFICES ASSUME Init PROVE CalmInv
  OBVIOUS
<1>1. \A t \in Threads : pc[t] \in {"unborn", "idle"}
  BY DEF Init
<1>2. Count(pc, "not_empty") = 0 /\ Count(pc, "not_full") = 0
  BY <1>1, CountType
<1>3. owner = "created" /\ ~run_flag_
  BY DEF Init
<1> QED
  BY <1>2, <1>3, InitTyped DEF CalmInv, Calm, OwnerPC

\* The moves of one thread that touch neither the queue nor the flag keep the
\* numbers: nobody goes to sleep, or leaves the places of those that will look or
\* notify, but where the lemmas below say so.
LEMMA MoveCalm ==
  ASSUME CalmInv, NEW t \in Threads, NEW to, pc' = [pc EXCEPT ![t] = to],
         to \notin {"not_empty", "not_full"},
         pc[t] \in {"take", "notify"} => ~run_flag_ \/ Count(pc, "not_empty") = 0,
         pc[t] = "run" => ~run_flag_ \/ Count(pc, "not_full") = 0,
         UNCHANGED <<queue_, run_flag_, owner>>, threads_ \subseteq threads_'
  PROVE  Calm'
<1>1. pc \in [Threads -> ThreadPC]
  BY DEF CalmInv, RefInv, Typed
<1>2. \A place : Count(pc', place) = Count(pc, place) + Moved(place, pc[t], to)
  BY <1>1, OneMoves
<1>3. /\ Count(pc', "not_empty") <= Count(pc, "not_empty")
      /\ Count(pc', "not_full") <= Count(pc, "not_full")
      /\ pc[t] \notin {"take", "notify"} =>
           Count(pc', "take") >= Count(pc, "take") /\ Count(pc', "notify") >= Count(pc, "notify")
      /\ pc[t] # "run" => Count(pc', "run") >= Count(pc, "run")
  <2>1. /\ Moved("not_empty", pc[t], to) \in {0, -1} /\ Moved("not_full", pc[t], to) \in {0, -1}
        /\ pc[t] \notin {"take", "notify"} =>
             Moved("take", pc[t], to) \in {0, 1} /\ Moved("notify", pc[t], to) \in {0, 1}
        /\ pc[t] # "run" => Moved("run", pc[t], to) \in {0, 1}
    BY DEF Moved
  <2>2. /\ Count(pc', "not_empty") = Count(pc, "not_empty") + Moved("not_empty", pc[t], to)
        /\ Count(pc', "not_full") = Count(pc, "not_full") + Moved("not_full", pc[t], to)
        /\ Count(pc', "take") = Count(pc, "take") + Moved("take", pc[t], to)
        /\ Count(pc', "notify") = Count(pc, "notify") + Moved("notify", pc[t], to)
        /\ Count(pc', "run") = Count(pc, "run") + Moved("run", pc[t], to)
    BY <1>2
  <2> QED
    BY <2>1, <2>2, Numbers
<1>4. /\ Count(pc', "not_empty") \in Nat /\ Count(pc', "not_full") \in Nat
      /\ Count(pc', "take") \in Nat /\ Count(pc', "notify") \in Nat /\ Count(pc', "run") \in Nat
  BY CountType
<1>5. Len(queue_) \in Nat /\ MaxQueue \in Nat
  BY PoolAssumption DEF CalmInv, RefInv, Typed
<1>6. queue_' = queue_ /\ owner' = owner /\ (run_flag_' <=> run_flag_)
  OBVIOUS
<1>7. threads_' = {} => threads_ = {}
  OBVIOUS
<1> QED
  BY <1>3, <1>4, <1>5, <1>6, <1>7, Numbers, SMTT(30) DEF CalmInv, Calm

\* start() and stop().
LEMMA OwnerCalm == CalmInv /\ Owner => Calm'
<1> SUFFICES ASSUME CalmInv, Owner PROVE Calm'
  OBVIOUS
<1>1. CASE Start
  <2>1. /\ owner = "created" /\ owner' = "starting" /\ run_flag_'
        /\ UNCHANGED <<queue_, threads_, pc>>
    BY <1>1 DEF Start
  <2>2. Count(pc, "not_empty") = 0 /\ Count(pc, "not_full") = 0
    BY <2>1 DEF CalmInv, Calm
  <2> QED
    BY <2>1, <2>2 DEF Calm, OwnerPC
<1>2. ASSUME NEW w \in Workers, EmplaceThread(w) PROVE Calm'
  <2>1. /\ pc[w] = "unborn" /\ pc' = [pc EXCEPT ![w] = "check"] /\ threads_' = threads_ \cup {w}
        /\ UNCHANGED queue_
    BY <1>2, Zenon DEF EmplaceThread, Goto
  <2>2. owner = "starting" /\ owner' \in {"starting", "running"} /\ (run_flag_' <=> run_flag_)
    BY <1>2 DEF EmplaceThread
  <2>3. \A place : Count(pc', place) = Count(pc, place) + Moved(place, "unborn", "check")
    BY <2>1, OneMoves DEF CalmInv, RefInv, Typed, Threads
  <2>4. /\ Count(pc', "not_empty") = Count(pc, "not_empty")
        /\ Count(pc', "not_full") = Count(pc, "not_full")
        /\ Count(pc', "take") = Count(pc, "take") /\ Count(pc', "notify") = Count(pc, "notify")
        /\ Count(pc', "run") = Count(pc, "run")
    BY <2>3, Numbers DEF Moved
  <2> QED
    BY <2>1, <2>2, <2>4 DEF CalmInv, Calm, OwnerPC
<1>3. CASE Stop
  BY <1>3 DEF Stop, CalmInv, Calm, OwnerPC
<1>4. CASE StopNotifies
  <2>1. /\ owner = "stopped" /\ owner' = "notified" /\ (run_flag_' <=> run_flag_)
        /\ UNCHANGED threads_
    BY <1>4 DEF StopNotifies
  <2>2. \A t \in Threads : pc'[t] \notin {"not_empty", "not_full"}
    BY <1>4 DEF StopNotifies
  <2>3. Count(pc', "not_empty") = 0 /\ Count(pc', "not_full") = 0
    BY <2>2, CountType
  <2> QED
    BY <2>1, <2>3 DEF CalmInv, Calm, OwnerPC
<1>5. CASE StopJoins
  BY <1>5 DEF StopJoins, CalmInv, Calm, OwnerPC
<1> QED
  BY <1>1, <1>2, <1>3, <1>4, <1>5 DEF Owner, Stopping

\* A worker goes to sleep beside an empty queue, and one that takes a task wakes a
\* run() that waits for room.
LEMMA WorkerCalm ==
  ASSUME CalmInv, NEW w \in Threads, CheckFlag(w) \/ Take(w)
  PROVE  Calm'
<1> USE DEF CalmInv
<1>1. CASE CheckFlag(w)
  <2>1. PICK to \in {"take", "done"} : pc[w] = "check" /\ pc' = [pc EXCEPT ![w] = to]
    BY <1>1 DEF CheckFlag, Goto
  <2>2. UNCHANGED <<queue_, run_flag_, owner, threads_>>
    BY <1>1 DEF CheckFlag
  <2> QED
    BY <2>1, <2>2, MoveCalm
<1>2. CASE TakeWaits(w)
  <2>1. /\ queue_ = <<>> /\ run_flag_ /\ pc[w] = "take" /\ pc' = [pc EXCEPT ![w] = "not_empty"]
        /\ UNCHANGED <<queue_, run_flag_, owner, threads_>>
    BY <1>2 DEF TakeWaits, Goto
  <2>2. \A place : Count(pc', place) = Count(pc, place) + Moved(place, "take", "not_empty")
    BY <2>1, OneMoves DEF RefInv, Typed
  <2>3. Count(pc', "not_full") = Count(pc, "not_full") /\ Count(pc', "run") = Count(pc, "run")
    BY <2>2, Numbers DEF Moved
  <2>4. Count(pc', "take") \in Nat /\ Count(pc', "notify") \in Nat
    BY CountType
  <2>5. Len(queue_') = 0
    BY <2>1
  <2> QED
    BY <2>1, <2>3, <2>4, <2>5 DEF Calm
<1>3. CASE TakeNothing(w)
  <2>1. /\ ~run_flag_ /\ pc[w] = "take" /\ pc' = [pc EXCEPT ![w] = "check"]
        /\ UNCHANGED <<queue_, run_flag_, owner, threads_>>
    BY <1>3 DEF TakeNothing, Goto
  <2> QED
    BY <2>1, MoveCalm
<1>4. CASE TakeTask(w)
  <2> DEFINE k == Head(queue_)
  <2>1. /\ pc[w] = "take" /\ queue_ # <<>> /\ k \in Tasks /\ queue_' = Tail(queue_)
        /\ Enter(w, <<>>, k)
        /\ (IF MaxQueue > 0 THEN Woken(pc', [pc EXCEPT ![w] = Entered(k)], "not_full", "run")
                            ELSE pc' = [pc EXCEPT ![w] = Entered(k)])
        /\ UNCHANGED <<run_flag_, owner, threads_>>
    BY <1>4 DEF TakeTask, RefInv, Typed
  <2>2. Entered(k) \in ThreadPC /\ Entered(k) \in {"body", "run"}
    BY <2>1, EnterTyped
  <2>3. Len(queue_') = Len(queue_) - 1 /\ Len(queue_) \in Nat /\ MaxQueue \in Nat
    BY <2>1, PoolAssumption DEF RefInv, Typed
  <2>4. pc \in [Threads -> ThreadPC]
    BY DEF RefInv, Typed
  <2> HIDE DEF k
  <2>5. pc[w] = "take"
    BY <2>1
  <2>6. /\ Count(pc', "not_empty") = Count(pc, "not_empty")
        /\ Count(pc', "take") = Count(pc, "take") - 1
        /\ Count(pc', "notify") = Count(pc, "notify")
        /\ Count(pc', "not_full") <= Count(pc, "not_full")
        /\ Count(pc', "run") >= Count(pc, "run")
        /\ MaxQueue > 0 /\ Count(pc', "not_full") > 0 => Count(pc', "run") >= Count(pc, "run") + 1
    <3>1. CASE MaxQueue > 0
      <4>1. \A place : Count(pc', place) = Count(pc, place) + Moved(place, pc[w], Entered(k))
              + (IF Count(pc, "not_full") > 0 THEN Moved(place, "not_full", "run") ELSE 0)
        BY <2>1, <2>2, <2>4, <3>1, CountWoken
      <4> QED
        BY <2>2, <2>5, <4>1, Numbers DEF Moved
    <3>2. CASE ~(MaxQueue > 0)
      <4>1. \A place : Count(pc', place) = Count(pc, place) + Moved(place, pc[w], Entered(k))
        BY <2>1, <2>4, <3>2, OneMoves
      <4> QED
        BY <2>2, <2>5, <4>1, <3>2, Numbers DEF Moved
    <3> QED
      BY <3>1, <3>2
  <2>7. run_flag_' <=> run_flag_
    BY <2>1
  <2> QED
    BY <2>1, <2>3, <2>6, <2>7, Numbers, CountType DEF Calm
<1> QED
  BY <1>1, <1>2, <1>3, <1>4 DEF Take

\* A run() goes to sleep beside a full queue, and one that appended a task wakes a
\* worker.
LEMMA RunCalm ==
  ASSUME CalmInv, NEW t \in Threads, Run(t)
  PROVE  Calm'
<1> USE DEF CalmInv
<1>1. pc \in [Threads -> ThreadPC] /\ Len(queue_) \in Nat /\ MaxQueue \in Nat
  BY PoolAssumption DEF RefInv, Typed
<1>2. CASE RunInline(t)
  <2>1. /\ pc[t] = "run" /\ threads_ = {} /\ pc' = [pc EXCEPT ![t] = Entered(task[t])]
        /\ UNCHANGED <<queue_, run_flag_, owner, threads_>>
    BY <1>2 DEF RunInline
  <2>2. Entered(task[t]) \notin {"not_empty", "not_full"}
    BY DEF Entered
  <2>3. Count(pc, "not_full") = 0
    BY <2>1 DEF Calm
  <2> QED
    BY <2>1, <2>2, <2>3, MoveCalm
<1>3. CASE RunWaits(t)
  <2>1. /\ threads_ # {} /\ MaxQueue <= Len(queue_) /\ run_flag_
        /\ pc[t] = "run" /\ pc' = [pc EXCEPT ![t] = "not_full"]
        /\ UNCHANGED <<queue_, run_flag_, owner, threads_>>
    BY <1>1, <1>3 DEF RunWaits, Goto, is_full_
  <2>2. \A place : Count(pc', place) = Count(pc, place) + Moved(place, "run", "not_full")
    BY <1>1, <2>1, OneMoves
  <2>3. /\ Count(pc', "not_empty") = Count(pc, "not_empty")
        /\ Count(pc', "take") = Count(pc, "take") /\ Count(pc', "notify") = Count(pc, "notify")
    BY <2>2, Numbers DEF Moved
  <2>4. Count(pc', "run") \in Nat
    BY CountType
  <2> QED
    BY <1>1, <2>1, <2>3, <2>4 DEF Calm
<1>4. CASE RunDrops(t)
  <2>1. /\ ~run_flag_ /\ pc[t] = "run" /\ pc' = [pc EXCEPT ![t] = AfterRun(t)]
        /\ UNCHANGED <<queue_, run_flag_, owner, threads_>>
    BY <1>4 DEF RunDrops, Goto
  <2> QED
    BY <2>1, AfterRunPlace, MoveCalm
<1>5. CASE RunAppends(t)
  <2>1. /\ threads_ # {} /\ pc[t] = "run" /\ pc' = [pc EXCEPT ![t] = "notify"]
        /\ queue_' = Append(queue_, task[t])
        /\ UNCHANGED <<run_flag_, owner, threads_>>
    BY <1>5 DEF RunAppends, Goto
  <2>2. \A place : Count(pc', place) = Count(pc, place) + Moved(place, "run", "notify")
    BY <1>1, <2>1, OneMoves
  <2>3. /\ Count(pc', "not_empty") = Count(pc, "not_empty")
        /\ Count(pc', "not_full") = Count(pc, "not_full")
        /\ Count(pc', "take") = Count(pc, "take")
        /\ Count(pc', "notify") = Count(pc, "notify") + 1
        /\ Count(pc', "run") = Count(pc, "run") - 1
    BY <2>2, Numbers DEF Moved
  <2>4. Len(queue_') = Len(queue_) + 1
    BY <2>1 DEF RefInv, Typed, RunHasTask
  <2> QED
    BY <1>1, <2>1, <2>3, <2>4, Numbers, SMTT(30) DEF Calm
<1>6. CASE RunNotifies(t)
  <2>1. /\ pc[t] = "notify"
        /\ Woken(pc', [pc EXCEPT ![t] = AfterRun(t)], "not_empty", "take")
        /\ UNCHANGED <<queue_, run_flag_, owner, threads_>>
    BY <1>6 DEF RunNotifies
  <2>2. AfterRun(t) \in {"idle", "body"} /\ AfterRun(t) \in ThreadPC
    BY AfterRunPlace
  <2>3. \A place : Count(pc', place) = Count(pc, place) + Moved(place, pc[t], AfterRun(t))
          + (IF Count(pc, "not_empty") > 0 THEN Moved(place, "not_empty", "take") ELSE 0)
    BY <1>1, <2>1, <2>2, CountWoken
  <2>4. /\ Count(pc', "not_full") = Count(pc, "not_full") /\ Count(pc', "run") = Count(pc, "run")
        /\ Count(pc', "not_empty") <= Count(pc, "not_empty")
        /\ Count(pc', "not_empty") > 0 =>
             Count(pc', "take") + Count(pc', "notify") = Count(pc, "take") + Count(pc, "notify")
        /\ Count(pc, "not_empty") = 0 => Count(pc', "not_empty") = 0
    BY <2>1, <2>2, <2>3, Numbers DEF Moved
  <2>5. Count(pc', "not_empty") \in Nat
    BY CountType
  <2> QED
    BY <1>1, <2>1, <2>4, <2>5, Numbers DEF Calm
<1> QED
  BY <1>2, <1>3, <1>4, <1>5, <1>6 DEF Run

\* The other steps of a thread move it to where it looks or runs.
LEMMA OtherCalm ==
  ASSUME CalmInv, NEW t \in Threads, TaskReturns(t) \/ Wakes(t) \/ (t \in Callers /\ CallRun(t))
  PROVE  Calm'
<1>1. CASE TaskReturns(t)
  <2> DEFINE to == CASE Len(running[t]) > 1 -> "body"
                     [] t \in Workers -> "check"
                     [] OTHER -> "idle"
  <2>1. /\ to \in {"body", "check", "idle"} /\ pc[t] = "body" /\ pc' = [pc EXCEPT ![t] = to]
        /\ UNCHANGED <<queue_, run_flag_, owner, threads_>>
    BY <1>1 DEF TaskReturns
  <2> HIDE DEF to
  <2> QED
    BY <2>1, MoveCalm
<1>2. CASE Wakes(t)
  <2>1. PICK to \in {"take", "run"} :
          pc[t] \in {"not_empty", "not_full"} /\ pc' = [pc EXCEPT ![t] = to]
    BY <1>2 DEF Wakes, Goto
  <2>2. UNCHANGED <<queue_, run_flag_, owner, threads_>>
    BY <1>2 DEF Wakes
  <2> QED
    BY <2>1, <2>2, MoveCalm
<1>3. CASE CallRun(t)
  <2>1. /\ pc[t] = "idle" /\ pc' = [pc EXCEPT ![t] = "run"]
        /\ UNCHANGED <<queue_, run_flag_, owner, threads_>>
    BY <1>3 DEF CallRun
  <2> QED
    BY <2>1, MoveCalm
<1> QED
  BY <1>1, <1>2, <1>3

\* Every step keeps the numbers.
LEMMA StepCalm == CalmInv /\ [Next]_vars => CalmInv'
<1> SUFFICES ASSUME CalmInv, [Next]_vars PROVE CalmInv'
  OBVIOUS
<1>1. RefInv'
  BY StepTyped DEF CalmInv
<1>2. CASE Owner
  BY <1>1, <1>2, OwnerCalm DEF CalmInv
<1>3. ASSUME NEW t \in Threads, Proceeds(t) \/ TaskReturns(t) \/ Wakes(t) PROVE CalmInv'
  BY <1>1, <1>3, WorkerCalm, RunCalm, OtherCalm DEF Proceeds, CalmInv
<1>4. ASSUME NEW c \in Callers, CallRun(c) PROVE CalmInv'
  BY <1>1, <1>4, OtherCalm DEF CalmInv, Threads
<1>5. CASE UNCHANGED vars
  BY <1>1, <1>5 DEF vars, CalmInv, Calm
<1> QED
  BY <1>2, <1>3, <1>4, <1>5 DEF Next

\* For any workers, callers, programs and bound of the queue: nobody sleeps beside
\* a task or a place in the queue that nobody else is about to see to, and nobody
\* sleeps once stop() has notified (thread_pool.cpp, stop, run and take).
THEOREM NobodyStranded == Spec => []NoSleeperBesideWork
<1>1. CalmInv => NoSleeperBesideWork
  <2> SUFFICES ASSUME CalmInv PROVE NoSleeperBesideWork
    OBVIOUS
  <2>1. \A place : Count(pc, place) = Cardinality(At(place))
    BY DEF Count, At
  <2>2. \A place : Count(pc, place) \in Nat /\ (Count(pc, place) = 0 <=> At(place) = {})
    BY CountType DEF At
  <2> QED
    BY <2>1, <2>2 DEF CalmInv, Calm, NoSleeperBesideWork
<1> QED
  BY InitCalm, StepCalm, <1>1, PTL DEF Spec

-----------------------------------------------------------------------------
(* The queue of results.                                                    *)

\* The threads that use it: those of the pool and its consumers.
QueueUsers == Threads \cup Consumers

\* They are finitely many, so that they can be counted.
LEMMA UsersFinite == IsFiniteSet(QueueUsers)
  BY PoolAssumption, ConsumersAssumption, FS_Union DEF QueueUsers

\* The queue's module counts as this one does.
LEMMA SameCardinality == \A S : Results!Cardinality(S) = Cardinality(S)
  BY Zenon DEF Cardinality, Results!Cardinality, IsFiniteSet, Results!IsFiniteSet

\* A thread sleeps in the condition variable or is awake, never both.
ResultsInv ==
  /\ Results!TypeOK
  /\ results_awake \cap results_asleep = {}
  /\ Results!NoSleeperBesideElement

\* What cardinalities do when a thread joins or leaves a set of threads.
LEMMA JoinOrLeave ==
  ASSUME NEW S \in SUBSET QueueUsers, NEW t \in QueueUsers
  PROVE  /\ Results!Cardinality(S) \in Nat
         /\ t \notin S => Results!Cardinality(S \cup {t}) = Results!Cardinality(S) + 1
         /\ t \in S => Results!Cardinality(S \ {t}) = Results!Cardinality(S) - 1
         /\ t \in S => S \cup {t} = S
         /\ t \notin S => S \ {t} = S
<1>1. IsFiniteSet(S)
  BY FS_Subset, UsersFinite
<1>2. Results!Cardinality(S) \in Nat
  BY <1>1, FS_CardinalityType, SameCardinality
<1>3. t \notin S => Results!Cardinality(S \cup {t}) = Results!Cardinality(S) + 1
  BY <1>1, FS_AddElement, SameCardinality
<1>4. t \in S => Results!Cardinality(S \ {t}) = Results!Cardinality(S) - 1
  BY <1>1, FS_RemoveElement, SameCardinality
<1> QED
  BY <1>2, <1>3, <1>4

\* A queue that is constructed is empty and nobody waits.
LEMMA ResultsQuiet == Results!Init => ResultsInv
  BY DEF Results!Init, QueueUsers, ResultsInv, Results!TypeOK, Results!NoSleeperBesideElement

\* push() adds an element and a thread that will notify.
LEMMA PushKeeps ==
  ASSUME ResultsInv, NEW t \in QueueUsers, NEW e \in {"result"}, Results!Push(t, e)
  PROVE  ResultsInv'
<1> USE DEF ResultsInv, QueueUsers, Results!TypeOK, Results!Push, Results!Busy
<1>1. Results!TypeOK' /\ (results_awake \cap results_asleep = {})'
  OBVIOUS
<1>2. Len(results') = Len(results) + 1 /\ Len(results) \in Nat
  OBVIOUS
<1>3. Results!Cardinality(results_notifying') = Results!Cardinality(results_notifying) + 1
  BY JoinOrLeave
<1>4. Results!Cardinality(results_awake) \in Nat /\ Results!Cardinality(results_notifying) \in Nat
  BY JoinOrLeave
<1>5. Results!NoSleeperBesideElement'
  BY <1>2, <1>3, <1>4 DEF Results!NoSleeperBesideElement
<1> QED
  BY <1>1, <1>5

\* Its notification turns it into a thread that is awake, if anybody slept.
LEMMA NotifyKeeps ==
  ASSUME ResultsInv, NEW t \in QueueUsers, Results!NotifyOne(t)
  PROVE  ResultsInv'
<1> USE DEF ResultsInv, QueueUsers, Results!TypeOK, Results!NotifyOne
<1>1. CASE results_asleep = {}
  BY <1>1 DEF Results!NoSleeperBesideElement
<1>2. CASE results_asleep # {}
  <2>1. PICK s \in results_asleep : /\ results_awake' = results_awake \cup {s}
                                     /\ results_asleep' = results_asleep \ {s}
    BY <1>2
  <2>2. Results!TypeOK' /\ (results_awake \cap results_asleep = {})'
    BY <2>1
  <2>3. Results!Cardinality(results_awake') = Results!Cardinality(results_awake) + 1
    BY <2>1, JoinOrLeave
  <2>4. Results!Cardinality(results_notifying') = Results!Cardinality(results_notifying) - 1
    BY JoinOrLeave
  <2>5. Results!Cardinality(results_awake) \in Nat /\ Results!Cardinality(results_notifying) \in Nat
    BY JoinOrLeave
  <2>6. Results!NoSleeperBesideElement'
    BY <1>2, <2>3, <2>4, <2>5 DEF Results!NoSleeperBesideElement
  <2> QED
    BY <2>2, <2>6
<1> QED
  BY <1>1, <1>2

\* A pop() that takes an element was awake, or had not slept at all.
LEMMA TakeKeeps ==
  ASSUME ResultsInv, NEW t \in QueueUsers, Results!PopTakes(t)
  PROVE  ResultsInv'
<1> USE DEF ResultsInv, QueueUsers, Results!TypeOK, Results!PopTakes
<1>1. Results!TypeOK' /\ (results_awake \cap results_asleep = {})'
  OBVIOUS
<1>2. Len(results') = Len(results) - 1 /\ Len(results) \in Nat
  OBVIOUS
<1>3. Results!Cardinality(results_awake') \in {Results!Cardinality(results_awake), Results!Cardinality(results_awake) - 1}
  BY JoinOrLeave
<1>4. Results!Cardinality(results_awake) \in Nat /\ Results!Cardinality(results_notifying) \in Nat
  BY JoinOrLeave
<1>5. Results!NoSleeperBesideElement'
  BY <1>2, <1>3, <1>4 DEF Results!NoSleeperBesideElement
<1> QED
  BY <1>1, <1>5

\* A pop() goes to sleep only beside an empty queue.
LEMMA WaitKeeps ==
  ASSUME ResultsInv, NEW t \in QueueUsers, Results!PopWaits(t)
  PROVE  ResultsInv'
<1> USE DEF ResultsInv, QueueUsers, Results!TypeOK, Results!PopWaits
<1>1. Results!TypeOK' /\ (results_awake \cap results_asleep = {})'
  OBVIOUS
<1>2. Results!Cardinality(results_awake') \in Nat /\ Results!Cardinality(results_notifying') \in Nat
  BY <1>1, JoinOrLeave
<1>3. Len(results') = 0
  OBVIOUS
<1> QED
  BY <1>1, <1>2, <1>3 DEF Results!NoSleeperBesideElement

\* A sleeper that wakes without a notification does no harm.
LEMMA WakeKeeps ==
  ASSUME ResultsInv, NEW t \in QueueUsers, Results!PopWakes(t)
  PROVE  ResultsInv'
<1> USE DEF ResultsInv, QueueUsers, Results!TypeOK, Results!PopWakes
<1>1. Results!TypeOK' /\ (results_awake \cap results_asleep = {})'
  OBVIOUS
<1>2. Results!Cardinality(results_awake') = Results!Cardinality(results_awake) + 1
  BY JoinOrLeave
<1>3. Results!Cardinality(results_awake) \in Nat /\ Results!Cardinality(results_notifying) \in Nat
  BY JoinOrLeave
<1>4. Len(results) \in Nat
  OBVIOUS
<1>5. Results!NoSleeperBesideElement'
  BY <1>2, <1>3, <1>4 DEF Results!NoSleeperBesideElement
<1> QED
  BY <1>1, <1>5

\* drain() leaves nothing to wake anybody for.
LEMMA DrainKeeps ==
  ASSUME ResultsInv, NEW t \in QueueUsers, Results!Drain(t)
  PROVE  ResultsInv'
<1> USE DEF ResultsInv, QueueUsers, Results!TypeOK, Results!Drain
<1>1. /\ Results!Cardinality(results_awake) \in Nat
      /\ Results!Cardinality(results_notifying) \in Nat
      /\ Len(results') = 0
  BY JoinOrLeave
<1> QED
  BY <1>1 DEF Results!NoSleeperBesideElement

\* Every step keeps the invariant, whoever takes it.
LEMMA ResultsKept == ResultsInv /\ [Results!Next]_(Results!vars) => ResultsInv'
<1> SUFFICES ASSUME ResultsInv, [Results!Next]_(Results!vars) PROVE ResultsInv'
  OBVIOUS
<1>1. CASE UNCHANGED Results!vars
  BY <1>1 DEF Results!vars, ResultsInv, Results!TypeOK, Results!NoSleeperBesideElement
<1>2. ASSUME NEW t \in Threads \cup Consumers, Results!PopTakes(t) \/ Results!PopWaits(t)
                                               \/ Results!PopWakes(t) \/ Results!Drain(t)
      PROVE  ResultsInv'
  BY <1>2, TakeKeeps, WaitKeeps, WakeKeeps, DrainKeeps DEF QueueUsers
<1>3. ASSUME NEW t \in Threads \cup Consumers, \/ Results!NotifyOne(t)
                                               \/ \E e \in {"result"} : Results!Push(t, e)
      PROVE  ResultsInv'
  BY <1>3, PushKeeps, NotifyKeeps DEF QueueUsers
<1> QED
  BY <1>1, <1>2, <1>3 DEF Results!Next, Results!Popping

-----------------------------------------------------------------------------
(* The pipeline.                                                            *)

\* Every step of the pipeline is one of the queue of results, or leaves it alone.
LEMMA StepOfResults ==
  [PipelineNext]_pipelineVars => [Results!Next]_(Results!vars)
<1> SUFFICES ASSUME [PipelineNext]_pipelineVars PROVE [Results!Next]_(Results!vars)
  OBVIOUS
<1>1. CASE UNCHANGED resultVars
  BY <1>1 DEF resultVars, Results!vars
<1>2. ASSUME NEW t \in Threads, PushResult(t) PROVE Results!Next
  BY <1>2 DEF PushResult, Results!Next
<1>3. ASSUME NEW t \in Threads, DeliverResult(t) PROVE Results!Next
  BY <1>3 DEF DeliverResult, Results!Next
<1>4. ASSUME NEW c \in Consumers, Consumes(c) PROVE Results!Next
  BY <1>4 DEF Consumes, Results!Next
<1> QED
  BY <1>1, <1>2, <1>3, <1>4 DEF PipelineNext, Works, pipelineVars

\* Every step of the pipeline is one of the pool, or leaves it alone.
LEMMA StepOfPool == [PipelineNext]_pipelineVars => [Next]_vars
<1> SUFFICES ASSUME [PipelineNext]_pipelineVars PROVE [Next]_vars
  OBVIOUS
<1>1. ASSUME NEW t \in Threads, Works(t) PROVE [Next]_vars
  BY <1>1 DEF Works, PushResult, DeliverResult, Next
<1> QED
  BY <1>1 DEF PipelineNext, pipelineVars, Consumes, Next

\* The pipeline implements both specifications.
THEOREM PipelineImplements == PipelineSpec => Spec /\ Results!Spec
<1>1. PipelineInit => Init /\ Results!Init
  BY DEF PipelineInit
<1> QED
  BY <1>1, StepOfResults, StepOfPool, PTL DEF PipelineSpec, Spec, Results!Spec

\* The elements of results are never stranded: for any workers, callers, programs
\* and consumers, also beside drain() (blocking_queue.hpp, push, pop and drain).
THEOREM NoResultStranded == PipelineSpec => []NoSleeperBesideResult
<1>1. ResultsInv => NoSleeperBesideResult
  BY DEF ResultsInv, NoSleeperBesideResult
<1> QED
  BY <1>1, ResultsQuiet, ResultsKept, PipelineImplements, PTL DEF Results!Spec

\* In the pipeline too nobody waits beside a task, or beside room for one.
THEOREM NoTaskStranded == PipelineSpec => []NoSleeperBesideWork
  BY PipelineImplements, NobodyStranded, PTL
=============================================================================
