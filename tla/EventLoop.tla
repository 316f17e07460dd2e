----------------------------- MODULE EventLoop -----------------------------
(***************************************************************************)
(* net/src/eventloop.cpp: one EventLoop, the thread that owns it and the    *)
(* other threads that hand it functors (queue_in_loop, run_in_loop) or ask  *)
(* it to stop (quit).                                                       *)
(*                                                                         *)
(* queue_in_loop appends to queue_functors_ under mutex_, but               *)
(* do_queued_functors empties it under mtx_, another mutex.  The model      *)
(* therefore lets the two critical sections overlap; from the first overlap *)
(* on (raced) the vector may be torn: an append may land, be lost, or take  *)
(* the process down.                                                        *)
(***************************************************************************)
EXTENDS Integers, Sequences

CONSTANTS
  Threads,      \* the threads other than the loop's own
  Functors,     \* the functors, each posted at most once (this bounds the runs)
  NoFunctor     \* what a thread posts when it is not posting

ASSUME NoFunctorAssumption == NoFunctor \notin Functors

VARIABLES
  \* the owner thread
  pc,                   \* where loop() is
  active_channels_,     \* what the last poll reported and is not yet handled
  functors,             \* the local batch of do_queued_functors
  run_queue_functors_,
  \* shared
  queue_functors_,
  quit_flag_,
  wakeup_fd_,           \* the eventfd counter is not zero
  wakeup_reading,       \* init() has put the wakeup channel into the poller
  \* the other threads
  tpc,                  \* where a thread is inside queue_in_loop or quit
  posting,              \* the functor it is posting
  \* history
  raced,                \* queue_functors_ was accessed by two threads at once
  enqueued,             \* every functor posted, in the order of the emplace_back
  executed,             \* every functor started, in order
  early                 \* functors posted by the owner outside loop()

ownerVars  == <<pc, active_channels_, functors, run_queue_functors_>>
sharedVars == <<queue_functors_, quit_flag_, wakeup_fd_, wakeup_reading>>
threadVars == <<tpc, posting>>
history    == <<raced, enqueued, executed, early>>
vars       == <<ownerVars, sharedVars, threadVars, history>>

-----------------------------------------------------------------------------
OwnerPC  == {"created", "check", "poll", "events", "handler", "swap", "batch",
             "functor", "done", "crashed"}
ThreadPC == {"idle", "emplace", "wakeup"}

\* The owner is inside loop().
Looping == pc \notin {"created", "done", "crashed"}

\* The owner runs code that is not the loop's own: a callback, or what it does
\* before and after loop().
InUserCode == pc \in {"created", "handler", "functor", "done"}

\* A thread is between the lock and the unlock of mutex_ in queue_in_loop.
Emplacing == \E t \in Threads : tpc[t] = "emplace"

\* f is an element of the sequence s.
Occurs(f, s) == \E i \in 1..Len(s) : s[i] = f

Unposted(f) == /\ ~Occurs(f, enqueued)
               /\ \A t \in Threads : posting[t] # f

Init ==
  /\ pc = "created"
  /\ active_channels_ = {}
  /\ functors = <<>>
  /\ run_queue_functors_ = FALSE
  /\ queue_functors_ = <<>>
  /\ quit_flag_ = FALSE
  /\ wakeup_fd_ = FALSE
  /\ wakeup_reading = FALSE
  /\ tpc = [t \in Threads |-> "idle"]
  /\ posting = [t \in Threads |-> NoFunctor]
  /\ raced = FALSE
  /\ enqueued = <<>>
  /\ executed = <<>>
  /\ early = {}

\* A step of the owner that only moves it on.
Goto(from, to) ==
  /\ pc = from
  /\ pc' = to
  /\ UNCHANGED <<active_channels_, functors, run_queue_functors_, sharedVars,
                 threadVars, history>>

-----------------------------------------------------------------------------
(* Code of the owner outside the loop's own: init(), quit() and             *)
(* queue_in_loop() called by the thread itself.                             *)

\* init(): optional.  The threads of EventLoopThread never call it.
RegisterWakeup ==
  /\ pc = "created"
  /\ wakeup_reading' = TRUE
  /\ UNCHANGED <<ownerVars, queue_functors_, quit_flag_, wakeup_fd_,
                 threadVars, history>>

QuitOwn ==
  /\ InUserCode
  /\ quit_flag_' = TRUE
  /\ UNCHANGED <<ownerVars, queue_functors_, wakeup_fd_, wakeup_reading,
                 threadVars, history>>

\* Mutant: no write for a functor queued from a functor.
QueueOwnSilent(f) ==
  /\ InUserCode /\ Unposted(f) /\ ~Emplacing
  /\ queue_functors_' = Append(queue_functors_, f)
  /\ enqueued' = Append(enqueued, f)
  /\ early' = IF Looping THEN early ELSE early \cup {f}
  /\ UNCHANGED <<ownerVars, quit_flag_, wakeup_fd_, wakeup_reading, threadVars,
                 raced, executed>>

\* queue_in_loop() by the owner: it waits for mutex_, and writes the eventfd
\* only when it is called from a functor of the batch.
QueueOwn(f) ==
  /\ InUserCode
  /\ Unposted(f)
  /\ ~Emplacing
  /\ queue_functors_' = Append(queue_functors_, f)
  /\ enqueued' = Append(enqueued, f)
  /\ wakeup_fd_' = (wakeup_fd_ \/ run_queue_functors_)
  /\ early' = IF Looping THEN early ELSE early \cup {f}
  /\ UNCHANGED <<ownerVars, quit_flag_, wakeup_reading, threadVars, raced,
                 executed>>

-----------------------------------------------------------------------------
(* loop().                                                                  *)

\* Mutant: loop() clears quit_flag_ when it starts.
StartLoopForgetsQuit ==
  /\ pc \in {"created", "done"}
  /\ pc' = "check"
  /\ quit_flag_' = FALSE
  /\ UNCHANGED <<active_channels_, functors, run_queue_functors_, queue_functors_,
                 wakeup_fd_, wakeup_reading, threadVars, history>>

\* quit_flag_ is never cleared: a second loop() returns at its first check.
StartLoop == Goto("created", "check") \/ Goto("done", "check")

CheckQuit == Goto("check", IF quit_flag_ THEN "done" ELSE "poll")

\* poll() returns: the wakeup channel is reported when the eventfd is readable
\* and registered, any other channel when its own descriptor is ready.
PollReturns(channels) ==
  /\ pc = "poll"
  /\ pc' = "events"
  /\ active_channels_' = channels
  /\ UNCHANGED <<functors, run_queue_functors_, sharedVars, threadVars, history>>

PollWakeup == /\ wakeup_fd_ /\ wakeup_reading
              /\ \/ PollReturns({"wakeup"})
                 \/ PollReturns({"wakeup", "io"})

PollIo == /\ ~(wakeup_fd_ /\ wakeup_reading)
          /\ PollReturns({"io"})

\* The ten seconds of POLL_TIMEOUT_MS pass, or a signal interrupts the wait.
PollTimeout == PollReturns({})

HandleWakeup ==
  /\ pc = "events"
  /\ "wakeup" \in active_channels_
  /\ active_channels_' = active_channels_ \ {"wakeup"}
  /\ wakeup_fd_' = FALSE
  /\ UNCHANGED <<pc, functors, run_queue_functors_, queue_functors_, quit_flag_,
                 wakeup_reading, threadVars, history>>

HandleIo ==
  /\ pc = "events"
  /\ "io" \in active_channels_
  /\ active_channels_' = active_channels_ \ {"io"}
  /\ pc' = "handler"
  /\ UNCHANGED <<functors, run_queue_functors_, sharedVars, threadVars, history>>

HandlerReturns == Goto("handler", "events")

-----------------------------------------------------------------------------
(* do_queued_functors().                                                    *)

\* The flag is set and mtx_ taken; nothing keeps a thread out that holds mutex_.
LockMtx ==
  /\ pc = "events"
  /\ active_channels_ = {}
  /\ pc' = "swap"
  /\ run_queue_functors_' = TRUE
  /\ raced' = (raced \/ Emplacing)
  /\ UNCHANGED <<active_channels_, functors, sharedVars, threadVars, enqueued,
                 executed, early>>

\* Mutant: the early return leaves the flag set.
SwapOrReturnKeepsFlag ==
  /\ pc = "swap"
  /\ functors' = queue_functors_
  /\ queue_functors_' = <<>>
  /\ pc' = IF queue_functors_ = <<>> THEN "check" ELSE "batch"
  /\ UNCHANGED <<active_channels_, run_queue_functors_, quit_flag_, wakeup_fd_,
                 wakeup_reading, threadVars, history>>

\* Mutant: the queue is copied into the batch, not swapped.
SwapOrReturnCopies ==
  /\ pc = "swap"
  /\ functors' = queue_functors_
  /\ run_queue_functors_' = (queue_functors_ # <<>>)
  /\ pc' = IF queue_functors_ = <<>> THEN "check" ELSE "batch"
  /\ UNCHANGED <<active_channels_, sharedVars, threadVars, history>>

SwapOrReturn ==
  /\ pc = "swap"
  /\ \/ /\ queue_functors_ = <<>>
        /\ run_queue_functors_' = FALSE
        /\ pc' = "check"
        /\ UNCHANGED <<queue_functors_, functors>>
     \/ /\ queue_functors_ # <<>>
        /\ functors' = queue_functors_
        /\ queue_functors_' = <<>>
        /\ pc' = "batch"
        /\ UNCHANGED run_queue_functors_
  /\ UNCHANGED <<active_channels_, quit_flag_, wakeup_fd_, wakeup_reading,
                 threadVars, history>>

CallFunctor ==
  /\ pc = "batch"
  /\ functors # <<>>
  /\ executed' = Append(executed, Head(functors))
  /\ functors' = Tail(functors)
  /\ pc' = "functor"
  /\ UNCHANGED <<active_channels_, run_queue_functors_, sharedVars, threadVars,
                 raced, enqueued, early>>

FunctorReturns == Goto("functor", "batch")

\* Mutant: the queue is cleared after the batch, not before it.
BatchDoneClears ==
  /\ pc = "batch"
  /\ functors = <<>>
  /\ run_queue_functors_' = FALSE
  /\ pc' = "check"
  /\ queue_functors_' = <<>>
  /\ UNCHANGED <<active_channels_, functors, quit_flag_, wakeup_fd_,
                 wakeup_reading, threadVars, history>>

BatchDone ==
  /\ pc = "batch"
  /\ functors = <<>>
  /\ run_queue_functors_' = FALSE
  /\ pc' = "check"
  /\ UNCHANGED <<active_channels_, functors, sharedVars, threadVars, history>>

-----------------------------------------------------------------------------
(* The other threads: queue_in_loop() (and run_in_loop(), which is the same *)
(* for them) in three steps, quit() in two.                                 *)

LockMutex(t, f) ==
  /\ tpc[t] = "idle"
  /\ Unposted(f)
  /\ ~Emplacing
  /\ tpc' = [tpc EXCEPT ![t] = "emplace"]
  /\ posting' = [posting EXCEPT ![t] = f]
  /\ raced' = (raced \/ pc = "swap")
  /\ UNCHANGED <<ownerVars, sharedVars, enqueued, executed, early>>

\* Mutant: a thread spares the write when it sees the loop running a batch.
EmplaceBackSpares(t) ==
  /\ tpc[t] = "emplace"
  /\ queue_functors_' = Append(queue_functors_, posting[t])
  /\ enqueued' = Append(enqueued, posting[t])
  /\ tpc' = [tpc EXCEPT ![t] = IF run_queue_functors_ THEN "idle" ELSE "wakeup"]
  /\ posting' = [posting EXCEPT ![t] = NoFunctor]
  /\ UNCHANGED <<ownerVars, quit_flag_, wakeup_fd_, wakeup_reading, raced,
                 executed, early>>

\* emplace_back and the unlock.  In a torn vector the functor may be lost.
EmplaceBack(t) ==
  /\ tpc[t] = "emplace"
  /\ \/ queue_functors_' = Append(queue_functors_, posting[t])
     \/ raced /\ UNCHANGED queue_functors_
  /\ enqueued' = Append(enqueued, posting[t])
  /\ tpc' = [tpc EXCEPT ![t] = "wakeup"]
  /\ posting' = [posting EXCEPT ![t] = NoFunctor]
  /\ UNCHANGED <<ownerVars, quit_flag_, wakeup_fd_, wakeup_reading, raced,
                 executed, early>>

\* Mutant: quit() does not wake the loop.
QuitForeignSilent(t) ==
  /\ tpc[t] = "idle"
  /\ quit_flag_' = TRUE
  /\ UNCHANGED <<ownerVars, queue_functors_, wakeup_fd_, wakeup_reading,
                 threadVars, history>>

QuitForeign(t) ==
  /\ tpc[t] = "idle"
  /\ quit_flag_' = TRUE
  /\ tpc' = [tpc EXCEPT ![t] = "wakeup"]
  /\ UNCHANGED <<ownerVars, queue_functors_, wakeup_fd_, wakeup_reading, posting,
                 history>>

Wakeup(t) ==
  /\ tpc[t] = "wakeup"
  /\ wakeup_fd_' = TRUE
  /\ tpc' = [tpc EXCEPT ![t] = "idle"]
  /\ UNCHANGED <<ownerVars, queue_functors_, quit_flag_, wakeup_reading, posting,
                 history>>

\* The torn vector is dereferenced.
Crash == raced /\ (Goto("swap", "crashed") \/ Goto("batch", "crashed"))

-----------------------------------------------------------------------------
UserStep == RegisterWakeup \/ QuitOwn \/ (\E f \in Functors : QueueOwn(f)) \/ StartLoop

\* What the loop does on its own once loop() was called, without new input.
LoopStep == \/ CheckQuit \/ PollWakeup \/ HandleWakeup \/ HandleIo
            \/ HandlerReturns \/ LockMtx \/ SwapOrReturn \/ CallFunctor
            \/ FunctorReturns \/ BatchDone

ThreadCall(t) == QuitForeign(t) \/ \E f \in Functors : LockMutex(t, f)
ThreadStep(t) == EmplaceBack(t) \/ Wakeup(t)

Next == \/ UserStep \/ LoopStep \/ PollIo \/ PollTimeout \/ Crash
        \/ \E t \in Threads : ThreadCall(t) \/ ThreadStep(t)

Spec == Init /\ [][Next]_vars

\* A thread that has begun a call finishes it, callbacks return, and the kernel
\* reports a registered eventfd that is readable.  The poll timeout is left out.
PromptSpec == /\ Spec
              /\ WF_vars(StartLoop /\ pc = "created")
              /\ WF_vars(LoopStep)
              /\ \A t \in Threads : WF_vars(ThreadStep(t))

\* A poll returns after its timeout at the latest.
PollsTimeOut == WF_vars(PollTimeout)

-----------------------------------------------------------------------------
(* Properties.                                                              *)

TypeOK ==
  /\ pc \in OwnerPC
  /\ active_channels_ \subseteq {"wakeup", "io"}
  /\ functors \in Seq(Functors)
  /\ run_queue_functors_ \in BOOLEAN
  /\ queue_functors_ \in Seq(Functors)
  /\ quit_flag_ \in BOOLEAN
  /\ wakeup_fd_ \in BOOLEAN
  /\ wakeup_reading \in BOOLEAN
  /\ tpc \in [Threads -> ThreadPC]
  /\ posting \in [Threads -> Functors \cup {NoFunctor}]
  /\ raced \in BOOLEAN
  /\ enqueued \in Seq(Functors)
  /\ executed \in Seq(Functors)
  /\ early \subseteq Functors

\* run_queue_functors_ is set exactly while do_queued_functors is between its
\* first line and one of its two exits; the early return must reset it too.
RunFlagMatchesLoop ==
  pc # "crashed" => (run_queue_functors_ <=> pc \in {"swap", "batch", "functor"})

\* Support for the proofs: a thread holds a functor exactly while it is in
\* emplace_back, and the local batch is empty outside do_queued_functors.
PostingMatches ==
  \A t \in Threads : tpc[t] = "emplace" <=> posting[t] \in Functors
BatchIsLocal == pc \notin {"batch", "functor", "crashed"} => functors = <<>>

\* Somebody is about to make the eventfd readable, or it is.
WakeupComing == wakeup_fd_ \/ \E t \in Threads : tpc[t] = "wakeup"

\* The owner will not swap the queue before it has been through a poll.
MaySleepFirst == pc \notin {"events", "handler", "swap", "crashed"}

\* A loop that may sleep before it looks at its queue again has a wakeup coming
\* for every functor left there (unless the owner itself queued it outside
\* loop()), and a loop in poll() has one coming when it was told to quit.
\* queue_in_loop skips the write when the owner calls it outside a batch
\* (eventloop.cpp:262), and handle_wakeup clears every write made before it.
NoLostWakeup ==
  /\ MaySleepFirst /\ (\E i \in 1..Len(queue_functors_) : queue_functors_[i] \notin early)
       => WakeupComing
  /\ pc = "poll" /\ quit_flag_ => WakeupComing

\* Until the queue is torn, every functor posted has run, is next in the batch or
\* waits in the queue: once, and in the order of posting.
FunctorOrder == ~raced => enqueued = executed \o functors \o queue_functors_

\* The inductive invariant: the parts above support each other.
LoopInv == /\ TypeOK /\ PostingMatches /\ BatchIsLocal /\ RunFlagMatchesLoop
           /\ NoLostWakeup /\ FunctorOrder

\* eventloop.cpp:137 says the swap is locked because other threads insert tasks:
\* no thread appends to the queue while the owner swaps it.
MutualExclusion == ~(pc = "swap" /\ Emplacing)

\* The loop will do no more: it was told to stop, or its queue was torn.
Stopping == quit_flag_ \/ raced

\* With the wakeup channel registered, a functor posted from another thread or
\* from a callback runs although no poll ever times out.
PromptRun ==
  \A f \in Functors :
    (Occurs(f, enqueued) /\ wakeup_reading /\ f \notin early)
      ~> (Occurs(f, executed) \/ Stopping)

\* With the wakeup channel registered, a loop told to quit returns although no
\* poll ever times out.
PromptQuit == (quit_flag_ /\ wakeup_reading) ~> (pc \in {"done", "crashed"})

\* A loop whose wakeup channel is not registered (every loop of EventLoopThread)
\* still runs every functor if polls time out.
EventualRun ==
  PollsTimeOut => \A f \in Functors :
                    Occurs(f, enqueued) ~> (Occurs(f, executed) \/ Stopping)

\* Told to quit, every loop returns from loop() if polls time out.
EventualQuit == PollsTimeOut => (quit_flag_ ~> (pc \in {"done", "crashed"}))

-----------------------------------------------------------------------------
(* Implementation of the abstract executor.                                 *)

abstractPending == IF raced THEN <<>> ELSE functors \o queue_functors_
abstractDone    == IF raced THEN <<>> ELSE executed

E == INSTANCE Executor WITH pending <- abstractPending, done <- abstractDone,
                            broken <- raced

\* The loop is an executor: functors start once each, in the order of posting.
ImplementsExecutor == E!Spec
=============================================================================
