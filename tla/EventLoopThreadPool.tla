------------------------ MODULE EventLoopThreadPool ------------------------
(***************************************************************************)
(* net/src/eventloop_thread.cpp and eventloop_therad_pool.cpp: the owner of *)
(* the pool, on the thread of the base loop, starts a number of threads     *)
(* with an EventLoop on each one's stack, waits for each to publish it,     *)
(* hands the loops out and destroys the threads.                            *)
(*                                                                         *)
(* loop_[i] is published and cleared under mutex_, but ~EventLoopThread     *)
(* reads it without.  A callback of the user may make its own loop quit.    *)
(* What a loop does between is EventLoop.tla: here it returns some time     *)
(* after its quit_flag_ is set.                                             *)
(***************************************************************************)
EXTENDS Naturals, Sequences

CONSTANTS
  NumThreads,   \* num_threads_
  Quitters      \* the threads whose callbacks may call quit() on their loop

Ids == 1..NumThreads

ASSUME PoolAssumption == NumThreads \in Nat \ {0} /\ Quitters \subseteq Ids

VARIABLES
  \* the threads
  tpc,          \* where thread_func is
  loop_,        \* loop_[i]: the EventLoopThread knows the loop of its thread
  quit_flag_,
  init_callback_,  \* init_callback_[i]: thread i has the callback of start()
  left,         \* history: the loops that quit of their own accord
  \* the owner
  opc,          \* where it is in start() or the destructor
  loops_,
  next_,        \* counted from 0, as in the code
  dying,        \* the thread that the destructor is at
  gone          \* the threads whose mutex_ and cond_var_ are destroyed

threadVars == <<tpc, loop_, quit_flag_, init_callback_, left>>
ownerVars  == <<opc, loops_, next_, dying, gone>>
vars       == <<threadVars, ownerVars>>

ThreadPC == {"none", "init", "publish", "notify", "looping", "clear", "unlock", "leave",
             "done"}
OwnerPC  == {"start", "wait", "asleep", "serving", "read", "reread", "quit", "join",
             "members", "rejoin", "end", "crashed"}

\* The EventLoop on the stack of thread i exists.
LoopAlive(i) == tpc[i] \notin {"none", "done"}

\* The thread that start() is at.
Starting == Len(loops_) + 1

Init ==
  /\ tpc = [i \in Ids |-> "none"]
  /\ loop_ = [i \in Ids |-> FALSE]
  /\ quit_flag_ = [i \in Ids |-> FALSE]
  /\ init_callback_ = [i \in Ids |-> FALSE]
  /\ left = {}
  /\ opc = "start" /\ loops_ = <<>> /\ next_ = 0 /\ dying = 1 /\ gone = {}

-----------------------------------------------------------------------------
(* start() and start_loop(), on the owner's thread.                         *)

\* The callback is moved into the first thread: the others get an empty one.
StartThread ==
  /\ opc = "start" /\ Starting \in Ids
  /\ tpc' = [tpc EXCEPT ![Starting] = "init"]
  /\ init_callback_' = [init_callback_ EXCEPT ![Starting] = loops_ = <<>>]
  /\ opc' = "wait"
  /\ UNCHANGED <<loop_, quit_flag_, left, loops_, next_, dying, gone>>

\* Under the mutex, which the thread may hold.
LookAtLoop ==
  /\ opc = "wait" /\ tpc[Starting] # "unlock"
  /\ IF loop_[Starting]
     THEN opc' = "start" /\ loops_' = Append(loops_, Starting)
     ELSE opc' = "asleep" /\ UNCHANGED loops_
  /\ UNCHANGED <<threadVars, next_, dying, gone>>

\* The wait may end without a notification.
OwnerWakes ==
  /\ opc = "asleep"
  /\ opc' = "wait"
  /\ UNCHANGED <<threadVars, loops_, next_, dying, gone>>

StartReturns ==
  /\ opc = "start" /\ Starting \notin Ids
  /\ opc' = "serving"
  /\ UNCHANGED <<threadVars, loops_, next_, dying, gone>>

-----------------------------------------------------------------------------
(* thread_func().                                                           *)

InitCallback(i) ==
  /\ tpc[i] = "init"
  /\ tpc' = [tpc EXCEPT ![i] = "publish"]
  /\ \E quits \in {FALSE, init_callback_[i] /\ i \in Quitters} :
       /\ quit_flag_' = [quit_flag_ EXCEPT ![i] = quits]
       /\ left' = IF quits THEN left \cup {i} ELSE left
  /\ UNCHANGED <<loop_, init_callback_, ownerVars>>

Publish(i) ==
  /\ tpc[i] = "publish"
  /\ tpc' = [tpc EXCEPT ![i] = "notify"]
  /\ loop_' = [loop_ EXCEPT ![i] = TRUE]
  /\ UNCHANGED <<quit_flag_, init_callback_, left, ownerVars>>

\* Mutant: nobody is notified.
NotifyNobody(i) ==
  /\ tpc[i] = "notify"
  /\ tpc' = [tpc EXCEPT ![i] = "looping"]
  /\ UNCHANGED <<loop_, quit_flag_, init_callback_, left, ownerVars>>

NotifyAll(i) ==
  /\ tpc[i] = "notify"
  /\ tpc' = [tpc EXCEPT ![i] = "looping"]
  /\ opc' = IF opc = "asleep" /\ i = Starting THEN "wait" ELSE opc
  /\ UNCHANGED <<loop_, quit_flag_, init_callback_, left, loops_, next_, dying, gone>>

\* A callback on the loop calls quit().
LoopQuits(i) ==
  /\ i \in Quitters /\ tpc[i] = "looping"
  /\ quit_flag_' = [quit_flag_ EXCEPT ![i] = TRUE]
  /\ left' = left \cup {i}
  /\ UNCHANGED <<tpc, loop_, init_callback_, ownerVars>>

LoopReturns(i) ==
  /\ tpc[i] = "looping" /\ quit_flag_[i]
  /\ tpc' = [tpc EXCEPT ![i] = "clear"]
  /\ UNCHANGED <<loop_, quit_flag_, init_callback_, left, ownerVars>>

\* loop_ is null, and mutex_ still locked.
Clear(i) ==
  /\ tpc[i] = "clear"
  /\ tpc' = [tpc EXCEPT ![i] = "unlock"]
  /\ loop_' = [loop_ EXCEPT ![i] = FALSE]
  /\ UNCHANGED <<quit_flag_, init_callback_, left, ownerVars>>

Unlock(i) ==
  /\ tpc[i] = "unlock"
  /\ tpc' = [tpc EXCEPT ![i] = "leave"]
  /\ UNCHANGED <<loop_, quit_flag_, init_callback_, left, ownerVars>>

\* The EventLoop is destroyed and the thread ends.
Leave(i) ==
  /\ tpc[i] = "leave"
  /\ tpc' = [tpc EXCEPT ![i] = "done"]
  /\ UNCHANGED <<loop_, quit_flag_, init_callback_, left, ownerVars>>

ThreadFunc(i) ==
  \/ InitCallback(i) \/ Publish(i) \/ NotifyAll(i) \/ LoopReturns(i)
  \/ Clear(i) \/ Unlock(i) \/ Leave(i)

-----------------------------------------------------------------------------
(* The pool in use, and its destructor.                                     *)

\* The last answer of get_next_loop() is loops_[next_], counted before the step.
GetNextLoop ==
  /\ opc = "serving"
  /\ next_' = IF next_ + 1 >= Len(loops_) THEN 0 ELSE next_ + 1
  /\ UNCHANGED <<threadVars, opc, loops_, dying, gone>>

\* get_loop_for_hash() and get_all_loops(): without threads they offer the base loop.
Base == 0

GetLoopForHash(hash_code) ==
  IF loops_ = <<>> THEN Base ELSE loops_[(hash_code % Len(loops_)) + 1]

GetAllLoops == IF loops_ = <<>> THEN <<Base>> ELSE loops_

DestroyPool ==
  /\ opc = "serving"
  /\ opc' = "read"
  /\ UNCHANGED <<threadVars, loops_, next_, dying, gone>>

\* ~EventLoopThread looks at loop_ without the mutex, to test it ...
ReadLoop ==
  /\ opc = "read"
  /\ opc' = IF loop_[dying] THEN "reread" ELSE "members"
  /\ UNCHANGED <<threadVars, loops_, next_, dying, gone>>

\* ... and, unless the compiler kept the first value, to use it: it may be null by now.
RereadLoop ==
  /\ opc = "reread"
  /\ opc' \in IF loop_[dying] THEN {"quit"} ELSE {"quit", "crashed"}
  /\ UNCHANGED <<threadVars, loops_, next_, dying, gone>>

\* Mutant: the destructor does not wait for the thread.
QuitLoopNoJoin ==
  /\ opc = "quit"
  /\ quit_flag_' = [quit_flag_ EXCEPT ![dying] = TRUE]
  /\ opc' = "members"
  /\ UNCHANGED <<tpc, loop_, init_callback_, left, loops_, next_, dying, gone>>

\* Mutant: the destructor joins a loop that nobody told to quit.
QuitLoopForgets ==
  /\ opc = "quit"
  /\ opc' = "join"
  /\ UNCHANGED <<threadVars, loops_, next_, dying, gone>>

\* loop_->quit(), through the pointer that was read.  On a loop that is destroyed it
\* ends the process or has no effect; the threads of a process that is gone may go on
\* here, where nothing waits for them.
QuitLoop ==
  /\ opc = "quit"
  /\ \/ /\ LoopAlive(dying)
        /\ quit_flag_' = [quit_flag_ EXCEPT ![dying] = TRUE]
        /\ opc' = "join"
     \/ /\ ~LoopAlive(dying)
        /\ opc' \in {"join", "crashed"}
        /\ UNCHANGED quit_flag_
  /\ UNCHANGED <<tpc, loop_, init_callback_, left, loops_, next_, dying, gone>>

Join ==
  /\ opc = "join" /\ tpc[dying] = "done"
  /\ opc' = "members"
  /\ UNCHANGED <<threadVars, loops_, next_, dying, gone>>

\* The members die, last declared first: cond_var_ and mutex_ before thread_.
DestroyMembers ==
  /\ opc = "members"
  /\ gone' = gone \cup {dying}
  /\ opc' = "rejoin"
  /\ UNCHANGED <<threadVars, loops_, next_, dying>>

\* The jthread joins its thread when it is destroyed.
DestroyThread ==
  /\ opc = "rejoin" /\ tpc[dying] = "done"
  /\ IF dying < NumThreads
     THEN opc' = "read" /\ dying' = dying + 1
     ELSE opc' = "end" /\ UNCHANGED dying
  /\ UNCHANGED <<threadVars, loops_, next_, gone>>

Owner == StartThread \/ LookAtLoop \/ StartReturns \/ ReadLoop \/ RereadLoop \/ QuitLoop
         \/ Join \/ DestroyMembers \/ DestroyThread

Next ==
  \/ Owner \/ OwnerWakes \/ GetNextLoop \/ DestroyPool
  \/ \E i \in Ids : ThreadFunc(i) \/ LoopQuits(i)

\* Every thread comes on; a loop looks at quit_flag_ at the latest when its poll
\* times out.  Nobody is made to destroy the pool or to quit a loop, and no wait
\* is made to end without a notification.
Spec == Init /\ [][Next]_vars /\ WF_vars(Owner) /\ \A i \in Ids : WF_vars(ThreadFunc(i))

-----------------------------------------------------------------------------
TypeOK ==
  /\ tpc \in [Ids -> ThreadPC] /\ opc \in OwnerPC
  /\ loop_ \in [Ids -> BOOLEAN] /\ quit_flag_ \in [Ids -> BOOLEAN]
  /\ init_callback_ \in [Ids -> BOOLEAN]
  /\ left \subseteq Quitters /\ gone \subseteq Ids
  /\ loops_ \in Seq(Ids) /\ next_ \in 0..NumThreads /\ dying \in Ids

\* A loop may be used: the base loop belongs to the owner's own thread.
Lives(loop) == loop = Base \/ LoopAlive(loop) \/ loop \in left

\* Nobody uses what is destroyed.  While the pool serves, every loop it can hand
\* out exists; the one that the destructor calls quit() on exists too; and a thread
\* whose mutex_ and cond_var_ are destroyed uses them no more.  All of it unless a
\* callback made that loop quit: then the pointers dangle, and the destructor may find
\* null while the thread has the mutex locked, or on its second look
\* (eventloop_thread.cpp:35-41 and 61-74, the order of the members).
LoopsOutlive ==
  /\ opc = "serving" =>
       /\ \A i \in DOMAIN GetAllLoops : Lives(GetAllLoops[i])
       /\ \A hash_code \in 0..NumThreads : Lives(GetLoopForHash(hash_code))
       /\ loops_ # <<>> => next_ < Len(loops_)
  /\ opc = "quit" => Lives(dying)
  /\ opc = "crashed" => dying \in left
  /\ \A i \in gone : tpc[i] \in {"leave", "done"} \/ i \in left

\* start_loop() returns, unless the loop has quit before start_loop() saw it:
\* then loop_ is null again and it waits for ever (eventloop_thread.cpp:51-57).
StartLoopReturns == opc = "wait" ~> opc = "start" \/ Starting \in left

\* The destructor of the pool comes to its end, in whatever order the threads end,
\* unless it uses the loop of a thread that quit of its own accord in between
\* (eventloop_thread.cpp:35-41).
DestructorReturns == opc = "read" ~> opc = "end" \/ (opc = "crashed" /\ dying \in left)
=============================================================================
