------------------------- MODULE ServerPartsProofs -------------------------
(* Proofs about the two parts of a server that know of no connections, each by *)
(* itself: Acceptor, and the EventLoopThreadPool.                              *)
EXTENDS Acceptor, EventLoopThreadPool, TLAPS

-----------------------------------------------------------------------------
(* Acceptor: whose the descriptors of the process are.                         *)

\* What idle_fd_ refers to follows from where handle_read is; and wherever the spare
\* descriptor is not open there is room for it, unless another thread took the room.
Spare ==
  /\ pc \in {"new", "poll", "accept", "errno", "close_idle"} =>
       idle_fd_ = "open" \/ (idle_fd_ = "none" /\ taken)
  /\ pc = "accept_idle" => idle_fd_ \in {"closed", "none"} /\ (Free \/ taken)
  /\ pc = "close_accepted" =>
       idle_fd_ = "accepted" \/ (idle_fd_ = "none" /\ (Free \/ taken))
  /\ pc = "open" => idle_fd_ = "closed" /\ (Free \/ taken)
  /\ pc = "gone" => idle_fd_ = "closed"

AcceptorInv == AcceptorTypeOK /\ DescriptorsOwned /\ Spare

\* The Acceptor as it is constructed has its spare descriptor (acceptor.cpp:40-53).
LEMMA InitOwned == AcceptorInit => AcceptorInv
<1> SUFFICES ASSUME AcceptorInit PROVE AcceptorInv
  OBVIOUS
<1>1. /\ fds \in 0..Limit
      /\ fds = connections + others + (IF idle_fd_ \in {"open", "accepted"} THEN 1 ELSE 0)
  BY AcceptorAssumption DEF AcceptorInit
<1>2. taken \in BOOLEAN
  BY Zenon DEF AcceptorInit
<1>3. AcceptorTypeOK
  BY <1>1, <1>2 DEF AcceptorInit, AcceptorTypeOK, PC
<1>4. DescriptorsOwned
  BY <1>1 DEF AcceptorInit, DescriptorsOwned
<1>5. Spare
  BY DEF AcceptorInit, Spare
<1> QED
  BY <1>3, <1>4, <1>5 DEF AcceptorInv

\* What peers and the rest of the process do leaves every descriptor with its owner.
LEMMA EnvironmentOwned == AcceptorInv /\ Environment => AcceptorInv'
<1> SUFFICES ASSUME AcceptorInv, Environment PROVE AcceptorInv'
  OBVIOUS
<1> USE AcceptorAssumption
    DEF AcceptorInv, AcceptorTypeOK, DescriptorsOwned, Spare, PC, Free, Listening
<1>1. CASE PeerConnects
  BY <1>1 DEF PeerConnects
<1>2. CASE PeerLeaves
  BY <1>2 DEF PeerLeaves
<1>3. CASE OthersOpen
  <2>1. /\ fds' \in 0..Limit /\ others' \in Nat
        /\ fds' = connections' + others'
                    + (IF idle_fd_' \in {"open", "accepted"} THEN 1 ELSE 0)
    BY <1>3 DEF OthersOpen
  <2>2. taken' \in BOOLEAN
    BY <1>3, Zenon DEF OthersOpen
  <2>3. taken \/ idle_fd_ # "open" => taken'
    BY <1>3, Zenon DEF OthersOpen
  <2>4. UNCHANGED <<pc, backlog, arrivals, connections, idle_fd_>>
    BY <1>3 DEF OthersOpen
  <2>5. AcceptorTypeOK' /\ DescriptorsOwned'
    BY <2>1, <2>2, <2>3, <2>4
  <2>6. Spare'
    BY <2>3, <2>4
  <2> QED
    BY <2>5, <2>6
<1>4. CASE OthersClose
  BY <1>4 DEF OthersClose
<1>5. CASE ConnectionCloses
  BY <1>5 DEF ConnectionCloses
<1> QED
  BY <1>1, <1>2, <1>3, <1>4, <1>5 DEF Environment

\* So does every step of handle_read (acceptor.cpp:76-95).
LEMMA HandlerOwned == AcceptorInv /\ HandleRead => AcceptorInv'
<1> SUFFICES ASSUME AcceptorInv, HandleRead PROVE AcceptorInv'
  OBVIOUS
<1> USE AcceptorAssumption DEF AcceptorInv, AcceptorTypeOK, DescriptorsOwned, Spare, PC, Free
<1>1. CASE Accept
  BY <1>1 DEF Accept
<1>2. CASE AcceptNothing
  BY <1>2 DEF AcceptNothing
<1>3. CASE AcceptFails
  BY <1>3 DEF AcceptFails
<1>4. CASE FindsEMFILE
  BY <1>4 DEF FindsEMFILE
<1>5. CASE CloseIdle
  BY <1>5 DEF CloseIdle
<1>6. CASE AcceptIdle
  BY <1>6 DEF AcceptIdle
<1>7. CASE CloseAccepted
  BY <1>7 DEF CloseAccepted
<1>8. CASE OpenIdle
  <2>1. CASE Free
    <3>1. /\ fds' \in 0..Limit /\ idle_fd_' = "open" /\ pc' = "poll"
          /\ fds' = connections' + others' + 1
          /\ UNCHANGED <<backlog, arrivals, connections, others>>
      BY <1>8, <2>1 DEF OpenIdle
    <3>2. taken' \in BOOLEAN
      BY <1>8, <2>1, Zenon DEF OpenIdle
    <3> QED
      BY <3>1, <3>2
  <2>2. CASE ~Free
    BY <1>8, <2>2 DEF OpenIdle
  <2> QED
    BY <2>1, <2>2
<1> QED
  BY <1>1, <1>2, <1>3, <1>4, <1>5, <1>6, <1>7, <1>8 DEF HandleRead

\* And so does every other step of the Acceptor, its end included.
LEMMA StepOwned == AcceptorInv /\ [AcceptorNext]_acceptorVars => AcceptorInv'
<1> SUFFICES ASSUME AcceptorInv, [AcceptorNext]_acceptorVars PROVE AcceptorInv'
  OBVIOUS
<1>1. CASE HandleRead
  BY <1>1, HandlerOwned
<1>2. CASE Environment
  BY <1>2, EnvironmentOwned
<1> USE AcceptorAssumption DEF AcceptorInv, AcceptorTypeOK, DescriptorsOwned, Spare, PC, Free
<1>3. CASE Listen
  BY <1>3 DEF Listen
<1>4. CASE DestroyAcceptor
  BY <1>4 DEF DestroyAcceptor
<1>5. CASE Poll
  BY <1>5 DEF Poll
<1>6. CASE AcceptInterrupted
  BY <1>6 DEF AcceptInterrupted
<1>7. CASE AcceptAborts
  BY <1>7 DEF AcceptAborts
<1>8. CASE LosesErrno
  BY <1>8 DEF LosesErrno
<1>9. CASE UNCHANGED acceptorVars
  BY <1>9 DEF acceptorVars
<1> QED
  BY <1>1, <1>2, <1>3, <1>4, <1>5, <1>6, <1>7, <1>8, <1>9 DEF AcceptorNext

\* The three hold together in every reachable state.
THEOREM DescriptorsInvariant == AcceptorSpec => []AcceptorInv
  BY InitOwned, StepOwned, PTL DEF AcceptorSpec

\* For any table of descriptors and any number of peers every variable of the
\* Acceptor keeps its type: in particular the table never holds more than it can.
THEOREM AcceptorTypeCorrect == AcceptorSpec => []AcceptorTypeOK
<1>1. AcceptorInv => AcceptorTypeOK
  BY DEF AcceptorInv
<1> QED
  BY <1>1, DescriptorsInvariant, PTL

\* No descriptor is leaked or closed twice, and the spare one is back after every
\* round, whatever the other threads of the process open and close between the
\* system calls of handle_read (acceptor.cpp:86-94).
THEOREM EveryDescriptorOwned == AcceptorSpec => []DescriptorsOwned
<1>1. AcceptorInv => DescriptorsOwned
  BY DEF AcceptorInv
<1> QED
  BY <1>1, DescriptorsInvariant, PTL

-----------------------------------------------------------------------------
(* EventLoopThreadPool: nobody uses what is destroyed.                         *)

ThreadsTyped ==
  /\ tpc \in [Ids -> ThreadPC]
  /\ loop_ \in [Ids -> BOOLEAN] /\ quit_flag_ \in [Ids -> BOOLEAN]

OwnerTyped ==
  /\ opc \in OwnerPC /\ next_ \in Nat /\ dying \in Ids
  /\ loops_ \in Seq(Ids) /\ Len(loops_) <= NumThreads

Building == opc \in {"start", "wait", "asleep"}

\* What the owner does follows its program: the loops it holds are those of the
\* first threads, all of them as soon as start() has returned.
OwnerPlace ==
  /\ \A j \in DOMAIN loops_ : loops_[j] = j
  /\ next_ = 0 \/ next_ < Len(loops_)
  /\ ~Building => Len(loops_) = NumThreads
  /\ opc \in {"wait", "asleep"} => Starting \in Ids
  /\ Building \/ opc = "serving" => gone = {} /\ dying = 1
  /\ \A i \in gone : i \in Ids /\ (i < dying \/ (i = dying /\ opc \in {"rejoin", "end"}))

\* A thread whose loop_ is set is past its publication and not past its clearing;
\* a loop that was handed out was published; it returns only when somebody has
\* told it to quit; and the threads that start() has not come to do not run.
ThreadPlace ==
  \A i \in Ids :
    /\ loop_[i] <=> tpc[i] \in {"notify", "looping", "clear"}
    /\ i \in DOMAIN loops_ => tpc[i] \notin {"none", "init", "publish"}
    /\ tpc[i] \in {"clear", "unlock", "leave", "done"} => quit_flag_[i]
    /\ i > Starting \/ (i = Starting /\ opc = "start") => tpc[i] = "none"

\* Who told a loop to quit: its own callback, or the destructor, which has no null
\* pointer to use unless a callback was first.
Told(i) == i \in left \/ i < dying \/ (i = dying /\ opc \in {"join", "members", "rejoin", "end"})

WhoQuits ==
  /\ \A i \in Ids : quit_flag_[i] => Told(i)
  /\ opc = "crashed" => dying \in left

\* The destructor of a thread's mutex_ runs only after its last use of it, unless a
\* callback made its loop quit.
MembersUnused ==
  /\ opc \in {"members", "rejoin", "end"} => tpc[dying] \in {"leave", "done"} \/ dying \in left
  /\ \A i \in gone : tpc[i] \in {"leave", "done"} \/ i \in left

PoolInv ==
  ThreadsTyped /\ OwnerTyped /\ OwnerPlace /\ ThreadPlace /\ WhoQuits /\ MembersUnused

\* A pool that is constructed has no threads and no loops.
LEMMA InitOutlive == Init => PoolInv
  BY PoolAssumption
  DEF Init, PoolInv, ThreadsTyped, OwnerTyped, OwnerPlace, ThreadPlace, WhoQuits, MembersUnused,
      Building, Told, Ids, ThreadPC, OwnerPC, Starting

\* The steps of a thread (eventloop_thread.cpp:61-74), and quit() in a callback.
LEMMA ThreadStep ==
  ASSUME PoolInv, NEW i \in Ids, ThreadFunc(i) \/ LoopQuits(i)
  PROVE  PoolInv'
<1> USE PoolAssumption
    DEF PoolInv, ThreadsTyped, OwnerTyped, OwnerPlace, ThreadPlace, WhoQuits, MembersUnused,
        Building, Told, Ids, ThreadPC, OwnerPC, Starting, ownerVars
<1>1. CASE InitCallback(i)
  <2>1. PICK quits \in {FALSE, init_callback_[i] /\ i \in Quitters} :
          /\ quit_flag_' = [quit_flag_ EXCEPT ![i] = quits]
          /\ left' = IF quits THEN left \cup {i} ELSE left
    BY <1>1, Zenon DEF InitCallback
  <2>2. tpc[i] = "init" /\ tpc' = [tpc EXCEPT ![i] = "publish"] /\ UNCHANGED <<loop_, ownerVars>>
    BY <1>1, Zenon DEF InitCallback
  <2>3. quits = TRUE \/ quits = FALSE
    BY <2>1, Zenon
  <2>4. CASE quits = TRUE
    BY <2>1, <2>2, <2>4
  <2>5. CASE quits = FALSE
    BY <2>1, <2>2, <2>5
  <2> QED
    BY <2>3, <2>4, <2>5
<1>2. CASE Publish(i)
  BY <1>2 DEF Publish
<1>3. CASE NotifyAll(i)
  BY <1>3 DEF NotifyAll
<1>4. CASE LoopReturns(i)
  BY <1>4 DEF LoopReturns
<1>5. CASE Clear(i)
  BY <1>5 DEF Clear
<1>6. CASE Leave(i)
  BY <1>6 DEF Leave
<1>8. CASE Unlock(i)
  BY <1>8 DEF Unlock
<1>7. CASE LoopQuits(i)
  BY <1>7 DEF LoopQuits
<1> QED
  BY <1>1, <1>2, <1>3, <1>4, <1>5, <1>6, <1>7, <1>8 DEF ThreadFunc

\* start() and the use of the pool (eventloop_thread.cpp:43-59 and
\* eventloop_therad_pool.cpp:33-75).
LEMMA OwnerStarts ==
  ASSUME PoolInv,
         StartThread \/ LookAtLoop \/ OwnerWakes \/ StartReturns \/ GetNextLoop \/ DestroyPool
  PROVE  PoolInv'
<1> USE PoolAssumption
    DEF PoolInv, ThreadsTyped, OwnerTyped, OwnerPlace, ThreadPlace, WhoQuits, MembersUnused,
        Building, Told, Ids, ThreadPC, OwnerPC, Starting, threadVars
<1>1. CASE StartThread
  <2>1. /\ opc = "start" /\ Starting \in Ids
        /\ tpc' = [tpc EXCEPT ![Starting] = "init"]
        /\ opc' = "wait"
        /\ UNCHANGED <<loop_, quit_flag_, left, loops_, next_, dying, gone>>
    BY <1>1, Zenon DEF StartThread
  <2>2. Starting \in Nat /\ Starting \notin DOMAIN loops_
    OBVIOUS
  <2>3. (ThreadsTyped /\ OwnerTyped /\ OwnerPlace)'
    BY <2>1, <2>2
  <2>4. (ThreadPlace /\ WhoQuits /\ MembersUnused)'
    BY <2>1, <2>2
  <2> QED
    BY <2>3, <2>4
<1>2. CASE LookAtLoop
  <2>1. CASE loop_[Starting]
    <3>1. /\ opc = "wait" /\ opc' = "start" /\ loops_' = Append(loops_, Starting)
          /\ UNCHANGED <<threadVars, next_, dying, gone>>
      BY <1>2, <2>1 DEF LookAtLoop
    <3>2. /\ loops_' \in Seq(Ids) /\ Len(loops_') = Len(loops_) + 1
          /\ DOMAIN loops_' = DOMAIN loops_ \cup {Starting}
          /\ \A j \in DOMAIN loops_' : loops_'[j] = j
      BY <3>1, SMTT(30)
    <3>3. tpc[Starting] \notin {"none", "init", "publish"}
      BY <3>1, <2>1
    <3>4. (ThreadsTyped /\ OwnerTyped /\ OwnerPlace)'
      BY <3>1, <3>2
    <3>5. (ThreadPlace /\ WhoQuits /\ MembersUnused)'
      BY <3>1, <3>2, <3>3
    <3> QED
      BY <3>4, <3>5
  <2>2. CASE ~loop_[Starting]
    BY <1>2, <2>2 DEF LookAtLoop
  <2> QED
    BY <2>1, <2>2
<1>3. CASE OwnerWakes
  BY <1>3 DEF OwnerWakes
<1>4. CASE StartReturns
  BY <1>4 DEF StartReturns
<1>5. CASE GetNextLoop
  BY <1>5 DEF GetNextLoop
<1>6. CASE DestroyPool
  BY <1>6 DEF DestroyPool
<1> QED
  BY <1>1, <1>2, <1>3, <1>4, <1>5, <1>6

\* The destructors (eventloop_thread.cpp:35-41).
LEMMA OwnerDestroys ==
  ASSUME PoolInv, ReadLoop \/ RereadLoop \/ QuitLoop \/ Join \/ DestroyMembers \/ DestroyThread
  PROVE  PoolInv'
<1> USE PoolAssumption
    DEF PoolInv, ThreadsTyped, OwnerTyped, OwnerPlace, ThreadPlace, WhoQuits, MembersUnused,
        Building, Told, Ids, ThreadPC, OwnerPC, Starting, threadVars
<1>1. CASE ReadLoop
  BY <1>1 DEF ReadLoop
<1>2. CASE QuitLoop
  <2>1. CASE LoopAlive(dying)
    BY <1>2, <2>1 DEF QuitLoop
  <2>2. CASE ~LoopAlive(dying)
    <3>1. dying \in left
      BY <1>2, <2>2 DEF QuitLoop, LoopAlive
    <3> QED
      BY <1>2, <2>2, <3>1 DEF QuitLoop
  <2> QED
    BY <2>1, <2>2
<1>6. CASE RereadLoop
  <2>1. CASE loop_[dying]
    BY <1>6, <2>1 DEF RereadLoop
  <2>2. CASE ~loop_[dying]
    <3>1. dying \in left
      BY <1>6, <2>2 DEF RereadLoop
    <3> QED
      BY <1>6, <2>2, <3>1 DEF RereadLoop
  <2> QED
    BY <2>1, <2>2
<1>3. CASE Join
  BY <1>3 DEF Join
<1>4. CASE DestroyMembers
  BY <1>4 DEF DestroyMembers
<1>5. CASE DestroyThread
  <2>1. CASE dying < NumThreads
    <3>1. /\ opc = "rejoin" /\ opc' = "read" /\ dying' = dying + 1 /\ tpc[dying] = "done"
          /\ UNCHANGED <<threadVars, loops_, next_, gone>>
      BY <1>5, <2>1 DEF DestroyThread
    <3>2. (ThreadsTyped /\ OwnerTyped)'
      BY <2>1, <3>1
    <3>3. OwnerPlace' /\ ThreadPlace'
      <4>1. \A i \in gone : i < dying'
        BY <3>1
      <4>2. OwnerPlace'
        BY <3>1, <4>1
      <4> QED
        BY <3>1, <4>2
    <3>4. (WhoQuits /\ MembersUnused)'
      BY <2>1, <3>1
    <3> QED
      BY <3>2, <3>3, <3>4
  <2>2. CASE ~(dying < NumThreads)
    BY <1>5, <2>2 DEF DestroyThread
  <2> QED
    BY <2>1, <2>2
<1> QED
  BY <1>1, <1>2, <1>3, <1>4, <1>5, <1>6

\* Every step keeps the invariant.
LEMMA StepOutlive == PoolInv /\ [Next]_vars => PoolInv'
<1> SUFFICES ASSUME PoolInv, [Next]_vars PROVE PoolInv'
  OBVIOUS
<1>1. CASE \E i \in Ids : ThreadFunc(i) \/ LoopQuits(i)
  BY <1>1, ThreadStep
<1>2. CASE StartThread \/ LookAtLoop \/ OwnerWakes \/ StartReturns \/ GetNextLoop \/ DestroyPool
  BY <1>2, OwnerStarts
<1>3. CASE ReadLoop \/ RereadLoop \/ QuitLoop \/ Join \/ DestroyMembers \/ DestroyThread
  BY <1>3, OwnerDestroys
<1>4. CASE UNCHANGED vars
  BY <1>4 DEF vars, threadVars, ownerVars, PoolInv, ThreadsTyped, OwnerTyped, OwnerPlace,
              ThreadPlace, WhoQuits, MembersUnused, Building, Told, Starting
<1> QED
  BY <1>1, <1>2, <1>3, <1>4 DEF Next, Owner

\* What the invariant says of the loops that are handed out and told to quit.
LEMMA PoolInvSuffices == PoolInv => LoopsOutlive
<1> SUFFICES ASSUME PoolInv PROVE LoopsOutlive
  OBVIOUS
<1> USE PoolAssumption
    DEF PoolInv, ThreadsTyped, OwnerTyped, OwnerPlace, ThreadPlace, WhoQuits, MembersUnused,
        Building, Told, Ids, ThreadPC
<1>1. ASSUME opc = "serving", NEW i \in Ids PROVE Lives(i)
  BY <1>1 DEF Lives, LoopAlive
<1>2. ASSUME opc = "serving"
      PROVE  /\ \A i \in DOMAIN GetAllLoops : Lives(GetAllLoops[i])
             /\ \A hash_code \in 0..NumThreads : Lives(GetLoopForHash(hash_code))
             /\ next_ < Len(loops_)
  <2>1. Len(loops_) = NumThreads /\ loops_ # <<>> /\ DOMAIN loops_ = Ids
    BY <1>2
  <2>2. \A i \in DOMAIN GetAllLoops : Lives(GetAllLoops[i])
    BY <1>1, <1>2, <2>1 DEF GetAllLoops
  <2>3. ASSUME NEW hash_code \in 0..NumThreads PROVE Lives(GetLoopForHash(hash_code))
    <3>1. (hash_code % NumThreads) + 1 \in Ids
      OBVIOUS
    <3> QED
      BY <1>1, <1>2, <2>1, <3>1 DEF GetLoopForHash
  <2> QED
    BY <2>1, <2>2, <2>3
<1>3. opc = "quit" => Lives(dying)
  BY DEF Lives, LoopAlive
<1>4. /\ opc = "crashed" => dying \in left
      /\ \A i \in gone : tpc[i] \in {"leave", "done"} \/ i \in left
  OBVIOUS
<1> QED
  BY <1>2, <1>3, <1>4 DEF LoopsOutlive

\* For any number of threads, whichever loops quit in their callbacks: nobody is
\* handed a loop that is destroyed, the destructor calls quit() on none and on no null
\* pointer, and no thread uses a mutex_ that is destroyed, each of them unless a
\* callback made that very loop quit (eventloop_thread.cpp:35-41 and 61-74).
THEOREM NothingDangles == Spec => []LoopsOutlive
  BY InitOutlive, StepOutlive, PoolInvSuffices, PTL DEF Spec
=============================================================================
