------------------------------ MODULE Acceptor ------------------------------
(***************************************************************************)
(* net/src/acceptor.cpp: the listening channel of a server, the table of    *)
(* descriptors of the process and the spare one that the Acceptor keeps to  *)
(* turn connections away when the table is full.  Poll is level-triggered:  *)
(* a backlog that is not taken is reported again at once.                   *)
(*                                                                         *)
(* Between the system calls of handle_read other threads of the process may *)
(* open and close descriptors.  handle_read looks at errno only after       *)
(* LOG_ERROR, which may change it.  An error that net::accept calls         *)
(* unexpected, like a kernel without memory, aborts the process.            *)
(***************************************************************************)
EXTENDS Naturals

CONSTANTS
  Limit,        \* the descriptors the process may have beside the fixed ones
  MaxArrivals   \* how many peers connect (this bounds the runs)

ASSUME AcceptorAssumption == Limit \in Nat \ {0} /\ MaxArrivals \in Nat

VARIABLES
  pc,           \* where handle_read is; "poll" outside of it
  backlog,      \* the connections that wait to be accepted
  arrivals,     \* the peers that have connected so far
  fds,          \* the descriptors in use
  connections,  \* those that belong to accepted connections
  others,       \* those of the rest of the process
  idle_fd_,     \* what idle_fd_ refers to: "open", "accepted", "closed" or "none" (-1)
  taken         \* history: since the spare one was closed another thread opened one

acceptorVars == <<pc, backlog, arrivals, fds, connections, others, idle_fd_, taken>>

\* Outside of handle_read the Acceptor is new, listens and polls, or is gone.
PC == {"new", "poll", "accept", "errno", "close_idle", "accept_idle", "close_accepted", "open",
       "gone", "aborted"}

Listening == pc \notin {"new", "gone", "aborted"}

Free == fds < Limit

AcceptorInit ==
  /\ pc = "new"
  /\ backlog = 0 /\ arrivals = 0
  /\ idle_fd_ = "open" /\ fds = 1
  /\ connections = 0 /\ others = 0 /\ taken = FALSE

-----------------------------------------------------------------------------
PeerConnects ==
  /\ Listening /\ arrivals < MaxArrivals
  /\ arrivals' = arrivals + 1 /\ backlog' = backlog + 1
  /\ UNCHANGED <<pc, fds, connections, others, idle_fd_, taken>>

\* The peer gives up before it is accepted.
PeerLeaves ==
  /\ backlog > 0
  /\ backlog' = backlog - 1
  /\ UNCHANGED <<pc, arrivals, fds, connections, others, idle_fd_, taken>>

OthersOpen ==
  /\ Free
  /\ fds' = fds + 1 /\ others' = others + 1
  /\ taken' = (taken \/ idle_fd_ # "open")
  /\ UNCHANGED <<pc, backlog, arrivals, connections, idle_fd_>>

OthersClose ==
  /\ others > 0
  /\ fds' = fds - 1 /\ others' = others - 1
  /\ UNCHANGED <<pc, backlog, arrivals, connections, idle_fd_, taken>>

ConnectionCloses ==
  /\ connections > 0
  /\ fds' = fds - 1 /\ connections' = connections - 1
  /\ UNCHANGED <<pc, backlog, arrivals, others, idle_fd_, taken>>

-----------------------------------------------------------------------------
(* listen() and the destructor.                                             *)

Listen ==
  /\ pc = "new"
  /\ pc' = "poll"
  /\ UNCHANGED <<backlog, arrivals, fds, connections, others, idle_fd_, taken>>

\* ~Impl closes idle_fd_, and with the listening socket the backlog goes.
DestroyAcceptor ==
  /\ pc \in {"new", "poll"}
  /\ fds' = IF idle_fd_ = "open" THEN fds - 1 ELSE fds
  /\ idle_fd_' = "closed" /\ backlog' = 0
  /\ pc' = "gone"
  /\ UNCHANGED <<arrivals, connections, others, taken>>

-----------------------------------------------------------------------------
(* handle_read().                                                           *)

Poll ==
  /\ pc = "poll" /\ backlog > 0
  /\ pc' = "accept"
  /\ UNCHANGED <<backlog, arrivals, fds, connections, others, idle_fd_, taken>>

\* accept() succeeds: the connection goes to new_connection_callback_.
Accept ==
  /\ pc = "accept" /\ backlog > 0 /\ Free
  /\ backlog' = backlog - 1
  /\ fds' = fds + 1 /\ connections' = connections + 1
  /\ pc' = "poll"
  /\ UNCHANGED <<arrivals, others, idle_fd_, taken>>

\* accept() fails with EAGAIN: the peer has left.
AcceptNothing ==
  /\ pc = "accept" /\ backlog = 0
  /\ pc' = "poll"
  /\ UNCHANGED <<backlog, arrivals, fds, connections, others, idle_fd_, taken>>

\* accept() fails with another expected error, EINTR or ECONNABORTED for one:
\* errno is not EMFILE and nothing is done.
AcceptInterrupted ==
  /\ pc = "accept" /\ backlog > 0
  /\ pc' = "poll"
  /\ UNCHANGED <<backlog, arrivals, fds, connections, others, idle_fd_, taken>>

\* accept() fails with ENFILE, ENOBUFS, ENOMEM or another error that net::accept
\* does not expect: LOG_CRITICAL.
AcceptAborts ==
  /\ pc = "accept" /\ backlog > 0
  /\ pc' = "aborted"
  /\ UNCHANGED <<backlog, arrivals, fds, connections, others, idle_fd_, taken>>

\* Mutant: nothing is done when accept() fails.
AcceptFailsIdly ==
  /\ pc = "accept" /\ backlog > 0 /\ ~Free
  /\ pc' = "poll"
  /\ UNCHANGED <<backlog, arrivals, fds, connections, others, idle_fd_, taken>>

\* accept() fails with EMFILE.
AcceptFails ==
  /\ pc = "accept" /\ backlog > 0 /\ ~Free
  /\ pc' = "errno"
  /\ UNCHANGED <<backlog, arrivals, fds, connections, others, idle_fd_, taken>>

\* After LOG_ERROR errno still is EMFILE.
FindsEMFILE ==
  /\ pc = "errno"
  /\ pc' = "close_idle"
  /\ UNCHANGED <<backlog, arrivals, fds, connections, others, idle_fd_, taken>>

\* LOG_ERROR has changed errno.
LosesErrno ==
  /\ pc = "errno"
  /\ pc' = "poll"
  /\ UNCHANGED <<backlog, arrivals, fds, connections, others, idle_fd_, taken>>

\* close(idle_fd_), without effect if it is -1.
CloseIdle ==
  /\ pc = "close_idle"
  /\ IF idle_fd_ = "open"
     THEN fds' = fds - 1 /\ idle_fd_' = "closed"
     ELSE UNCHANGED <<fds, idle_fd_>>
  /\ pc' = "accept_idle"
  /\ UNCHANGED <<backlog, arrivals, connections, others, taken>>

AcceptIdle ==
  /\ pc = "accept_idle"
  /\ IF backlog > 0 /\ Free
     THEN backlog' = backlog - 1 /\ fds' = fds + 1 /\ idle_fd_' = "accepted"
     ELSE idle_fd_' = "none" /\ UNCHANGED <<backlog, fds>>
  /\ pc' = "close_accepted"
  /\ UNCHANGED <<arrivals, connections, others, taken>>

\* Mutant: the connection that was turned away stays open.
CloseAcceptedForgets ==
  /\ pc = "close_accepted"
  /\ idle_fd_' = "none"
  /\ pc' = "open"
  /\ UNCHANGED <<backlog, arrivals, fds, connections, others, taken>>

CloseAccepted ==
  /\ pc = "close_accepted"
  /\ IF idle_fd_ = "accepted" THEN fds' = fds - 1 ELSE UNCHANGED fds
  /\ idle_fd_' = "closed"
  /\ pc' = "open"
  /\ UNCHANGED <<backlog, arrivals, connections, others, taken>>

\* open("/dev/null") fails if there is no room.
OpenIdle ==
  /\ pc = "open"
  /\ IF Free THEN fds' = fds + 1 /\ idle_fd_' = "open" /\ taken' = FALSE
             ELSE idle_fd_' = "none" /\ UNCHANGED <<fds, taken>>
  /\ pc' = "poll"
  /\ UNCHANGED <<backlog, arrivals, connections, others>>

HandleRead ==
  \/ Accept \/ AcceptNothing \/ AcceptFails
  \/ FindsEMFILE \/ CloseIdle \/ AcceptIdle \/ CloseAccepted \/ OpenIdle

Environment ==
  PeerConnects \/ PeerLeaves \/ OthersOpen \/ OthersClose \/ ConnectionCloses

AcceptorNext ==
  \/ Listen \/ DestroyAcceptor \/ Poll \/ HandleRead
  \/ AcceptInterrupted \/ AcceptAborts \/ LosesErrno \/ Environment

\* The loop polls and its handler goes on.  Nothing that other threads, peers or
\* LOG_ERROR do is made to happen; an accept() that is not interrupted and an errno
\* that survives are, once in a while.
AcceptorSpec ==
  /\ AcceptorInit /\ [][AcceptorNext]_acceptorVars
  /\ WF_acceptorVars(Poll) /\ WF_acceptorVars(HandleRead)
  /\ SF_acceptorVars(Accept \/ AcceptFails) /\ SF_acceptorVars(FindsEMFILE)

-----------------------------------------------------------------------------
AcceptorTypeOK ==
  /\ pc \in PC /\ backlog \in Nat /\ arrivals \in Nat
  /\ fds \in 0..Limit /\ connections \in Nat /\ others \in Nat
  /\ idle_fd_ \in {"open", "accepted", "closed", "none"} /\ taken \in BOOLEAN

\* Every descriptor in use belongs to a connection, to the rest of the process
\* or to idle_fd_: what is turned away is closed, nothing is closed twice.  And
\* outside of handle_read the spare descriptor is there, unless another thread
\* opened one at a moment at which it was not, or the Acceptor is gone
\* (acceptor.cpp:55 and 89-92).
DescriptorsOwned ==
  /\ fds = connections + others + (IF idle_fd_ \in {"open", "accepted"} THEN 1 ELSE 0)
  /\ pc \in {"poll", "accept"} => idle_fd_ = "open" \/ taken

\* The listening channel does not stay readable: everybody in the backlog is
\* accepted or turned away, also while no descriptor is ever freed, unless the
\* spare descriptor was lost to another thread, or the process aborts
\* (acceptor.cpp:79-94).
BacklogDrains == backlog > 0 ~> backlog = 0 \/ taken \/ pc = "aborted"
=============================================================================
