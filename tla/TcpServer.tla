----------------------------- MODULE TcpServer -----------------------------
(***************************************************************************)
(* net/src/tcp_server.cpp: the server that accepts connections on its loop,  *)
(* hands them to the loops of an EventLoopThreadPool and keeps them in a map. *)
(* The connections and the loops themselves are in TcpConn.tla.              *)
(***************************************************************************)
EXTENDS TcpConn

CONSTANTS
  Acceptor,     \* the server's listening channel
  ServerDies    \* ~TcpServer may run

ASSUME AcceptorAssumption == Acceptor \notin Conns

VARIABLES
  next_,         \* the round robin of EventLoopThreadPool
  server         \* "new", "up" (started_), "dying" (in ~TcpServer) or "dead"

serverVars == <<next_, server>>
vars == <<connVars, serverVars>>

Init == /\ ConnInit
        /\ calls = [x \in Threads |-> <<>>]
        /\ next_ = 1
        /\ server = "new"

-----------------------------------------------------------------------------
(* Accepting.                                                               *)

\* start() on the base loop's thread, before the loop or in a callback: the threads
\* of the pool run when it returns, and the Acceptor listens.  A second call does
\* nothing.
Start ==
  /\ server = "new" /\ phase[Base] # "exited"
  /\ server' = "up"
  /\ UNCHANGED <<connVars, next_>>

Fresh == {c \in Conns : ~Created(c)}

\* The Acceptor's channel is reported when a peer is connecting.
PollAccepting(l) ==
  \E accepting \in IF l = Base /\ server # "new" /\ Fresh # {} THEN {{}, {Acceptor}} ELSE {{}} :
    Poll(l, {[c |-> a, events |-> {"IN"}] : a \in accepting})

HandleAccept(l) == /\ Handling(l) /\ NextActive(l).c = Acceptor
                   /\ Dispatches(l, <<Call("new_connection", Acceptor)>>)

\* get_next_loop.
NextLoop == IF loops_ = <<>> THEN Base ELSE loops_[next_]

\* Mutant: the connection is not put into the map.
NewConnectionUnmapped(x) ==
  /\ Executing(x, "new_connection", Acceptor)
  /\ \E c \in Fresh :
       /\ conn' = [conn EXCEPT ![c].state = "CONNECTING", ![c].loop = NextLoop]
       /\ RunInLoop(x, NextLoop, Call("connect_established", c))
  /\ UNCHANGED <<socket, connections_, serverVars, kept, loopVars, log, aborted>>

NewConnection(x) ==
  /\ Executing(x, "new_connection", Acceptor)
  /\ \E c \in Fresh :
       /\ conn' = [conn EXCEPT ![c].state = "CONNECTING", ![c].loop = NextLoop]
       /\ connections_' = connections_ \cup {c}
       /\ RunInLoop(x, NextLoop, Call("connect_established", c))
  /\ next_' = IF next_ >= Len(loops_) THEN 1 ELSE next_ + 1
  /\ UNCHANGED <<socket, kept, server, loopVars, log, aborted>>

-----------------------------------------------------------------------------
(* Removal, which starts on the connection's thread and ends there, with the *)
(* server's thread in between.                                               *)

RemoveConnection(x, c) ==
  /\ Executing(x, "remove_connection", c)
  /\ RunInLoop(x, Base, Call("remove_connection_in_loop", c))
  /\ UNCHANGED <<conn, socket, connections_, serverVars, kept, loopVars, log, aborted>>

\* Mutants: connect_destroyed is called on the server's thread; it is not called;
\* the map is not changed.
RemoveOnServerThread(x, c) ==
  /\ Executing(x, "remove_connection_in_loop", c)
  /\ connections_' = connections_ \ {c}
  /\ Return(x, <<Call("connect_destroyed", c)>>)
  /\ UNCHANGED <<conn, socket, next_, server, kept, loopVars, log, aborted>>

RemoveFromMapOnly(x, c) ==
  /\ Executing(x, "remove_connection_in_loop", c)
  /\ connections_' = connections_ \ {c}
  /\ Return(x, <<>>)
  /\ UNCHANGED <<conn, socket, next_, server, kept, loopVars, log, aborted>>

RemoveNotFromMap(x, c) ==
  /\ Executing(x, "remove_connection_in_loop", c)
  /\ RunInLoop(x, conn[c].loop, Call("connect_destroyed", c))
  /\ UNCHANGED <<conn, socket, connections_, serverVars, kept, loopVars, log, aborted>>

RemoveConnectionInLoop(x, c) ==
  /\ Executing(x, "remove_connection_in_loop", c)
  /\ IF c \notin connections_
     THEN Abort("remove_connection_in_loop")
     ELSE /\ connections_' = connections_ \ {c}
          /\ RunInLoop(x, conn[c].loop, Call("connect_destroyed", c))
          /\ UNCHANGED <<conn, socket, kept, loopVars, log, aborted>>
  /\ UNCHANGED serverVars

-----------------------------------------------------------------------------
(* The end of the server: the base loop is told to quit and returns, ~Impl    *)
(* hands connect_destroyed to the loop of every connection, and then the      *)
(* threads of the pool are told to quit and joined, one after the other.      *)

QuitBase ==
  /\ ServerDies /\ ~quit_flag_[Base]
  /\ quit_flag_' = [quit_flag_ EXCEPT ![Base] = TRUE]
  /\ UNCHANGED <<conn, socket, connections_, serverVars, kept, phase, active_channels_, current,
                 functors, running, queue_functors_, calls, log, aborted>>

DestroyServer ==
  /\ server = "up" /\ phase[Base] = "exited"
  /\ server' = "dying"
  /\ \E list \in SetToSeqs(connections_) :
       calls' = [calls EXCEPT ![Base] =
                  [i \in 1..Len(list) |-> Call("release", list[i])]]
  /\ UNCHANGED <<conn, socket, connections_, next_, kept, loopVars,
                 queue_functors_, log, aborted>>

\* Mutant: the connection is dropped without connect_destroyed.
ReleaseOnly(x, c) ==
  /\ Executing(x, "release", c)
  /\ connections_' = connections_ \ {c}
  /\ Return(x, <<>>)
  /\ UNCHANGED <<conn, socket, next_, server, kept, loopVars, log, aborted>>

Release(x, c) ==
  /\ Executing(x, "release", c)
  /\ connections_' = connections_ \ {c}
  /\ RunInLoop(x, conn[c].loop, Call("connect_destroyed", c))
  /\ UNCHANGED <<conn, socket, next_, server, kept, loopVars, log, aborted>>

Exited(i) == phase[loops_[i]] = "exited"

StopPool ==
  /\ server = "dying" /\ Idle(Base)
  /\ server' = IF \A i \in 1..Len(loops_) : Exited(i) THEN "dead" ELSE server
  /\ quit_flag_' = [l \in AllLoops |->
       \/ quit_flag_[l]
       \/ \E i \in 1..Len(loops_) : l = loops_[i] /\ \A j \in 1..(i-1) : Exited(j)]
  /\ server' # server \/ quit_flag_' # quit_flag_
  /\ UNCHANGED <<conn, socket, connections_, next_, kept, phase,
                 active_channels_, current, functors, running, queue_functors_, calls,
                 log, aborted>>

-----------------------------------------------------------------------------
\* What a thread does when it goes on with the call under way.
Continue(x) ==
  \/ ConnStep(x) /\ UNCHANGED serverVars
  \/ NewConnection(x)
  \/ \E c \in Conns :
       RemoveConnection(x, c) \/ RemoveConnectionInLoop(x, c) \/ Release(x, c)

Loop(l) == (PollAccepting(l) \/ HandleAccept(l) \/ LoopStep(l)) /\ UNCHANGED serverVars

ServerStep == Start \/ QuitBase \/ DestroyServer \/ StopPool

Next == /\ aborted = "no"
        /\ \/ \E x \in Threads : Continue(x)
           \/ \E l \in AllLoops : Loop(l)
           \/ (UserStep \/ PeerStep) /\ UNCHANGED serverVars
           \/ ServerStep

Spec == Init /\ [][Next]_vars

\* Threads go on with what they started and loops keep looping; callbacks return.
FairSpec ==
  /\ Spec
  /\ \A x \in Threads : WF_vars(aborted = "no" /\ Continue(x))
  /\ \A l \in AllLoops : WF_vars(aborted = "no" /\ Loop(l))

-----------------------------------------------------------------------------
(* Properties.                                                              *)

TypeOK ==
  /\ ConnTypeOK
  /\ socket \in [Conns -> [data : BOOLEAN, shut : BOOLEAN,
                           peer : {"open", "fin", "reset_error", "reset"}]]
  /\ \A l \in AllLoops : \A i \in 1..Len(queue_functors_[l]) :
       queue_functors_[l][i].fn \in Owning \cup Raw
  /\ next_ \in 1..Len(loops_) \cup {1}
  /\ \A u \in Users : Len(calls[u]) <= 1
  /\ server \in {"new", "up", "dying", "dead"}

\* The server's map holds a connection from its creation until it goes down, so
\* that an open connection cannot be destroyed.
MapHoldsOpen ==
  server = "up" => \A c \in Conns :
    conn[c].state \in {"CONNECTING", "CONNECTED", "DISCONNECTING"} => c \in connections_

\* With the types of the server's fields.
ServerInv == TypeOK /\ MapHoldsOpen

\* What assert_in_loop_thread says of the connections and of the server's own
\* functions: they run on the right thread.
InLoopThread ==
  /\ ConnInLoopThread
  /\ \A x \in Threads : \A i \in 1..Len(calls[x]) :
       calls[x][i].fn \in {"new_connection", "remove_connection_in_loop", "release"}
         => x = Base

\* Once a connection is down it stays down.
DisconnectedIsFinal ==
  [][\A c \in Conns : conn[c].state = "DISCONNECTED" => conn'[c].state = "DISCONNECTED"]_vars

\* tcp_server.cpp:179: a connection that is removed was in the map.  A program that
\* closes from another thread can make it fail.
EraseAssertion == aborted # "remove_connection_in_loop"

-----------------------------------------------------------------------------
(* What the user is promised about each connection.                          *)

lifeStage == [c \in Conns |->
  IF ~Created(c) THEN "fresh" ELSE IF ~Alive(c) THEN "gone"
  ELSE IF log[c] = <<>> THEN "accepted" ELSE IF WasDown(c) THEN "down" ELSE "up"]

L == INSTANCE ConnLifecycle WITH stage <- lifeStage, heard <- log

\* The server implements ConnLifecycle: a connection is destroyed only after it
\* was up and went down, and is heard only in between.
ImplementsLifecycle == L!Spec
=============================================================================
