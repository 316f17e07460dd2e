--------------------------- MODULE ConnLifecycle ---------------------------
(***************************************************************************)
(* What a TcpServer promises its user about every connection it accepts:    *)
(* the connection callback says UP, then messages may arrive, then the       *)
(* connection callback says DOWN, and only then is the TcpConn destroyed.    *)
(* TcpServer.tla is shown to implement it.                                   *)
(***************************************************************************)
EXTENDS Sequences

CONSTANT Conns

VARIABLES
  stage,    \* per connection: how far its life is
  heard     \* per connection: the callbacks so far, messages in a row once

vars == <<stage, heard>>

Init == /\ stage = [c \in Conns |-> "fresh"]
        /\ heard = [c \in Conns |-> <<>>]

Moves(c, from, to) == stage[c] = from /\ stage' = [stage EXCEPT ![c] = to]

Hears(c, what) == heard' = [heard EXCEPT ![c] = Append(@, what)]

Accept(c)  == Moves(c, "fresh", "accepted") /\ UNCHANGED heard
Up(c)      == Moves(c, "accepted", "up") /\ Hears(c, "UP")
Message(c) == stage[c] = "up" /\ Hears(c, "MESSAGE") /\ UNCHANGED stage
Down(c)    == Moves(c, "up", "down") /\ Hears(c, "DOWN")

\* Several connections may go together, with the last batch that mentions them.
Destroy(S) == /\ \A c \in S : stage[c] = "down"
              /\ stage' = [c \in Conns |-> IF c \in S THEN "gone" ELSE stage[c]]
              /\ UNCHANGED heard

Next == \/ \E c \in Conns : Accept(c) \/ Up(c) \/ Message(c) \/ Down(c)
        \/ \E S \in SUBSET Conns : Destroy(S)

Spec == Init /\ [][Next]_vars
=============================================================================
