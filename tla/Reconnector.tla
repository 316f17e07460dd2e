---------------------------- MODULE Reconnector ----------------------------
(***************************************************************************)
(* What a TcpClient promises about the connections it makes: one attempt at *)
(* a time, none while a connection is up, and neither a new attempt nor a    *)
(* new connection once the user said stop() and until he says connect()      *)
(* again.  TcpClient.tla is shown to implement it.                           *)
(***************************************************************************)
EXTENDS Naturals

VARIABLES
  wanted,   \* the user wants a connection
  trying,   \* an attempt is under way
  up        \* the number of connections that are up

vars == <<wanted, trying, up>>

Init == wanted = FALSE /\ trying = FALSE /\ up = 0

Want   == wanted' \in BOOLEAN /\ UNCHANGED <<trying, up>>
Try    == /\ wanted /\ ~trying /\ up = 0
          /\ trying' = TRUE /\ UNCHANGED <<wanted, up>>
GiveUp == trying /\ trying' = FALSE /\ UNCHANGED <<wanted, up>>
GoUp   == /\ wanted /\ trying
          /\ trying' = FALSE /\ up' = 1 /\ UNCHANGED wanted
GoDown == up = 1 /\ up' = 0 /\ UNCHANGED <<wanted, trying>>

Next == Want \/ Try \/ GiveUp \/ GoUp \/ GoDown

Spec == Init /\ [][Next]_vars
=============================================================================
