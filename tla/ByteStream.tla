----------------------------- MODULE ByteStream -----------------------------
(***************************************************************************)
(* What a connection promises about the bytes it is given: the kernel gets  *)
(* them in order, each once, as many at a time as it will take; the         *)
(* connection is shut down for writing only when nothing is left; and       *)
(* nothing is given to the kernel after that, or after the connection went  *)
(* down.                                                                    *)
(***************************************************************************)
EXTENDS Sequences, SequencesExt

VARIABLES
  pending,      \* bytes accepted and not yet given to the kernel
  delivered,    \* bytes given to the kernel
  status        \* "open", "closed": shut down for writing, or "down"

vars == <<pending, delivered, status>>

Init == pending = <<>> /\ delivered = <<>> /\ status = "open"

\* Bytes are accepted behind the others, delivered from the front, or both.
Forward ==
  /\ status = "open"
  /\ IsPrefix(delivered, delivered')
  /\ IsPrefix(delivered \o pending, delivered' \o pending')

Transfer == Forward /\ UNCHANGED status

\* The last bytes may be delivered in the same step.
Close == Forward /\ pending' = <<>> /\ status' = "closed"

GoDown == status' = "down" /\ UNCHANGED <<pending, delivered>>

Next == Transfer \/ Close \/ GoDown

Spec == Init /\ [][Next]_vars
=============================================================================
