----------------------------- MODULE MCPipeline -----------------------------
(* A small instance of Pipeline for TLC.                                    *)
EXTENDS Pipeline

CONSTANTS w1, w2, c1, k1, k2, a1, a2, b1, b2, d

MCWorkers   == {w1, w2}
MCCallers   == {c1}
MCConsumers == {k1}
MCTasks     == {a1, a2, b1, b2, d}

\* a1 gives b1 to run(), a2 gives b2; d fills the queue beside them.
MCFollow == [t \in MCTasks |-> CASE t = a1 -> b1 [] t = a2 -> b2 [] OTHER -> NoTask]

MCProgram == [c \in MCCallers |-> <<a1, a2, d>>]
=============================================================================
