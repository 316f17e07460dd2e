---------------------------- MODULE MCAcceptor ----------------------------
(* A small instance of Acceptor for TLC.                                    *)
EXTENDS Acceptor
=============================================================================
