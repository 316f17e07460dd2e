---------------------------- MODULE MCEventLoop ----------------------------
(* Small instances of EventLoop for TLC.                                    *)
EXTENDS EventLoop

CONSTANTS t1, t2, f1, f2

MCThreads  == {t1, t2}
MCFunctors == {f1, f2}
=============================================================================
