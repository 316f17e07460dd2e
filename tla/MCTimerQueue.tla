---------------------------- MODULE MCTimerQueue ----------------------------
(* A small instance of TimerQueue for TLC.                                  *)
EXTENDS TimerQueue

CONSTANTS a1, a2

TwoAddrs  == {a1, a2}
OneTwo    == {1, 2}
Once      == {0}
OnceOrNot == {0, 1}
=============================================================================
