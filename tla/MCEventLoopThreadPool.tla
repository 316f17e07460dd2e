----------------------- MODULE MCEventLoopThreadPool -----------------------
(* A small instance of EventLoopThreadPool for TLC.                         *)
EXTENDS EventLoopThreadPool

\* The callbacks of the first thread, which has the init callback, and of the
\* last may quit their loops.
MCQuitters == {1, NumThreads}
=============================================================================
