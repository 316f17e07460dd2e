\* queue_in_loop and do_queued_functors lock different mutexes.
CONSTANTS
  t1 = t1
  t2 = t2
  f1 = f1
  f2 = f2
  NoFunctor = NoFunctor
  Threads <- MCThreads
  Functors <- MCFunctors
SPECIFICATION Spec
INVARIANT MutualExclusion
CHECK_DEADLOCK FALSE
