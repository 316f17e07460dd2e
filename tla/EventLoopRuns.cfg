\* Every interleaving of the owner and two threads that post two functors.
CONSTANTS
  t1 = t1
  t2 = t2
  f1 = f1
  f2 = f2
  NoFunctor = NoFunctor
  Threads <- MCThreads
  Functors <- MCFunctors
SPECIFICATION PromptSpec
INVARIANTS NoLostWakeup LoopInv
PROPERTIES PromptRun PromptQuit EventualRun EventualQuit ImplementsExecutor
CHECK_DEADLOCK FALSE
