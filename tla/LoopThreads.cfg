\* Three threads, two of which may leave their loops at any time.
CONSTANTS
  NumThreads = 3
  Quitters <- MCQuitters
SPECIFICATION Spec
INVARIANTS LoopsOutlive
PROPERTIES StartLoopReturns DestructorReturns
CHECK_DEADLOCK FALSE
