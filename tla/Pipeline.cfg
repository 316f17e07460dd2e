\* A bounded pool with two workers, a task that submits another, a consumer.
CONSTANTS
  w1 = w1
  w2 = w2
  c1 = c1
  k1 = k1
  k2 = k2
  a1 = a1
  a2 = a2
  b1 = b1
  b2 = b2
  d = d
  NoTask = NoTask
  MaxQueue = 1
  Workers <- MCWorkers
  Callers <- MCCallers
  Consumers <- MCConsumers
  Tasks <- MCTasks
  Program <- MCProgram
  Follow <- MCFollow
SPECIFICATION FairPipeline
INVARIANTS NoSleeperBesideWork NoSleeperBesideResult
PROPERTIES EveryTaskRuns StopReturns
CHECK_DEADLOCK FALSE
