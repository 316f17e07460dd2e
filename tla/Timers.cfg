\* Timers of the loop's thread and of others, cancelled by both.
CONSTANTS
  a1 = a1
  a2 = a2
  Addrs <- TwoAddrs
  Delays <- OneTwo
  Intervals <- OnceOrNot
  MaxInterval = 1
  IntRange = 8
  MaxCreated = 3
  MaxQueue = 2
  SharesIds = FALSE
SPECIFICATION FairSpec
INVARIANTS TimersOwned ArmedForEarliest CancelIsFinal NoTimerLost
PROPERTIES EveryTimerFires
CHECK_DEADLOCK FALSE
