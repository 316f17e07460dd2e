\* A client that retries, stops, disconnects and ends.
CONSTANTS
  s1 = s1
  s2 = s2
  loop = loop
  u1 = u1
  Conns <- TwoSockets
  Base = loop
  loops_ <- NoLoops
  Users <- OneUser
  OwnOps <- NoOps
  PeerOps <- NoOps
  PeerDoes <- LeavingPeers
  ThreadOps <- NoOps
  KeepsRefs = FALSE
  DropsRefs = FALSE
  ChecksConnected = TRUE
  TellsOutput = FALSE
  EventListSize = 16
  MaxCallbackOps = 1
  MaxQueue = 1
  Client = client
  Connector = connector
  TimerFd = timerfd
  None = none
  ClientOps <- Destroy
  PostedOps <- Stop
  ForeignOps <- Disconnect
  retry_ = TRUE
  ClosesIn <- NoOps
  DestroysQuietly = TRUE
  FatalErrors = FALSE
SPECIFICATION FairSpec
INVARIANTS NothingAborts ClientInv CallersHold
PROPERTIES KeepsTrying ImplementsReconnector
CHECK_DEADLOCK FALSE
