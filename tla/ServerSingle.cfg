\* One loop accepts and serves two connections.
CONSTANTS
  c1 = c1
  c2 = c2
  base = base
  io1 = io1
  io2 = io2
  u1 = u1
  Acceptor = acceptor
  Base = base
  Conns <- TwoConns
  loops_ <- NoLoops
  Users <- NoUsers
  OwnOps <- SendOps
  PeerOps <- NoOps
  ThreadOps <- NoOps
  PeerDoes <- PlainPeers
  KeepsRefs = FALSE
  DropsRefs = FALSE
  ChecksConnected = TRUE
  TellsOutput = FALSE
  EventListSize = 16
  MaxCallbackOps = 1
  MaxQueue = 1
  ServerDies = FALSE
SPECIFICATION FairSpec
INVARIANTS NothingAborts
PROPERTIES ClosedIsDestroyed ImplementsLifecycle
CHECK_DEADLOCK FALSE
