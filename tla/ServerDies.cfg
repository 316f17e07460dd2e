\* The server ends with its two IO threads; callbacks stop and start reading.
CONSTANTS
  c1 = c1
  c2 = c2
  base = base
  io1 = io1
  io2 = io2
  u1 = u1
  Acceptor = acceptor
  Base = base
  Conns <- TwoConns
  loops_ <- TwoLoops
  Users <- NoUsers
  OwnOps <- ReadOps
  PeerOps <- NoOps
  ThreadOps <- NoOps
  PeerDoes <- LeavingPeers
  KeepsRefs = TRUE
  DropsRefs = TRUE
  ChecksConnected = TRUE
  TellsOutput = FALSE
  EventListSize = 16
  MaxCallbackOps = 1
  MaxQueue = 1
  ServerDies = TRUE
SPECIFICATION Spec
INVARIANTS NothingAborts DestroyedIsUnregistered
SYMMETRY ConnSymmetry
CHECK_DEADLOCK FALSE
