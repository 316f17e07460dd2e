\* A thread without a loop force-closes a connection.
CONSTANTS
  c1 = c1
  c2 = c2
  base = base
  io1 = io1
  io2 = io2
  u1 = u1
  Acceptor = acceptor
  Base = base
  Conns <- OneConn
  loops_ <- OneLoop
  Users <- OneUser
  OwnOps <- NoOps
  PeerOps <- NoOps
  ThreadOps <- ForceClose
  PeerDoes <- AllPeers
  KeepsRefs = TRUE
  DropsRefs = FALSE
  ChecksConnected = TRUE
  TellsOutput = FALSE
  EventListSize = 16
  MaxCallbackOps = 1
  MaxQueue = 1
  ServerDies = FALSE
SPECIFICATION Spec
INVARIANTS EraseAssertion
CHECK_DEADLOCK FALSE
