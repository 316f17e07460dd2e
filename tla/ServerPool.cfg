\* The base loop accepts, an IO loop serves two connections, a thread sends, and the
\* callbacks of the output close.
CONSTANTS
  c1 = c1
  c2 = c2
  base = base
  io1 = io1
  io2 = io2
  u1 = u1
  Acceptor = acceptor
  Base = base
  Conns <- TwoConns
  loops_ <- OneLoop
  Users <- OneUser
  OwnOps <- CloseOps
  PeerOps <- NoOps
  ThreadOps <- SendOnly
  PeerDoes <- Finishing
  KeepsRefs = TRUE
  DropsRefs = FALSE
  ChecksConnected = TRUE
  TellsOutput = TRUE
  EventListSize = 16
  MaxCallbackOps = 1
  MaxQueue = 1
  ServerDies = FALSE
SPECIFICATION Spec
INVARIANTS NothingAborts ServerInv InLoopThread
PROPERTIES DisconnectedIsFinal
SYMMETRY ConnSymmetry
CHECK_DEADLOCK FALSE
