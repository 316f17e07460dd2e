---------------------------- MODULE MCTcpServer ----------------------------
(* Small instances of TcpServer for TLC.                                    *)
EXTENDS TcpServer, TLC

CONSTANTS c1, c2, base, io1, io2, u1

OneConn  == {c1}
TwoConns == {c1, c2}
NoLoops  == <<>>
OneLoop  == <<io1>>
TwoLoops == <<io1, io2>>
NoUsers  == {}
OneUser  == {u1}
NoOps    == {}
SendOnly == {"send"}
ForceClose == {"force_close"}
Shutdown == {"shutdown"}
CloseOps == {"shutdown", "force_close"}
SendOps  == {"send", "shutdown", "force_close"}
ReadOps  == {"start_read", "stop_read"}
PauseOps == {"send", "stop_read"}

AllPeers   == {"sends", "finishes", "resets"}
LeavingPeers == {"finishes", "resets"}
PlainPeers == {"sends", "finishes"}
Finishing  == {"finishes"}

ConnSymmetry == Permutations(TwoConns)
=============================================================================
