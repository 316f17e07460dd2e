---------------------------- MODULE MCTcpClient ----------------------------
(* Small instances of TcpClient for TLC.                                    *)
EXTENDS TcpClient, TLC

CONSTANTS s1, s2, loop, u1

TwoSockets   == {s1, s2}
NoLoops      == <<>>
NoUsers      == {}
OneUser      == {u1}
NoOps        == {}
Disconnect   == {"disconnect"}
Connect      == {"connect"}
Stop         == {"stop"}
Destroy      == {"destroy"}
Finishing    == {"finishes"}
LeavingPeers == {"finishes", "resets"}
=============================================================================
