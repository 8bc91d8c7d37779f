---------------------------- MODULE MCWsCluster -----------------------------
EXTENDS WsCluster, TLC

CONSTANTS n1, n2, e1, e2, e3

Origins == e1 :> n1 @@ e2 :> n1 @@ e3 :> n2
=============================================================================
