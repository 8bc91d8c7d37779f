---------------------------- MODULE MCWsSession -----------------------------
EXTENDS WsSession, TLC

CONSTANTS u1, u2, t1, t2, t3, t4, t5, t6

Owners == t1 :> Public @@ t2 :> Members @@ t3 :> u1 @@ t4 :> u2 @@ t5 :> Malformed
          @@ t6 :> u1
OwnTopics == u1 :> t3 @@ u2 :> t4
=============================================================================
