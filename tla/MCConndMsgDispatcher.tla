------------------------ MODULE MCConndMsgDispatcher ------------------------
(* Instances of ConndMsgDispatcher for TLC. *)
EXTENDS ConndMsgDispatcher, TLC

CONSTANTS tcp, ws, kcp, t1, t2, w1, k1

ByName == (t1 :> tcp) @@ (t2 :> tcp) @@ (w1 :> ws)
WithKcp == (t1 :> tcp) @@ (k1 :> kcp)
=============================================================================
