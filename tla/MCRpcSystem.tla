----------------------------- MODULE MCRpcSystem -----------------------------
(* Instances of RpcSystem for TLC.                                         *)
EXTENDS RpcSystem, TLC

CONSTANTS k1, k2, k3, t1, t2

TwoOfOneThread == k1 :> t1 @@ k2 :> t1 @@ k3 :> t2
FourCalls      == k1 :> 2 @@ k2 :> 1 @@ k3 :> 1
=============================================================================
