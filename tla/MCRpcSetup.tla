----------------------------- MODULE MCRpcSetup -----------------------------
(* Instances of RpcSetup for TLC.                                          *)
EXTENDS RpcSetup, TLC

CONSTANTS a, b

OneSuffix == [s \in Server |-> "default"]
TwoAndNone == a :> 2 @@ b :> 0

=============================================================================
