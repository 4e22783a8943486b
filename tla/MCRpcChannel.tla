---------------------------- MODULE MCRpcChannel ----------------------------
(* Instances of RpcChannel for TLC.                                        *)
EXTENDS RpcChannel

Steady   == {1}       \* a wall clock that goes with the time
Jumps    == {1, 2}    \* a wall clock that is set forward now and then
Timeouts == {-1, 1}   \* the default and a short one
Codes    == {0, 3}    \* ZEC_SUCCESS and ZEC_NOSUCHMETHOD

=============================================================================
