------------------------------ MODULE MCZSocket ------------------------------
(* Instances of ZSocket for TLC.                                           *)
EXTENDS ZSocket

ThreeEach == [m \in Message |-> 3]

=============================================================================
