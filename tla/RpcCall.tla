------------------------------- MODULE RpcCall -------------------------------
(***************************************************************************)
(* What zqrpc promises about remote calls: a call is executed at most      *)
(* once, a caller gets a result only of its own call, after that call was  *)
(* executed, and at most once.  Nothing promises that a result comes.      *)
(***************************************************************************)
EXTENDS Integers

CONSTANT Call

VARIABLES
  phase,   \* of each call: "none", "called", "answered"
  runs     \* how often it was executed

TypeOK == /\ phase \in [Call -> {"none", "called", "answered"}]
          /\ runs \in [Call -> 0 .. 1]

Init == /\ phase = [c \in Call |-> "none"]
        /\ runs = [c \in Call |-> 0]

MakeCall(c) ==
  /\ phase[c] = "none"
  /\ phase' = [phase EXCEPT ![c] = "called"]
  /\ UNCHANGED runs

(* The server executes a call even if its caller no longer waits.          *)
Execute(c) ==
  /\ phase[c] = "called" /\ runs[c] = 0
  /\ runs' = [runs EXCEPT ![c] = 1]
  /\ UNCHANGED phase

GetResult(c) ==
  /\ phase[c] = "called" /\ runs[c] = 1
  /\ phase' = [phase EXCEPT ![c] = "answered"]
  /\ UNCHANGED runs

Next == \E c \in Call : MakeCall(c) \/ Execute(c) \/ GetResult(c)

Spec == Init /\ [][Next]_<<phase, runs>>

=============================================================================
