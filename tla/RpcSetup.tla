------------------------------ MODULE RpcSetup ------------------------------
(***************************************************************************)
(* Setting servers up and taking them down (src/RpcServer.cc): the         *)
(* addresses that Start binds and Close unbinds one by one, and the        *)
(* context all sockets belong to, for several servers of one program.      *)
(*                                                                         *)
(* How Close gets the workers and the proxy to stop is RpcServer's subject *)
(* and one step here.  EndPoint is not called while Start or Close walks   *)
(* through rpc_bind_vec_, which is not protected.                          *)
(***************************************************************************)
EXTENDS Integers, Sequences, FiniteSets

CONSTANTS
  Server,       \* RpcServer objects
  suffix,       \* the suffix each is constructed with
  Tcp, Inproc,  \* urls the application passes to EndPoint
  Nobody,       \* no server
  MaxEndpoints, \* bound: calls of EndPoint for each server (a function)
  Fault         \* what may go wrong: a subset of Faults

(* Binding a free address fails (permissions, another program has it); a   *)
(* signal ends the proxy.                                                  *)
Faults == {"bind", "signal"}

(* The addresses WorkerStop, the workers and ProxyStop connect to: the     *)
(* same for all servers with one suffix.                                   *)
Inprocs(s)  == <<<<"workil", suffix[s]>>, <<"worker", suffix[s]>>,
                 <<"pcontrol", suffix[s]>>>>
OwnInprocs(s) == {Inprocs(s)[i] : i \in 1 .. 3}
Url         == Tcp \cup Inproc
Address     == Url \cup UNION {OwnInprocs(s) : s \in Server}

ASSUME SetupAssumption ==
  /\ Nobody \notin Server
  /\ Tcp \cap (Inproc \cup UNION {OwnInprocs(s) : s \in Server}) = {}
  /\ MaxEndpoints \in [Server -> Nat]
  /\ Fault \subseteq Faults

VARIABLES
  alive,          \* servers that exist
  sockets,        \* a server's sockets: "open" or "closed"
  rpc_bind_vec,   \* rpc_bind_vec_
  held,           \* which server has bound an address
  started,        \* started_
  startPc,        \* Start: "idle", "bind", "proxy"
  closePc,        \* Close: "idle", "unbind", "stop", "sockets"
  pos,            \* how far the bind or unbind loop is
  workers,        \* the workers: "none", "running", "ended"
  context,        \* "open", "terminating", "gone"
  crashed,        \* an exception left a destructor or a thread
  misuse          \* history: what the application did that the code does not
                  \*   provide for

bindVars == <<sockets, rpc_bind_vec, held, pos>>
runVars  == <<alive, started, startPc, closePc, workers>>
vars     == <<bindVars, runVars, context, crashed, misuse>>

(* "endpoint": EndPoint after Start; "close": Close during Start's binds;  *)
(* "context": the context goes before its servers.                         *)
Misuses == {"endpoint", "close", "context"}

TypeOK ==
  /\ alive \subseteq Server
  /\ sockets \in [Server -> {"open", "closed"}]
  /\ rpc_bind_vec \in [Server -> Seq(Url)]
  /\ held \in [Address -> Server \cup {Nobody}]
  /\ started \in [Server -> BOOLEAN]
  /\ startPc \in [Server -> {"idle", "bind", "proxy"}]
  /\ closePc \in [Server -> {"idle", "unbind", "stop", "sockets"}]
  /\ pos \in [Server -> Nat \ {0}]
  /\ workers \in [Server -> {"none", "running", "ended"}]
  /\ context \in {"open", "terminating", "gone"}
  /\ crashed \in BOOLEAN
  /\ misuse \subseteq Misuses

Init ==
  /\ alive = Server /\ sockets = [s \in Server |-> "open"]
  /\ rpc_bind_vec = [s \in Server |-> <<>>]
  /\ held = [a \in Address |-> Nobody]
  /\ started = [s \in Server |-> FALSE]
  /\ startPc = [s \in Server |-> "idle"]
  /\ closePc = [s \in Server |-> "idle"] /\ pos = [s \in Server |-> 1]
  /\ workers = [s \in Server |-> "none"]
  /\ context = "open" /\ crashed = FALSE /\ misuse = {}

Misuse(what, condition) ==
  misuse' = IF condition THEN misuse \cup {what} ELSE misuse

(* No call of Start or Close walks through rpc_bind_vec_.                  *)
Quiet(s) == /\ s \in alive /\ ~crashed
            /\ startPc[s] # "bind" /\ closePc[s] = "idle"

-----------------------------------------------------------------------------
(* Start                                                                   *)

EndPoint(s, url) ==
  /\ Quiet(s) /\ Len(rpc_bind_vec[s]) < MaxEndpoints[s]
  /\ rpc_bind_vec' = [rpc_bind_vec EXCEPT ![s] = Append(@, url)]
  /\ Misuse("endpoint", started[s])
  /\ UNCHANGED <<sockets, held, pos, runVars, context, crashed>>

StartsFromZero(s) ==
  /\ Quiet(s) /\ startPc[s] = "idle"
  /\ startPc' = [startPc EXCEPT ![s] = "bind"]
  /\ pos' = [pos EXCEPT ![s] = 0]
  /\ UNCHANGED <<sockets, rpc_bind_vec, held, alive, started, closePc,
                 workers, context, crashed, misuse>>

StartedAtOnce(s) ==
  /\ Quiet(s) /\ startPc[s] = "idle"
  /\ startPc' = [startPc EXCEPT ![s] = "bind"]
  /\ pos' = [pos EXCEPT ![s] = 1]
  /\ started' = [started EXCEPT ![s] = TRUE]
  /\ UNCHANGED <<sockets, rpc_bind_vec, held, alive, closePc, workers, context,
                 crashed, misuse>>

Start(s) ==
  /\ Quiet(s) /\ startPc[s] = "idle"
  /\ startPc' = [startPc EXCEPT ![s] = "bind"]
  /\ pos' = [pos EXCEPT ![s] = 1]
  /\ UNCHANGED <<sockets, rpc_bind_vec, held, alive, started, closePc,
                 workers, context, crashed, misuse>>

ToBind(s) == rpc_bind_vec[s] \o Inprocs(s)
Binding(s) == startPc[s] = "bind" /\ pos[s] <= Len(ToBind(s)) /\ ~crashed
CanBind(s) == /\ sockets[s] = "open" /\ context = "open"
              /\ held[ToBind(s)[pos[s]]] = Nobody

StartBinds(s) ==
  /\ Binding(s) /\ CanBind(s)
  /\ held' = [held EXCEPT ![ToBind(s)[pos[s]]] = s]
  /\ pos' = [pos EXCEPT ![s] = @ + 1]
  /\ UNCHANGED <<sockets, rpc_bind_vec, runVars, context, crashed, misuse>>

BindFailsOn(s) ==
  /\ Binding(s) /\ ("bind" \in Fault \/ ~CanBind(s))
  /\ pos' = [pos EXCEPT ![s] = @ + 1]
  /\ UNCHANGED <<sockets, rpc_bind_vec, held, runVars, context, crashed,
                 misuse>>

(* bind throws and Start returns; what was bound stays bound.              *)
StartBindThrows(s) ==
  /\ Binding(s) /\ ("bind" \in Fault \/ ~CanBind(s))
  /\ startPc' = [startPc EXCEPT ![s] = "idle"]
  /\ UNCHANGED <<bindVars, alive, started, closePc, workers, context, crashed,
                 misuse>>

(* A worker's socket is created outside its try block: it cannot be in a   *)
(* context that is terminating.                                            *)
StartSpawns(s) ==
  /\ startPc[s] = "bind" /\ pos[s] > Len(ToBind(s)) /\ ~crashed
  /\ started' = [started EXCEPT ![s] = TRUE]
  /\ workers' = [workers EXCEPT ![s] = "running"]
  /\ startPc' = [startPc EXCEPT ![s] = "proxy"]
  /\ crashed' \in {FALSE, context # "open"}
  /\ UNCHANGED <<bindVars, alive, closePc, context, misuse>>

(* The proxy ends on TERMINATE, on closed sockets and with the context ... *)
ProxyEnds(s) ==
  /\ startPc[s] = "proxy" /\ ~crashed
  /\ workers[s] = "ended" \/ sockets[s] = "closed" \/ context # "open"
  /\ startPc' = [startPc EXCEPT ![s] = "idle"]
  /\ UNCHANGED <<bindVars, alive, started, closePc, workers, context, crashed,
                 misuse>>

(* ... and on a signal, while all else goes on.                            *)
ProxyInterrupted(s) ==
  /\ startPc[s] = "proxy" /\ "signal" \in Fault /\ ~crashed
  /\ startPc' = [startPc EXCEPT ![s] = "idle"]
  /\ UNCHANGED <<bindVars, alive, started, closePc, workers, context, crashed,
                 misuse>>

-----------------------------------------------------------------------------
(* Close, and ~RpcServer, which calls it                                   *)

CloseGoto(s, l) == closePc' = [closePc EXCEPT ![s] = l]

Close(s) ==
  /\ s \in alive /\ closePc[s] = "idle" /\ ~crashed
  /\ CloseGoto(s, IF started[s] THEN "unbind" ELSE "sockets")
  /\ pos' = IF started[s] THEN [pos EXCEPT ![s] = 1] ELSE pos
  /\ Misuse("close", startPc[s] = "bind")
  /\ UNCHANGED <<sockets, rpc_bind_vec, held, alive, started, startPc,
                 workers, context, crashed>>

Unbinding(s) == closePc[s] = "unbind" /\ pos[s] <= Len(rpc_bind_vec[s])
Endpoint(s)  == rpc_bind_vec[s][pos[s]]
CanUnbind(s) ==
  Endpoint(s) \in Inproc
    \/ (held[Endpoint(s)] = s /\ sockets[s] = "open" /\ context = "open")

(* ZSocket::unbind leaves inproc addresses alone.                          *)
CloseUnbinds(s) ==
  /\ Unbinding(s) /\ CanUnbind(s) /\ ~crashed
  /\ held' = IF Endpoint(s) \in Inproc THEN held
             ELSE [held EXCEPT ![Endpoint(s)] = Nobody]
  /\ pos' = [pos EXCEPT ![s] = @ + 1]
  /\ UNCHANGED <<sockets, rpc_bind_vec, runVars, context, crashed, misuse>>

(* unbind throws, or the socket of WorkerStop cannot be created: Close is  *)
(* left, with all that follows undone.  Out of the destructor, after Start *)
(* has returned, that ends the process.                                    *)
CloseThrows(s) ==
  /\ \/ Unbinding(s) /\ ~CanUnbind(s)
     \/ closePc[s] = "stop" /\ context # "open"
  /\ CloseGoto(s, "idle") /\ ~crashed
  /\ crashed' \in {FALSE, startPc[s] = "idle"}
  /\ UNCHANGED <<bindVars, alive, started, startPc, workers, context, misuse>>

CloseUnbound(s) ==
  /\ closePc[s] = "unbind" /\ pos[s] > Len(rpc_bind_vec[s]) /\ ~crashed
  /\ started' = [started EXCEPT ![s] = FALSE]
  /\ CloseGoto(s, "stop")
  /\ UNCHANGED <<bindVars, alive, startPc, workers, context, crashed, misuse>>

ForgetsJoin(s) ==
  /\ closePc[s] = "stop" /\ ~crashed
  /\ CloseGoto(s, "sockets")
  /\ UNCHANGED <<bindVars, alive, started, startPc, workers, context, crashed,
                 misuse>>

(* WorkerStop, the joins and ProxyStop: they need the proxy of the server  *)
(* that holds the inproc addresses.                                        *)
CloseStops(s) ==
  /\ closePc[s] = "stop" /\ startPc[s] = "proxy" /\ ~crashed
  /\ held[Inprocs(s)[1]] = s /\ context = "open"
  /\ workers' = [workers EXCEPT ![s] = "ended"]
  /\ CloseGoto(s, "sockets")
  /\ UNCHANGED <<bindVars, alive, started, startPc, context, crashed, misuse>>

CloseSockets(s) ==
  /\ closePc[s] = "sockets" /\ ~crashed
  /\ sockets' = [sockets EXCEPT ![s] = "closed"]
  /\ held' = [a \in Address |-> IF held[a] = s THEN Nobody ELSE held[a]]
  /\ CloseGoto(s, "idle")
  /\ UNCHANGED <<rpc_bind_vec, pos, alive, started, startPc, workers,
                 context, crashed, misuse>>

(* ~RpcServer is called when Start has returned, and ends with the last    *)
(* step of its Close.                                                      *)
Destroyed(s) ==
  /\ s \in alive /\ startPc[s] = "idle" /\ closePc[s] = "idle" /\ ~crashed
  /\ sockets[s] = "closed" /\ ~started[s]
  /\ alive' = alive \ {s}
  /\ UNCHANGED <<bindVars, started, startPc, closePc, workers,
                 context, crashed, misuse>>

-----------------------------------------------------------------------------
(* The context: closing it fails every call on its sockets, and returns    *)
(* once all of them are closed.  A worker takes the error for one of those *)
(* it goes on after, again and again.                                      *)

CloseContext ==
  /\ context = "open" /\ ~crashed
  /\ context' = "terminating"
  /\ Misuse("context", alive # {})
  /\ UNCHANGED <<bindVars, runVars, crashed>>

ContextCloses ==
  /\ context = "terminating" /\ ~crashed
  /\ \A s \in Server : sockets[s] = "closed" /\ workers[s] # "running"
  /\ context' = "gone"
  /\ UNCHANGED <<bindVars, runVars, crashed, misuse>>

-----------------------------------------------------------------------------
StartStep(s) ==
  StartBinds(s) \/ StartBindThrows(s) \/ StartSpawns(s) \/ ProxyEnds(s)

CloseStep(s) ==
  \/ CloseUnbinds(s) \/ CloseThrows(s) \/ CloseUnbound(s)
  \/ CloseStops(s) \/ CloseSockets(s)

Next ==
  \/ \E s \in Server :
       \/ \E url \in Url : EndPoint(s, url)
       \/ Start(s) \/ StartStep(s) \/ ProxyInterrupted(s)
       \/ Close(s) \/ CloseStep(s) \/ Destroyed(s)
  \/ CloseContext \/ ContextCloses

Spec == Init /\ [][Next]_vars

(* Each thread in Start or Close goes on, and closing the context returns  *)
(* when it can.                                                            *)
FairSpec ==
  /\ Spec
  /\ \A s \in Server : WF_vars(StartStep(s)) /\ WF_vars(CloseStep(s))
  /\ WF_vars(ContextCloses)

-----------------------------------------------------------------------------
(* Properties                                                              *)

(* The workers of a server are connected to that server, and its           *)
(* TERMINATEs go to no other: while workers run, or Close stops them, the  *)
(* server holds its inproc addresses, even if another one has the same     *)
(* suffix or Start is called again.  (Nothing but the exclusive bind keeps *)
(* two servers apart.)                                                     *)
WorkersAtHome ==
  misuse \cap {"close", "context"} = {} =>
    \A s \in Server :
      (started[s] \/ workers[s] = "running" \/ closePc[s] = "stop") =>
        sockets[s] = "open" /\ \A a \in OwnInprocs(s) : held[a] = s

(* Close never fails half way: all that it is going to unbind was bound by *)
(* this server and is still.  (A url given twice, a failed or repeated     *)
(* Start, another server with the same url.)                               *)
CloseUnbindsItsOwn ==
  misuse \cap {"endpoint", "close", "context"} = {} =>
    \A s \in Server : Unbinding(s) => CanUnbind(s)

(* A program that destroys its servers before the context gets to its end. *)
ContextEnds ==
  context = "terminating" ~> (context = "gone" \/ crashed \/ misuse # {})

=============================================================================
