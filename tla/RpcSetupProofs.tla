---------------------------- MODULE RpcSetupProofs ----------------------------
(***************************************************************************)
(* Proofs about RpcSetup, for any number of servers, whatever suffixes     *)
(* and urls they have, and with every fault.                               *)
(***************************************************************************)
EXTENDS RpcSetup, SequenceTheorems, TLAPS

StartPoint == {"idle", "bind", "proxy"}
ClosePoint == {"idle", "unbind", "stop", "sockets"}
WorkPoint  == {"none", "running", "ended"}

(* What Start binds: the application's urls, then the server's own ones.   *)
LEMMA Binds ==
  ASSUME TypeOK, NEW s \in Server
  PROVE  /\ Len(rpc_bind_vec[s]) \in Nat
         /\ Len(ToBind(s)) = Len(rpc_bind_vec[s]) + 3
         /\ \A j \in 1 .. Len(rpc_bind_vec[s]) :
              /\ ToBind(s)[j] = rpc_bind_vec[s][j]
              /\ rpc_bind_vec[s][j] \in Url
         /\ \A j \in 1 .. 3 :
              ToBind(s)[Len(rpc_bind_vec[s]) + j] = Inprocs(s)[j]
         /\ \A j \in 1 .. Len(ToBind(s)) : ToBind(s)[j] \in Address
<1>1. PICK v \in Seq(Url) : v = rpc_bind_vec[s]
  BY DEF TypeOK
<1>2. PICK n \in Nat : n = Len(v)
  BY <1>1, LenProperties
<1>3. \A j \in 1 .. n : v[j] \in Url
  BY <1>1, <1>2, ElementOfSeq
<1>4. \A i \in 1 .. 3 : Inprocs(s)[i] \in Address
  BY DEF OwnInprocs, Address
<1>5. /\ Inprocs(s) \in Seq(Address) /\ Len(Inprocs(s)) = 3
  BY <1>4 DEF Inprocs
<1>6. v \in Seq(Address)
  BY <1>1, <1>2, <1>3, SeqDef DEF Address
<1>7. /\ Len(v \o Inprocs(s)) = n + 3
      /\ \A j \in 1 .. n + 3 :
           (v \o Inprocs(s))[j] = IF j <= n THEN v[j] ELSE Inprocs(s)[j - n]
  <2>1. PICK u \in Seq(Address) : u = Inprocs(s) /\ Len(u) = 3
    BY <1>5
  <2>2. /\ Len(v \o u) = Len(v) + Len(u)
        /\ \A j \in 1 .. Len(v) + Len(u) :
             (v \o u)[j] = IF j <= Len(v) THEN v[j] ELSE u[j - Len(v)]
    BY <1>6, ConcatProperties
  <2> QED
    BY <1>2, <2>1, <2>2
<1>8. \A j \in 1 .. 3 : n + j \in 1 .. n + 3 /\ ~(n + j <= n) /\ (n + j) - n = j
  OBVIOUS
<1>9. \A j \in 1 .. n : j \in 1 .. n + 3 /\ j <= n
  OBVIOUS
<1>10. \A j \in 1 .. n + 3 : j \in 1 .. n \/ (~(j <= n) /\ j - n \in 1 .. 3)
  OBVIOUS
<1>11. \A j \in 1 .. n + 3 : (v \o Inprocs(s))[j] \in Address
  BY <1>3, <1>4, <1>7, <1>9, <1>10 DEF Address
<1> QED
  BY <1>1, <1>2, <1>3, <1>7, <1>8, <1>9, <1>11 DEF ToBind

-----------------------------------------------------------------------------
(* Type correctness.                                                       *)

LEMMA TypeStep == TypeOK /\ [Next]_vars => TypeOK'
<1> SUFFICES ASSUME TypeOK, [Next]_vars
             PROVE  TypeOK'
  OBVIOUS
<1>1. CASE UNCHANGED vars
  BY <1>1 DEF vars, bindVars, runVars, TypeOK
<1>2. ASSUME NEW s \in Server, NEW url \in Url, EndPoint(s, url)
      PROVE  TypeOK'
  <2>1. Append(rpc_bind_vec[s], url) \in Seq(Url)
    BY AppendProperties DEF TypeOK
  <2>2. rpc_bind_vec' \in [Server -> Seq(Url)]
    BY <1>2, <2>1 DEF EndPoint, TypeOK
  <2> QED
    BY <1>2, <2>2 DEF EndPoint, Misuse, Misuses, runVars, TypeOK
<1>3. ASSUME NEW s \in Server,
             Start(s) \/ StartBindThrows(s) \/ ProxyEnds(s) \/ ProxyInterrupted(s)
      PROVE  TypeOK'
  <2>1. CASE Start(s)
    BY <2>1 DEF Start, TypeOK
  <2>2. CASE StartBindThrows(s) \/ ProxyEnds(s) \/ ProxyInterrupted(s)
    BY <2>2 DEF StartBindThrows, ProxyEnds, ProxyInterrupted, bindVars, TypeOK
  <2> QED
    BY <1>3, <2>1, <2>2
<1>4. ASSUME NEW s \in Server, StartBinds(s)
      PROVE  TypeOK'
  <2>1. pos[s] \in 1 .. Len(ToBind(s))
    BY <1>4, Binds DEF StartBinds, Binding, TypeOK
  <2>2. PICK a \in Address : a = ToBind(s)[pos[s]]
    BY <2>1, Binds
  <2>3. held' = [held EXCEPT ![a] = s] /\ held' \in [Address -> Server \cup {Nobody}]
    BY <1>4, <2>2 DEF StartBinds, TypeOK
  <2>4. pos' \in [Server -> Nat \ {0}]
    BY <1>4 DEF StartBinds, TypeOK
  <2> QED
    BY <1>4, <2>3, <2>4 DEF StartBinds, runVars, TypeOK
<1>5. ASSUME NEW s \in Server, StartSpawns(s)
      PROVE  TypeOK'
  BY <1>5 DEF StartSpawns, bindVars, TypeOK
<1>6. ASSUME NEW s \in Server, Close(s)
      PROVE  TypeOK'
  BY <1>6 DEF Close, CloseGoto, Misuse, Misuses, TypeOK
<1>7. ASSUME NEW s \in Server, CloseUnbinds(s)
      PROVE  TypeOK'
  <2>1. pos[s] \in 1 .. Len(rpc_bind_vec[s])
    BY <1>7, Binds DEF CloseUnbinds, Unbinding, TypeOK
  <2>2. PICK a \in Address : a = Endpoint(s)
    BY <2>1, Binds DEF Endpoint, Address
  <2>3. held' \in [Address -> Server \cup {Nobody}]
    BY <1>7, <2>2 DEF CloseUnbinds, TypeOK
  <2>4. pos' \in [Server -> Nat \ {0}]
    BY <1>7 DEF CloseUnbinds, TypeOK
  <2> QED
    BY <1>7, <2>3, <2>4 DEF CloseUnbinds, runVars, TypeOK
<1>8. ASSUME NEW s \in Server,
             CloseThrows(s) \/ CloseUnbound(s) \/ CloseStops(s)
      PROVE  TypeOK'
  BY <1>8 DEF CloseThrows, CloseUnbound, CloseStops, CloseGoto, bindVars, TypeOK
<1>9. ASSUME NEW s \in Server, CloseSockets(s) \/ Destroyed(s)
      PROVE  TypeOK'
  BY <1>9 DEF CloseSockets, Destroyed, CloseGoto, bindVars, TypeOK
<1>10. CASE CloseContext \/ ContextCloses
  BY <1>10 DEF CloseContext, ContextCloses, Misuse, Misuses, bindVars, runVars,
     TypeOK
<1> QED
  BY <1>1, <1>2, <1>3, <1>4, <1>5, <1>6, <1>7, <1>8, <1>9, <1>10
  DEF Next, StartStep, CloseStep

LEMMA TypeInit == Init => TypeOK
<1> SUFFICES ASSUME Init
             PROVE  TypeOK
  OBVIOUS
<1>1. <<>> \in Seq(Url)
  BY EmptySeq
<1>2. held = [a \in Address |-> Nobody] /\ pos = [s \in Server |-> 1]
  BY DEF Init
<1>3. /\ held \in [Address -> Server \cup {Nobody}]
      /\ pos \in [Server -> Nat \ {0}]
  BY <1>2
<1>4. rpc_bind_vec \in [Server -> Seq(Url)]
  BY <1>1 DEF Init
<1> QED
  BY <1>3, <1>4 DEF Init, TypeOK

(* The servers' state keeps its type in every order of calls: the loops of *)
(* Start and Close stay within rpc_bind_vec_, also when EndPoint is called *)
(* between them.                                                           *)
THEOREM TypeCorrect == Spec => []TypeOK
  BY TypeInit, TypeStep, PTL DEF Spec

-----------------------------------------------------------------------------
(* A server's workers and its inproc addresses.                            *)

Provided == misuse \cap {"close", "context"} = {}

AtHome(s) == sockets[s] = "open" /\ \A j \in 1 .. 3 : held[Inprocs(s)[j]] = s

(* What Start has bound already is the server's, and a server that has     *)
(* started or still has workers keeps it.                                  *)
Homely(s) ==
  /\ s \notin alive => startPc[s] = "idle" /\ closePc[s] = "idle" /\ ~started[s]
  /\ startPc[s] = "bind" =>
       /\ closePc[s] = "idle"
       /\ pos[s] > 1 => sockets[s] = "open"
       /\ \A j \in 1 .. 3 : pos[s] > Len(rpc_bind_vec[s]) + j =>
                              held[Inprocs(s)[j]] = s
  /\ workers[s] = "running" => started[s] \/ closePc[s] = "stop"
  /\ closePc[s] \in {"stop", "sockets"} => ~started[s]
  /\ closePc[s] = "unbind" => started[s]
  /\ started[s] \/ closePc[s] = "stop" => AtHome(s)

HomeInv ==
  Provided => /\ context # "open" => alive = {}
              /\ \A s \in Server : Homely(s)

(* Nobody takes an address that another server holds.                      *)
LEMMA OthersKeep ==
  ASSUME TypeOK, NEW s \in Server, NEW t \in Server, s # t,
         StartBinds(t) \/ CloseUnbinds(t) \/ CloseSockets(t)
  PROVE  \A a \in Address : held[a] = s => held'[a] = s
<1>0. s # Nobody
  BY SetupAssumption
<1>1. CASE StartBinds(t)
  BY <1>0, <1>1 DEF StartBinds, CanBind, TypeOK
<1>2. CASE CloseUnbinds(t)
  BY <1>2 DEF CloseUnbinds, CanUnbind, TypeOK
<1>3. CASE CloseSockets(t)
  BY <1>3 DEF CloseSockets
<1> QED
  BY <1>1, <1>2, <1>3

(* A step of another server leaves a server as it is.                      *)
LEMMA OthersStep ==
  ASSUME TypeOK, NEW s \in Server, NEW t \in Server, s # t,
         \/ \E url \in Url : EndPoint(t, url)
         \/ Start(t) \/ StartStep(t) \/ ProxyInterrupted(t)
         \/ Close(t) \/ CloseStep(t) \/ Destroyed(t)
  PROVE  /\ startPc'[s] = startPc[s] /\ closePc'[s] = closePc[s]
         /\ pos'[s] = pos[s] /\ started'[s] = started[s]
         /\ sockets'[s] = sockets[s] /\ workers'[s] = workers[s]
         /\ rpc_bind_vec'[s] = rpc_bind_vec[s]
         /\ \A a \in Address : held[a] = s => held'[a] = s
         /\ s \in alive' <=> s \in alive
<1>1. /\ startPc'[s] = startPc[s] /\ closePc'[s] = closePc[s]
      /\ pos'[s] = pos[s] /\ started'[s] = started[s]
  BY DEF TypeOK, EndPoint, Start, StartStep, StartBinds, StartBindThrows,
     StartSpawns, ProxyEnds, ProxyInterrupted, Close, CloseStep, CloseUnbinds,
     CloseThrows, CloseUnbound, CloseStops, CloseSockets, CloseGoto, Destroyed,
     bindVars, runVars
<1>2. /\ sockets'[s] = sockets[s] /\ workers'[s] = workers[s]
      /\ rpc_bind_vec'[s] = rpc_bind_vec[s]
      /\ s \in alive' <=> s \in alive
  BY DEF TypeOK, EndPoint, Start, StartStep, StartBinds, StartBindThrows,
     StartSpawns, ProxyEnds, ProxyInterrupted, Close, CloseStep, CloseUnbinds,
     CloseThrows, CloseUnbound, CloseStops, CloseSockets, CloseGoto, Destroyed,
     bindVars, runVars
<1>3. UNCHANGED held \/ StartBinds(t) \/ CloseUnbinds(t) \/ CloseSockets(t)
  BY DEF EndPoint, Start, StartStep, StartBindThrows,
     StartSpawns, ProxyEnds, ProxyInterrupted, Close, CloseStep,
     CloseThrows, CloseUnbound, CloseStops, Destroyed, bindVars
<1> QED
  BY <1>1, <1>2, <1>3, OthersKeep

LEMMA InprocsKnown ==
  ASSUME NEW s \in Server, NEW j \in 1 .. 3
  PROVE  Inprocs(s)[j] \in Address /\ Inprocs(s)[j] \notin Tcp
         /\ Inprocs(s)[j] \in OwnInprocs(s)
  BY SetupAssumption DEF OwnInprocs, Address

LEMMA MisusesStay == [Next]_vars => misuse \subseteq misuse' /\ alive' \subseteq alive
  BY DEF Next, vars, EndPoint, Start, StartStep, StartBinds, StartBindThrows,
     StartSpawns, ProxyEnds, ProxyInterrupted, Close, CloseStep, CloseUnbinds,
     CloseThrows, CloseUnbound, CloseStops, CloseSockets, Destroyed,
     CloseContext, ContextCloses, Misuse, bindVars, runVars

(* The steps of a server itself.                                           *)
LEMMA OwnStart ==
  ASSUME TypeOK, NEW s \in Server, Homely(s), Provided', Provided,
         \/ \E url \in Url : EndPoint(s, url)
         \/ Start(s) \/ StartStep(s) \/ ProxyInterrupted(s)
  PROVE  Homely(s)'
<1>0. /\ pos[s] \in Nat \ {0} /\ Len(rpc_bind_vec[s]) \in Nat
      /\ started \in [Server -> BOOLEAN] /\ pos \in [Server -> Nat \ {0}]
      /\ startPc \in [Server -> StartPoint] /\ workers \in [Server -> WorkPoint]
      /\ held \in [Address -> Server \cup {Nobody}]
      /\ rpc_bind_vec \in [Server -> Seq(Url)]
  BY Binds DEF TypeOK, StartPoint, WorkPoint
<1>1. ASSUME NEW url \in Url, EndPoint(s, url)
      PROVE  Homely(s)'
  BY <1>0, <1>1 DEF EndPoint, Quiet, Homely, AtHome, runVars
<1>2. CASE Start(s)
  BY <1>0, <1>2 DEF Start, Quiet, Homely, AtHome
<1>3. CASE StartBinds(s)
  <2>1. /\ startPc[s] = "bind" /\ sockets[s] = "open" /\ pos'[s] = pos[s] + 1
        /\ pos[s] <= Len(ToBind(s)) /\ held[ToBind(s)[pos[s]]] = Nobody
        /\ held' = [held EXCEPT ![ToBind(s)[pos[s]]] = s]
        /\ UNCHANGED <<sockets, rpc_bind_vec, alive, started, startPc, closePc,
                       workers>>
    BY <1>0, <1>3 DEF StartBinds, Binding, CanBind, runVars
  <2>2. \A a \in Address : held[a] = s => held'[a] = s
    BY <1>0, <2>1
  <2>3. ASSUME NEW j \in 1 .. 3, pos'[s] > Len(rpc_bind_vec[s]) + j
        PROVE  held'[Inprocs(s)[j]] = s
    <3>1. CASE pos[s] > Len(rpc_bind_vec[s]) + j
      BY <2>1, <2>2, <3>1, InprocsKnown DEF Homely
    <3>2. CASE pos[s] = Len(rpc_bind_vec[s]) + j
      BY <1>0, <2>1, <3>2, Binds, InprocsKnown
    <3> QED
      BY <1>0, <2>1, <2>3, <3>1, <3>2
  <2>4. AtHome(s) => AtHome(s)'
    BY <2>1, <2>2, InprocsKnown DEF AtHome
  <2> QED
    BY <2>1, <2>3, <2>4 DEF Homely
<1>4. CASE StartBindThrows(s) \/ ProxyEnds(s) \/ ProxyInterrupted(s)
  <2>1. /\ startPc'[s] = "idle"
        /\ UNCHANGED <<sockets, held, rpc_bind_vec, pos, alive, started,
                       closePc, workers>>
    BY <1>0, <1>4 DEF StartBindThrows, ProxyEnds, ProxyInterrupted, bindVars
  <2> QED
    BY <2>1 DEF Homely, AtHome
<1>5. CASE StartSpawns(s)
  <2>1. /\ startPc[s] = "bind" /\ pos[s] > Len(ToBind(s))
        /\ started'[s] = TRUE /\ startPc'[s] = "proxy" /\ workers'[s] = "running"
        /\ UNCHANGED <<sockets, held, rpc_bind_vec, pos, alive, closePc>>
    BY <1>0, <1>5 DEF StartSpawns, bindVars
  <2>2. \A j \in 1 .. 3 : pos[s] > Len(rpc_bind_vec[s]) + j /\ pos[s] > 1
    BY <1>0, <2>1, Binds
  <2> QED
    BY <2>1, <2>2 DEF Homely, AtHome
<1> QED
  BY <1>1, <1>2, <1>3, <1>4, <1>5 DEF StartStep

LEMMA OwnClose ==
  ASSUME TypeOK, NEW s \in Server, Homely(s), Provided', Provided,
         context # "open" => alive = {},
         Close(s) \/ CloseStep(s) \/ Destroyed(s)
  PROVE  Homely(s)'
<1>0. /\ started \in [Server -> BOOLEAN] /\ workers \in [Server -> WorkPoint]
      /\ closePc \in [Server -> ClosePoint] /\ sockets \in [Server -> {"open", "closed"}]
      /\ held \in [Address -> Server \cup {Nobody}]
  BY DEF TypeOK, ClosePoint, WorkPoint
<1>1. CASE Close(s)
  <2>1. /\ s \in alive /\ closePc[s] = "idle" /\ startPc[s] # "bind"
        /\ closePc'[s] = IF started[s] THEN "unbind" ELSE "sockets"
        /\ UNCHANGED <<sockets, held, rpc_bind_vec, alive, started, startPc,
                       workers>>
    BY <1>0, <1>1 DEF Close, CloseGoto, Misuse, Provided
  <2> QED
    BY <1>0, <2>1 DEF Homely, AtHome
<1>2. CASE CloseUnbinds(s)
  <2>1. /\ closePc[s] = "unbind" /\ pos[s] <= Len(rpc_bind_vec[s])
        /\ UNCHANGED <<sockets, rpc_bind_vec, alive, started, startPc, closePc,
                       workers>>
        /\ UNCHANGED held \/ (held' = [held EXCEPT ![Endpoint(s)] = Nobody]
                               /\ Endpoint(s) \notin Inproc)
    BY <1>2 DEF CloseUnbinds, Unbinding, runVars
  <2>2. Endpoint(s) \in Url
    BY <2>1, Binds DEF Endpoint, TypeOK
  <2>3. \A j \in 1 .. 3 : held'[Inprocs(s)[j]] = held[Inprocs(s)[j]]
    BY <1>0, <2>1, <2>2, InprocsKnown DEF Url
  <2>4. startPc[s] # "bind"
    BY <2>1 DEF Homely
  <2> QED
    BY <2>1, <2>3, <2>4 DEF Homely, AtHome
<1>3. CASE CloseThrows(s)
  <2>1. s \in alive
    BY <1>3 DEF CloseThrows, Unbinding, Homely
  <2>2. /\ closePc[s] = "unbind" /\ closePc'[s] = "idle"
        /\ UNCHANGED <<sockets, held, rpc_bind_vec, pos, alive, started,
                       startPc, workers>>
    BY <1>0, <1>3, <2>1 DEF CloseThrows, Unbinding, CloseGoto, bindVars
  <2> QED
    BY <2>2 DEF Homely, AtHome
<1>4. CASE CloseUnbound(s)
  <2>1. /\ closePc[s] = "unbind" /\ closePc'[s] = "stop" /\ started'[s] = FALSE
        /\ UNCHANGED <<sockets, held, rpc_bind_vec, pos, alive, startPc, workers>>
    BY <1>0, <1>4 DEF CloseUnbound, CloseGoto, bindVars
  <2> QED
    BY <2>1 DEF Homely, AtHome
<1>5. CASE CloseStops(s)
  <2>1. /\ closePc[s] = "stop" /\ closePc'[s] = "sockets" /\ workers'[s] = "ended"
        /\ UNCHANGED <<sockets, held, rpc_bind_vec, pos, alive, started, startPc>>
    BY <1>0, <1>5 DEF CloseStops, CloseGoto, bindVars
  <2> QED
    BY <2>1 DEF Homely, AtHome
<1>6. CASE CloseSockets(s)
  <2>1. /\ closePc[s] = "sockets" /\ closePc'[s] = "idle"
        /\ UNCHANGED <<rpc_bind_vec, pos, alive, started, startPc, workers>>
    BY <1>0, <1>6 DEF CloseSockets, CloseGoto
  <2> QED
    BY <2>1 DEF Homely, AtHome
<1>7. CASE Destroyed(s)
  BY <1>7 DEF Destroyed, Homely, AtHome, bindVars
<1> QED
  BY <1>1, <1>2, <1>3, <1>4, <1>5, <1>6, <1>7 DEF CloseStep

LEMMA HomeStep == TypeOK /\ HomeInv /\ [Next]_vars => HomeInv'
<1> SUFFICES ASSUME TypeOK, HomeInv, [Next]_vars, Provided'
             PROVE  /\ context' # "open" => alive' = {}
                    /\ \A s \in Server : Homely(s)'
  BY DEF HomeInv
<1>1. Provided /\ alive' \subseteq alive
  BY MisusesStay DEF Provided
<1>2. (context # "open" => alive = {}) /\ \A s \in Server : Homely(s)
  BY <1>1 DEF HomeInv
<1>3. ASSUME UNCHANGED <<bindVars, runVars>>, NEW s \in Server
      PROVE  Homely(s)'
  BY <1>2, <1>3 DEF Homely, AtHome, bindVars, runVars
<1>4. CASE UNCHANGED vars
  BY <1>2, <1>3, <1>4 DEF vars, runVars
<1>5. CASE CloseContext
  <2>1. alive' = {}
    BY <1>5 DEF CloseContext, Misuse, Provided, runVars
  <2> QED
    BY <1>3, <1>5, <2>1 DEF CloseContext
<1>6. CASE ContextCloses
  BY <1>2, <1>3, <1>6 DEF ContextCloses, runVars
<1>7. ASSUME NEW t \in Server, NEW s \in Server,
             \/ \E url \in Url : EndPoint(t, url)
             \/ Start(t) \/ StartStep(t) \/ ProxyInterrupted(t)
             \/ Close(t) \/ CloseStep(t) \/ Destroyed(t)
      PROVE  Homely(s)'
  <2>1. CASE s = t
    BY <1>1, <1>2, <1>7, <2>1, OwnStart, OwnClose
  <2>2. CASE s # t
    <3>1. /\ startPc'[s] = startPc[s] /\ closePc'[s] = closePc[s]
          /\ pos'[s] = pos[s] /\ started'[s] = started[s]
          /\ sockets'[s] = sockets[s] /\ workers'[s] = workers[s]
          /\ rpc_bind_vec'[s] = rpc_bind_vec[s]
          /\ \A a \in Address : held[a] = s => held'[a] = s
          /\ s \in alive' <=> s \in alive
      BY <1>7, <2>2, OthersStep
    <3>2. \A j \in 1 .. 3 : held[Inprocs(s)[j]] = s => held'[Inprocs(s)[j]] = s
      BY <3>1, InprocsKnown
    <3>3. AtHome(s) => AtHome(s)'
      BY <3>1, <3>2 DEF AtHome
    <3>4. Homely(s)
      BY <1>2
    <3> QED
      BY <3>1, <3>2, <3>3, <3>4 DEF Homely
  <2> QED
    BY <2>1, <2>2
<1>8. ASSUME NEW t \in Server,
             \/ \E url \in Url : EndPoint(t, url)
             \/ Start(t) \/ StartStep(t) \/ ProxyInterrupted(t)
             \/ Close(t) \/ CloseStep(t) \/ Destroyed(t)
      PROVE  UNCHANGED context
  BY <1>8 DEF EndPoint, Start, StartStep, StartBinds, StartBindThrows,
     StartSpawns, ProxyEnds, ProxyInterrupted, Close, CloseStep, CloseUnbinds,
     CloseThrows, CloseUnbound, CloseStops, CloseSockets, Destroyed
<1> QED
  BY <1>1, <1>2, <1>4, <1>5, <1>6, <1>7, <1>8 DEF Next

(* The workers of a server are connected to that server and no other's,    *)
(* for any servers with any suffixes: nothing is assumed of them but the   *)
(* order in which the application calls Close and ends the context.        *)
THEOREM StayAtHome == Spec => []WorkersAtHome
<1>1. Init => HomeInv
  BY DEF Init, HomeInv, Homely, AtHome
<1>2. HomeInv => WorkersAtHome
  BY DEF HomeInv, Provided, Homely, AtHome, OwnInprocs, WorkersAtHome
<1> QED
  BY <1>1, <1>2, TypeInit, TypeStep, HomeStep, PTL DEF Spec

-----------------------------------------------------------------------------
(* What Close unbinds.                                                     *)

(* The urls that Start has bound, and that Close has yet to unbind, are    *)
(* the server's, each of them once.                                        *)
Bound(s, j) == held[rpc_bind_vec[s][j]] = s
Once(s, n)  == \A i, j \in 1 .. Len(rpc_bind_vec[s]) :
                 i < j /\ j < n => rpc_bind_vec[s][i] # rpc_bind_vec[s][j]

Owned(s) ==
  /\ startPc[s] = "bind" =>
       /\ Once(s, pos[s])
       /\ \A j \in 1 .. Len(rpc_bind_vec[s]) : j < pos[s] => Bound(s, j)
  /\ started[s] =>
       /\ Once(s, Len(rpc_bind_vec[s]) + 1)
       /\ \A j \in 1 .. Len(rpc_bind_vec[s]) :
            (closePc[s] = "unbind" => j >= pos[s]) => Bound(s, j)

OwnedInv == misuse = {} => \A s \in Server : Owned(s)

(* Under these invariants Close does not throw.                            *)
LEMMA Unbinds ==
  ASSUME TypeOK, NEW s \in Server, Homely(s), Owned(s),
         context # "open" => alive = {}
  PROVE  Unbinding(s) => CanUnbind(s)
<1> SUFFICES ASSUME Unbinding(s)
             PROVE  CanUnbind(s)
  OBVIOUS
<1>1. pos[s] \in 1 .. Len(rpc_bind_vec[s]) /\ pos[s] \in Nat
  BY Binds DEF Unbinding, TypeOK
<1>2. started[s] /\ s \in alive /\ sockets[s] = "open"
  BY DEF Unbinding, Homely, AtHome
<1>3. Bound(s, pos[s])
  BY <1>1, <1>2 DEF Owned
<1> QED
  BY <1>2, <1>3 DEF Bound, CanUnbind, Endpoint

LEMMA OwnedStart ==
  ASSUME TypeOK, NEW s \in Server, Homely(s), Owned(s), misuse' = {},
         \/ \E url \in Url : EndPoint(s, url)
         \/ Start(s) \/ StartStep(s) \/ ProxyInterrupted(s)
  PROVE  Owned(s)'
<1>0. /\ pos[s] \in Nat \ {0} /\ Len(rpc_bind_vec[s]) \in Nat
      /\ started \in [Server -> BOOLEAN] /\ pos \in [Server -> Nat \ {0}]
      /\ startPc \in [Server -> StartPoint]
      /\ held \in [Address -> Server \cup {Nobody}]
      /\ rpc_bind_vec \in [Server -> Seq(Url)]
  BY Binds DEF TypeOK, StartPoint
<1>1. ASSUME NEW url \in Url, EndPoint(s, url)
      PROVE  Owned(s)'
  <2>1. /\ startPc'[s] # "bind" /\ ~started'[s]
    BY <1>1 DEF EndPoint, Quiet, Misuse, runVars
  <2> QED
    BY <2>1 DEF Owned
<1>2. CASE Start(s)
  <2>1. /\ pos'[s] = 1 /\ closePc[s] = "idle"
        /\ UNCHANGED <<held, rpc_bind_vec, started, closePc>>
    BY <1>0, <1>2 DEF Start, Quiet
  <2> QED
    BY <2>1 DEF Owned, Once, Bound
<1>3. CASE StartBinds(s)
  <2>1. /\ startPc[s] = "bind" /\ pos'[s] = pos[s] + 1
        /\ pos[s] \in 1 .. Len(ToBind(s)) /\ held[ToBind(s)[pos[s]]] = Nobody
        /\ held' = [held EXCEPT ![ToBind(s)[pos[s]]] = s]
        /\ UNCHANGED <<rpc_bind_vec, started, startPc, closePc>>
    BY <1>0, <1>3, Binds DEF StartBinds, Binding, CanBind, runVars
  <2>2. ToBind(s)[pos[s]] \in Address /\ s # Nobody
    BY <2>1, Binds, SetupAssumption
  <2>3. \A a \in Address : held[a] = s => held'[a] = s
    BY <1>0, <2>1
  <2>4. \A j \in 1 .. Len(rpc_bind_vec[s]) :
          rpc_bind_vec[s][j] \in Address /\ ToBind(s)[j] = rpc_bind_vec[s][j]
    BY Binds DEF Address
  <2>5. ~started[s]
    <3>1. CASE pos[s] \in 1 .. Len(rpc_bind_vec[s])
      BY <1>0, <2>1, <2>2, <2>4, <3>1 DEF Owned, Homely, Bound
    <3>2. CASE ~(pos[s] \in 1 .. Len(rpc_bind_vec[s]))
      <4>1. PICK j \in 1 .. 3 : pos[s] = Len(rpc_bind_vec[s]) + j
        <5>1. pos[s] - Len(rpc_bind_vec[s]) \in 1 .. 3
          BY <1>0, <2>1, <3>2, Binds
        <5>2. pos[s] = Len(rpc_bind_vec[s]) + (pos[s] - Len(rpc_bind_vec[s]))
          BY <1>0
        <5> QED
          BY <5>1, <5>2
      <4>2. held[Inprocs(s)[j]] = Nobody
        BY <2>1, <4>1, Binds
      <4> QED
        BY <2>2, <4>2 DEF Homely, AtHome
    <3> QED
      BY <3>1, <3>2
  <2>6. \A j \in 1 .. Len(rpc_bind_vec[s]) :
          j < pos[s] + 1 => held'[rpc_bind_vec[s][j]] = s
    <3>1. ASSUME NEW j \in 1 .. Len(rpc_bind_vec[s]), j < pos[s]
          PROVE  held'[rpc_bind_vec[s][j]] = s
      BY <2>1, <2>3, <2>4, <3>1 DEF Owned, Bound
    <3>2. ASSUME pos[s] \in 1 .. Len(rpc_bind_vec[s])
          PROVE  held'[rpc_bind_vec[s][pos[s]]] = s
      BY <1>0, <2>1, <2>2, <2>4, <3>2
    <3> QED
      BY <1>0, <3>1, <3>2
  <2>7. ASSUME NEW i \in 1 .. Len(rpc_bind_vec[s]),
               NEW j \in 1 .. Len(rpc_bind_vec[s]), i < j, j < pos[s] + 1
        PROVE  rpc_bind_vec[s][i] # rpc_bind_vec[s][j]
    <3>1. CASE j < pos[s]
      BY <2>1, <2>7, <3>1 DEF Owned, Once
    <3>2. CASE j = pos[s]
      <4>1. Bound(s, i)
        BY <2>1, <2>7, <3>2 DEF Owned
      <4>2. held[rpc_bind_vec[s][j]] = Nobody
        BY <2>1, <2>4, <3>2
      <4> QED
        BY <2>2, <4>1, <4>2 DEF Bound
    <3> QED
      BY <1>0, <2>7, <3>1, <3>2
  <2>8. ~started'[s] /\ pos'[s] = pos[s] + 1 /\ rpc_bind_vec' = rpc_bind_vec
    BY <2>1, <2>5
  <2>9. Once(s, pos[s])'
    BY <2>7, <2>8 DEF Once
  <2>10. (\A j \in 1 .. Len(rpc_bind_vec[s]) : j < pos[s] => Bound(s, j))'
    BY <2>6, <2>8 DEF Bound
  <2> QED
    BY <2>8, <2>9, <2>10 DEF Owned
<1>4. CASE StartBindThrows(s) \/ ProxyEnds(s) \/ ProxyInterrupted(s)
  <2>1. /\ startPc'[s] = "idle"
        /\ UNCHANGED <<held, rpc_bind_vec, pos, started, closePc>>
    BY <1>0, <1>4 DEF StartBindThrows, ProxyEnds, ProxyInterrupted, bindVars
  <2> QED
    BY <2>1 DEF Owned, Once, Bound
<1>5. CASE StartSpawns(s)
  <2>1. /\ startPc[s] = "bind" /\ pos[s] > Len(ToBind(s))
        /\ started'[s] = TRUE /\ startPc'[s] = "proxy"
        /\ UNCHANGED <<held, rpc_bind_vec, pos, closePc>>
    BY <1>0, <1>5 DEF StartSpawns, bindVars
  <2>2. \A j \in 1 .. Len(rpc_bind_vec[s]) : j < pos[s]
    BY <1>0, <2>1, Binds
  <2> QED
    BY <2>1, <2>2 DEF Owned, Once, Bound
<1> QED
  BY <1>1, <1>2, <1>3, <1>4, <1>5 DEF StartStep

LEMMA OwnedClose ==
  ASSUME TypeOK, NEW s \in Server, Homely(s), Owned(s), misuse' = {},
         context # "open" => alive = {},
         Close(s) \/ CloseStep(s) \/ Destroyed(s)
  PROVE  Owned(s)'
<1>0. /\ pos[s] \in Nat \ {0} /\ Len(rpc_bind_vec[s]) \in Nat
      /\ started \in [Server -> BOOLEAN] /\ pos \in [Server -> Nat \ {0}]
      /\ closePc \in [Server -> ClosePoint]
      /\ held \in [Address -> Server \cup {Nobody}]
  BY Binds DEF TypeOK, ClosePoint
<1>1. CASE Close(s)
  <2>1. /\ startPc[s] # "bind" /\ closePc[s] = "idle"
        /\ started[s] => pos'[s] = 1
        /\ UNCHANGED <<held, rpc_bind_vec, started, startPc>>
    BY <1>0, <1>1 DEF Close, CloseGoto, Misuse
  <2> QED
    BY <1>0, <2>1 DEF Owned, Once, Bound
<1>2. CASE CloseUnbinds(s)
  <2>1. /\ closePc[s] = "unbind" /\ pos'[s] = pos[s] + 1
        /\ pos[s] \in 1 .. Len(rpc_bind_vec[s])
        /\ UNCHANGED <<rpc_bind_vec, started, startPc, closePc>>
        /\ UNCHANGED held
           \/ held' = [held EXCEPT ![rpc_bind_vec[s][pos[s]]] = Nobody]
    BY <1>0, <1>2 DEF CloseUnbinds, Unbinding, Endpoint, runVars
  <2>2. started[s] /\ startPc[s] # "bind"
    BY <2>1 DEF Homely
  <2>3. Once(s, Len(rpc_bind_vec[s]) + 1)
    BY <2>2 DEF Owned
  <2>4. ASSUME NEW j \in 1 .. Len(rpc_bind_vec[s]), j >= pos[s] + 1
        PROVE  held'[rpc_bind_vec[s][j]] = s
    <3>1. held[rpc_bind_vec[s][j]] = s
      BY <1>0, <2>2, <2>4 DEF Owned, Bound
    <3>2. rpc_bind_vec[s][pos[s]] # rpc_bind_vec[s][j]
      BY <1>0, <2>1, <2>3, <2>4 DEF Once
    <3>3. rpc_bind_vec[s][j] \in Address
      BY Binds DEF Address
    <3> QED
      BY <1>0, <2>1, <3>1, <3>2, <3>3
  <2> QED
    BY <2>1, <2>2, <2>3, <2>4 DEF Owned, Once, Bound
<1>3. CASE CloseThrows(s)
  <2>1. s \in alive
    BY <1>3 DEF CloseThrows, Unbinding, Homely
  <2> QED
    BY <1>3, <2>1, Unbinds DEF CloseThrows
<1>4. CASE CloseUnbound(s) \/ CloseSockets(s)
  <2>1. startPc[s] # "bind" /\ startPc'[s] = startPc[s] /\ ~started'[s]
    BY <1>0, <1>4 DEF CloseUnbound, CloseSockets, Homely
  <2> QED
    BY <2>1 DEF Owned
<1>5. CASE CloseStops(s)
  <2>1. /\ closePc[s] = "stop" /\ startPc'[s] = "proxy" /\ ~started'[s]
    BY <1>5 DEF CloseStops, Homely
  <2> QED
    BY <2>1 DEF Owned
<1>6. CASE Destroyed(s)
  BY <1>6 DEF Destroyed, Owned, Once, Bound, bindVars
<1> QED
  BY <1>1, <1>2, <1>3, <1>4, <1>5, <1>6 DEF CloseStep

LEMMA OwnedStep == TypeOK /\ HomeInv /\ OwnedInv /\ [Next]_vars => OwnedInv'
<1> SUFFICES ASSUME TypeOK, HomeInv, OwnedInv, [Next]_vars, misuse' = {},
                    NEW s \in Server
             PROVE  Owned(s)'
  BY DEF OwnedInv
<1>1. misuse = {} /\ Provided
  BY MisusesStay DEF Provided
<1>2. Owned(s) /\ Homely(s) /\ (context # "open" => alive = {})
  BY <1>1 DEF OwnedInv, HomeInv
<1>3. CASE UNCHANGED <<bindVars, runVars>>
  BY <1>2, <1>3 DEF Owned, Once, Bound, bindVars, runVars
<1>4. ASSUME NEW t \in Server,
             \/ \E url \in Url : EndPoint(t, url)
             \/ Start(t) \/ StartStep(t) \/ ProxyInterrupted(t)
             \/ Close(t) \/ CloseStep(t) \/ Destroyed(t)
      PROVE  Owned(s)'
  <2>1. CASE s = t
    BY <1>1, <1>2, <1>4, <2>1, OwnedStart, OwnedClose
  <2>2. CASE s # t
    <3>1. /\ startPc'[s] = startPc[s] /\ closePc'[s] = closePc[s]
          /\ pos'[s] = pos[s] /\ started'[s] = started[s]
          /\ rpc_bind_vec'[s] = rpc_bind_vec[s]
          /\ \A a \in Address : held[a] = s => held'[a] = s
      BY <1>4, <2>2, OthersStep
    <3>2. \A j \in 1 .. Len(rpc_bind_vec[s]) : Bound(s, j) => Bound(s, j)'
      BY <3>1, Binds DEF Bound, Address
    <3>3. \A n : Once(s, n) => \A i, j \in 1 .. Len(rpc_bind_vec'[s]) :
            i < j /\ j < n => rpc_bind_vec'[s][i] # rpc_bind_vec'[s][j]
      BY <3>1 DEF Once
    <3> QED
      BY <1>2, <3>1, <3>2, <3>3 DEF Owned, Once
  <2> QED
    BY <2>1, <2>2
<1> QED
  BY <1>3, <1>4 DEF Next, vars, CloseContext, ContextCloses

(* A server that Close has begun to take down unbinds every url it was     *)
(* given: unbind does not throw and leave the rest undone, whatever fails  *)
(* in Start and however often it is called.                                *)
THEOREM UnbindsItsOwn == Spec => []CloseUnbindsItsOwn
<1>1. Init => HomeInv /\ OwnedInv
  BY DEF Init, HomeInv, Homely, AtHome, OwnedInv, Owned
<1>2. TypeOK /\ HomeInv /\ OwnedInv => CloseUnbindsItsOwn
  <2> SUFFICES ASSUME TypeOK, HomeInv, OwnedInv,
                      misuse \cap {"endpoint", "close", "context"} = {},
                      NEW s \in Server
               PROVE  Unbinding(s) => CanUnbind(s)
    BY DEF CloseUnbindsItsOwn
  <2>1. misuse = {} /\ Provided
    BY DEF TypeOK, Misuses, Provided
  <2> QED
    BY <2>1, Unbinds DEF HomeInv, OwnedInv
<1> QED
  BY <1>1, <1>2, TypeInit, TypeStep, HomeStep, OwnedStep, PTL DEF Spec

=============================================================================
