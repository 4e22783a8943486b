--------------------------- MODULE RpcServerProofs ---------------------------
(***************************************************************************)
(* Proofs about RpcServer, for every number of workers and requests, with  *)
(* every fault and whatever the application takes care of.                 *)
(***************************************************************************)
EXTENDS RpcServer, FiniteSetTheorems, SequenceTheorems, TLAPS

-----------------------------------------------------------------------------
(* Facts about the data.                                                   *)

LEMMA Queue ==
  ASSUME NEW S, NEW s \in Seq(S)
  PROVE  /\ Len(s) \in Nat
         /\ \A k \in 1 .. Len(s) : s[k] \in S
         /\ s # <<>> =>
              /\ Len(s) >= 1 /\ Head(s) = s[1] /\ Head(s) \in S
              /\ Tail(s) \in Seq(S) /\ Len(Tail(s)) = Len(s) - 1
              /\ \A k \in 1 .. Len(s) - 1 : Tail(s)[k] = s[k + 1]
         /\ \A x \in S :
              /\ Append(s, x) \in Seq(S) /\ Len(Append(s, x)) = Len(s) + 1
              /\ \A k \in 1 .. Len(s) : Append(s, x)[k] = s[k]
              /\ Append(s, x)[Len(s) + 1] = x
<1>1. Len(s) \in Nat /\ \A k \in 1 .. Len(s) : s[k] \in S
  BY LenProperties, ElementOfSeq
<1>2. ASSUME s # <<>>
      PROVE  /\ Len(s) >= 1 /\ Head(s) = s[1] /\ Head(s) \in S
             /\ Tail(s) \in Seq(S) /\ Len(Tail(s)) = Len(s) - 1
             /\ \A k \in 1 .. Len(s) - 1 : Tail(s)[k] = s[k + 1]
  <2>1. Len(s) >= 1
    BY <1>2, <1>1, EmptySeq
  <2> QED
    BY <1>1, <1>2, <2>1, HeadTailProperties
<1>3. ASSUME NEW x \in S
      PROVE  /\ Append(s, x) \in Seq(S) /\ Len(Append(s, x)) = Len(s) + 1
             /\ \A k \in 1 .. Len(s) : Append(s, x)[k] = s[k]
             /\ Append(s, x)[Len(s) + 1] = x
  BY AppendProperties
<1> QED
  BY <1>1, <1>2, <1>3

-----------------------------------------------------------------------------
(* Type correctness.                                                       *)

(* TypeOK alone is not inductive: a turn of an empty load balancer is the  *)
(* first one, and a worker at work has a request at hand.                  *)
TypeInv ==
  /\ TypeOK
  /\ lb = <<>> => cur = 0
  /\ \A w \in Worker : wpc[w] \in {"work", "reply"} => job[w] \in Request

LEMMA TypeInit == Init => TypeInv
<1> SUFFICES ASSUME Init
             PROVE  TypeInv
  OBVIOUS
<1>1. /\ <<>> \in Seq(Worker) /\ <<>> \in Seq(Message) /\ <<>> \in Seq(Reply)
      /\ TERMINATE \in Message /\ ZEC_SUCCESS \in ErrorCodeE
  BY EmptySeq DEF Message, ErrorCodeE, ZEC_SUCCESS
<1>2. TypeOK
  BY <1>1 DEF Init, TypeOK
<1> QED
  BY <1>2 DEF Init, TypeInv

LEMMA Numbers ==
  /\ Request \subseteq Nat \ {0} /\ Request \subseteq Message
  /\ TERMINATE \in Message /\ TERMINATE \notin Request
  /\ {ZEC_SUCCESS, ZEC_NOSUCHMETHOD, ZEC_METHODNOTIMPLEMENTED,
      ZEC_DATACORRUPTED} \subseteq ErrorCodeE
  /\ ZEC_SUCCESS # ZEC_NOSUCHMETHOD
BY DEF Request, Message, TERMINATE, ErrorCodeE, ZEC_SUCCESS, ZEC_NOSUCHMETHOD,
       ZEC_METHODNOTIMPLEMENTED, ZEC_DATACORRUPTED

(* Whose turn it is.                                                       *)
LEMMA Turn ==
  ASSUME TypeInv, lb # <<>>
  PROVE  /\ Len(lb) \in Nat \ {0} /\ cur + 1 \in 1 .. Len(lb)
         /\ lb[cur + 1] \in Worker
         /\ (cur + 1) % Len(lb) \in 0 .. Len(lb) - 1
<1>1. lb \in Seq(Worker) /\ cur \in Nat /\ cur < Len(lb)
  BY DEF TypeInv, TypeOK
<1>2. Len(lb) \in Nat \ {0} /\ cur + 1 \in 1 .. Len(lb)
  BY <1>1, Queue
<1>3. lb[cur + 1] \in Worker
  BY <1>1, <1>2, Queue
<1>4. (cur + 1) % Len(lb) \in 0 .. Len(lb) - 1
  BY <1>1, <1>2
<1> QED
  BY <1>2, <1>3, <1>4

(* A message given to a worker ends its pipe, or is lost.                  *)
LEMMA Given ==
  ASSUME TypeInv, NEW m \in Message, GiveToWorker(m)
  PROVE  /\ pipe' \in [Worker -> Seq(Message)] /\ cur' \in Nat /\ lb' = lb
         /\ lb # <<>> /\ cur' < Len(lb)
         /\ \E w \in Worker :
              /\ pipe'[w] = IF wpc[w] = "gone" THEN pipe[w]
                            ELSE Append(pipe[w], m)
              /\ \A v \in Worker \ {w} : pipe'[v] = pipe[v]
<1>1. lb # <<>>
  BY DEF GiveToWorker
<1> DEFINE w == lb[cur + 1]
<1>2. /\ w \in Worker /\ Len(lb) \in Nat \ {0}
      /\ (cur + 1) % Len(lb) \in 0 .. Len(lb) - 1
  BY <1>1, Turn
<1>3. /\ pipe' = [pipe EXCEPT ![w] = IF wpc[w] = "gone" THEN @
                                     ELSE Append(@, m)]
      /\ cur' = (cur + 1) % Len(lb) /\ lb' = lb
  BY DEF GiveToWorker
<1> HIDE DEF w
<1>4. pipe \in [Worker -> Seq(Message)]
  BY DEF TypeInv, TypeOK
<1>5. Append(pipe[w], m) \in Seq(Message)
  BY <1>2, <1>4, Queue
<1>6. pipe' \in [Worker -> Seq(Message)]
  BY <1>2, <1>3, <1>4, <1>5
<1>7. /\ pipe'[w] = IF wpc[w] = "gone" THEN pipe[w] ELSE Append(pipe[w], m)
      /\ \A v \in Worker \ {w} : pipe'[v] = pipe[v]
  BY <1>2, <1>3, <1>4
<1>8. cur' \in Nat /\ cur' < Len(lb)
  BY <1>2, <1>3
<1> QED
  BY <1>1, <1>2, <1>3, <1>6, <1>7, <1>8

(* A load balancer that loses a pipe.                                      *)
LEMMA Balancer ==
  ASSUME TypeInv, NEW w \in Worker, NoticeGone(w)
  PROVE  /\ lb' \in Seq(Worker) /\ cur' \in Nat
         /\ lb' # <<>> => cur' < Len(lb')
         /\ lb' = <<>> => cur' = 0
<1>1. PICK k \in 1 .. Len(lb) :
        /\ lb' = [j \in 1 .. Len(lb) - 1 |-> IF j = k THEN lb[Len(lb)]
                                             ELSE lb[j]]
        /\ cur' = IF cur = Len(lb) - 1 THEN 0 ELSE cur
  BY DEF NoticeGone
<1>2. /\ lb \in Seq(Worker) /\ cur \in Nat /\ Len(lb) \in Nat
      /\ lb # <<>> => cur < Len(lb)
      /\ \A j \in 1 .. Len(lb) : lb[j] \in Worker
  BY Queue DEF TypeInv, TypeOK
<1>3. Len(lb) >= 1 /\ lb # <<>>
  BY <1>1, <1>2, EmptySeq
<1>4. \A j \in 1 .. Len(lb) - 1 : lb'[j] \in Worker
  BY <1>1, <1>2, <1>3
<1>5. lb' \in [1 .. Len(lb) - 1 -> Worker] /\ Len(lb) - 1 \in Nat
  BY <1>1, <1>2, <1>3, <1>4
<1>6. lb' \in Seq(Worker) /\ Len(lb') = Len(lb) - 1
  <2>1. lb' \in Seq(Worker)
    BY <1>5, SeqDef
  <2>2. DOMAIN lb' = 1 .. Len(lb) - 1 /\ DOMAIN lb' = 1 .. Len(lb') /\ Len(lb') \in Nat
    BY <1>5, <2>1, LenProperties
  <2> QED
    BY <1>5, <2>1, <2>2
<1>7. lb' = <<>> <=> Len(lb) = 1
  BY <1>2, <1>6, EmptySeq
<1>8. /\ cur' \in Nat
      /\ Len(lb) = 1 => cur' = 0
      /\ Len(lb) # 1 => cur' < Len(lb) - 1
  <2>1. PICK n \in Nat : n = Len(lb)
    BY <1>2
  <2>2. cur \in Nat /\ cur <= n - 1 /\ n >= 1
    BY <1>2, <1>3, <2>1
  <2>3. /\ cur = n - 1 => cur' = 0
        /\ cur # n - 1 => cur' = cur
    BY <1>1, <2>1
  <2> QED
    BY <2>1, <2>2, <2>3
<1> QED
  BY <1>6, <1>7, <1>8

(* The steps of Start and of the proxy keep TypeInv, ...                   *)
LEMMA TypeStartStep ==
  ASSUME TypeInv,
         \/ StartStep \/ StartBindFails \/ ProxyTerminates \/ ProxyFails
         \/ ClientSends
  PROVE  TypeInv'
<1>1. CASE StartBinds \/ StartBindFails \/ ProxyStart \/ ProxyFails
  BY <1>1 DEF StartBinds, StartBindFails, ProxyStart, ProxyFails, TypeInv,
     TypeOK, closeVars, frontVars, backVars, workerVars, history
<1>2. ASSUME NEW w \in Worker, StartSpawns(w)
      PROVE  TypeInv'
  BY <1>2 DEF StartSpawns, TypeInv, TypeOK, closeVars, frontVars, backVars,
     history
<1>3. CASE ProxyTerminates
  BY <1>3 DEF ProxyTerminates, TypeInv, TypeOK, closeVars, frontVars, backVars,
     workerVars, history
<1>4. CASE ClientSends
  <2>1. sent + 1 \in Request
    BY <1>4, ServerAssumption DEF ClientSends, TypeInv, TypeOK, Request
  <2> QED
    BY <1>4, <2>1 DEF ClientSends, TypeInv, TypeOK, startVars, closeVars,
       backVars, workerVars, history
<1> QED
  BY <1>1, <1>2, <1>3, <1>4 DEF StartStep

LEMMA TypeProxyStep ==
  ASSUME TypeInv,
         \/ ProxyForwardsStop \/ \E i \in Request : ProxyForwardsRequest(i)
         \/ \E w \in Worker : ProxyForwardsReply(w) \/ NoticeGone(w)
  PROVE  TypeInv'
<1>1. ASSUME NEW i \in Request, ProxyForwardsRequest(i)
      PROVE  TypeInv'
  <2>1. i \in Message /\ GiveToWorker(i)
    BY <1>1, Numbers DEF ProxyForwardsRequest
  <2>2. /\ pipe' \in [Worker -> Seq(Message)] /\ cur' \in Nat /\ lb' = lb
        /\ lb # <<>> /\ cur' < Len(lb)
    BY <2>1, Given
  <2> QED
    BY <1>1, <2>2 DEF ProxyForwardsRequest, TypeInv, TypeOK, startVars,
       closeVars, workerVars, history
<1>2. CASE ProxyForwardsStop
  <2>1. TERMINATE \in Message /\ GiveToWorker(TERMINATE)
    BY <1>2, Numbers DEF ProxyForwardsStop
  <2>2. /\ pipe' \in [Worker -> Seq(Message)] /\ cur' \in Nat /\ lb' = lb
        /\ lb # <<>> /\ cur' < Len(lb)
    BY <2>1, Given
  <2> QED
    BY <1>2, <2>2 DEF ProxyForwardsStop, TypeInv, TypeOK, startVars,
       closeVars, workerVars, history
<1>3. ASSUME NEW w \in Worker, ProxyForwardsReply(w)
      PROVE  TypeInv'
  <2>1. replyq[w] \in Seq(Reply) /\ replyq[w] # <<>>
    BY <1>3 DEF ProxyForwardsReply, TypeInv, TypeOK
  <2>2. Tail(replyq[w]) \in Seq(Reply) /\ Head(replyq[w]) \in Reply
    BY <2>1, Queue
  <2>3. Head(replyq[w]).id \in Request
    BY <2>2 DEF Reply
  <2>4. replyq' \in [Worker -> Seq(Reply)] /\ answered' \in [Request -> Nat]
    BY <1>3, <2>2, <2>3 DEF ProxyForwardsReply, TypeInv, TypeOK
  <2> QED
    BY <1>3, <2>4 DEF ProxyForwardsReply, TypeInv, TypeOK, startVars,
       closeVars, frontVars, backVars, workerVars
<1>4. ASSUME NEW w \in Worker, NoticeGone(w)
      PROVE  TypeInv'
  BY <1>4, Balancer DEF NoticeGone, TypeInv, TypeOK, startVars, closeVars,
     frontVars, workerVars, history
<1> QED
  BY <1>1, <1>2, <1>3, <1>4

(* ... and so do the workers' ...                                          *)
LEMMA TypeWorkerStep ==
  ASSUME TypeInv, NEW w \in Worker,
         \/ WorkerStep(w) \/ CallAbandoned(w) \/ ServiceThrows(w)
         \/ WorkerSendFails(w)
  PROVE  TypeInv'
<1> USE Numbers
<1>0. /\ pipe[w] \in Seq(Message) /\ replyq[w] \in Seq(Reply)
      /\ lb \in Seq(Worker)
      /\ result \in [Worker -> ErrorCodeE] /\ executed \in [Request -> Nat]
      /\ wpc[w] \in {"work", "reply"} => job[w] \in Request
  BY DEF TypeInv, TypeOK
<1>1. CASE WorkerConnects(w)
  <2>1. /\ lb' = Append(lb, w) /\ lb' \in Seq(Worker)
        /\ Len(lb') = Len(lb) + 1 /\ Len(lb) \in Nat /\ lb' # <<>>
    BY <1>0, <1>1, Queue, AppendProperties DEF WorkerConnects
  <2>2. cur < Len(lb')
    BY <2>1 DEF TypeInv, TypeOK
  <2> QED
    BY <1>1, <2>1, <2>2 DEF WorkerConnects, Goto, TypeInv, TypeOK, startVars,
       closeVars, frontVars, history
<1>2. CASE WorkerReceives(w)
  <2>1. Head(pipe[w]) \in Message /\ Tail(pipe[w]) \in Seq(Message)
    BY <1>0, <1>2, Queue DEF WorkerReceives
  <2>2. Head(pipe[w]) # TERMINATE => Head(pipe[w]) \in Request
    BY <2>1 DEF Message
  <2> QED
    BY <1>2, <2>1, <2>2 DEF WorkerReceives, Goto, TypeInv, TypeOK, startVars,
       closeVars, frontVars, history
<1>3. CASE WorkerDiscards(w) \/ WorkerSendFails(w)
  BY <1>3 DEF WorkerDiscards, WorkerSendFails, Goto, TypeInv, TypeOK, startVars,
     closeVars, frontVars, backVars
<1>4. CASE WorkerRejects(w) \/ WorkerCalls(w)
  <2>1. \E code \in ErrorCodeE : result' = [result EXCEPT ![w] = code]
    BY <1>4 DEF WorkerRejects, WorkerCalls, ZError
  <2>2. /\ result' \in [Worker -> ErrorCodeE]
        /\ executed' \in [Request -> Nat]
    <3>1. \/ executed' = executed
          \/ executed' = [executed EXCEPT ![job[w]] = @ + 1]
      BY <1>4 DEF WorkerRejects, WorkerCalls, history
    <3> QED
      BY <1>0, <2>1, <3>1
  <2>3. wpc' = [wpc EXCEPT ![w] = "reply"]
    BY <1>4 DEF WorkerRejects, WorkerCalls, ZError, Goto
  <2>4. \A v \in Worker : wpc'[v] \in {"work", "reply"} => job[v] \in Request
    BY <1>4, <2>3 DEF WorkerRejects, WorkerCalls, TypeInv, TypeOK
  <2> QED
    BY <1>4, <2>2, <2>3, <2>4 DEF WorkerRejects, WorkerCalls, TypeInv,
       TypeOK, startVars, closeVars, frontVars, backVars, history
<1>6. CASE CallAbandoned(w) \/ ServiceThrows(w)
  <2>1. executed' \in [Request -> Nat]
    <3>1. executed' = [executed EXCEPT ![job[w]] = @ + 1] /\ wpc[w] = "work"
      BY <1>6 DEF CallAbandoned, ServiceThrows
    <3>2. PICK i \in Request : i = job[w]
      BY <1>0, <3>1
    <3>3. executed \in [Request -> Nat] /\ executed[i] \in Nat
      BY <1>0
    <3>4. executed[i] + 1 \in Nat
      BY <3>3
    <3>5. executed' = [executed EXCEPT ![i] = executed[i] + 1]
      BY <3>1, <3>2
    <3> QED
      BY <3>3, <3>4, <3>5
  <2>2. CASE CallAbandoned(w)
    BY <2>1, <2>2 DEF CallAbandoned, Goto, TypeInv, TypeOK, startVars, closeVars,
       frontVars, backVars
  <2>3. CASE ServiceThrows(w)
    BY <2>1, <2>3 DEF ServiceThrows, Crash, TypeInv, TypeOK, frontVars, backVars
  <2> QED
    BY <1>6, <2>2, <2>3
<1>7. CASE WorkerReplies(w)
  <2>1. [id |-> job[w], code |-> result[w]] \in Reply
    BY <1>7 DEF WorkerReplies, TypeInv, TypeOK, Reply
  <2>2. replyq' \in [Worker -> Seq(Reply)]
    BY <1>0, <1>7, <2>1, Queue DEF WorkerReplies, TypeInv, TypeOK
  <2> QED
    BY <1>7, <2>2 DEF WorkerReplies, Goto, TypeInv, TypeOK, startVars, closeVars,
       frontVars, backVars, history
<1>8. CASE WorkerLeaves(w)
  <2>1. <<>> \in Seq(Message)
    BY EmptySeq
  <2> QED
    BY <1>8, <2>1 DEF WorkerLeaves, Goto, TypeInv, TypeOK, startVars, closeVars,
       frontVars, history
<1> QED
  BY <1>1, <1>2, <1>3, <1>4, <1>6, <1>7, <1>8 DEF WorkerStep

(* ... and those of Close.                                                 *)
LEMMA TypeCloseStep ==
  ASSUME TypeInv, NEW p \in Closer,
         CloseBegins(p) \/ CloseStep(p) \/ CloseUnbindThrows(p)
  PROVE  TypeInv'
<1>1. CASE CloseBegins(p) \/ CloseUnbinds(p) \/ CloseJoins(p) \/ ProxyStop(p)
  <2>1. \E l \in {"unbind", "wstop", "pstop", "sockets"} : CloseGoto(p, l)
    BY <1>1 DEF CloseBegins, CloseUnbinds, CloseJoins, ProxyStop
  <2>2. closePc' \in [Closer -> {"none", "unbind", "wstop", "join", "pstop",
                                 "sockets", "done", "threw", "crashed"}]
    BY <2>1 DEF CloseGoto, TypeInv, TypeOK
  <2>3. /\ started' \in BOOLEAN /\ bound' \in BOOLEAN /\ control' \in Nat
        /\ UNCHANGED <<startPc, threads, sockets, frontVars, backVars,
                       workerVars, replyq, history>>
    <3>1. started \in BOOLEAN /\ bound \in BOOLEAN /\ control \in Nat
      BY DEF TypeInv, TypeOK
    <3>2. CASE CloseBegins(p) \/ CloseJoins(p)
      BY <3>1, <3>2 DEF CloseBegins, CloseJoins, startVars
    <3>3. CASE CloseUnbinds(p)
      <4>1. bound' \in BOOLEAN /\ started' \in BOOLEAN
        BY <3>3, Zenon DEF CloseUnbinds
      <4> QED
        BY <3>1, <3>3, <4>1 DEF CloseUnbinds
    <3>4. CASE ProxyStop(p)
      BY <3>1, <3>4 DEF ProxyStop, startVars
    <3> QED
      BY <1>1, <3>2, <3>3, <3>4
  <2> QED
    BY <2>2, <2>3 DEF TypeInv, TypeOK, frontVars, backVars, workerVars, history
<1>2. CASE WorkerStop(p)
  <2>1. Cardinality(threads) \in Nat
    BY ServerAssumption, FS_Subset, FS_CardinalityType DEF TypeInv, TypeOK
  <2> QED
    BY <1>2, <2>1 DEF WorkerStop, CloseGoto, TypeInv, TypeOK, startVars,
       backVars, workerVars, history
<1>3. CASE CloseUnbindThrows(p) \/ CloseSockets(p)
  BY <1>3 DEF CloseUnbindThrows, CloseSockets, CloseGoto, Crash, TypeInv,
     TypeOK, startVars, frontVars, backVars, workerVars, history
<1> QED
  BY <1>1, <1>2, <1>3 DEF CloseStep

LEMMA TypeStep == TypeInv /\ [Next]_vars => TypeInv'
<1> SUFFICES ASSUME TypeInv, [Next]_vars
             PROVE  TypeInv'
  OBVIOUS
<1>1. CASE UNCHANGED vars
  BY <1>1 DEF vars, startVars, closeVars, frontVars, backVars, workerVars,
     history, TypeInv, TypeOK
<1> QED
  BY <1>1, TypeStartStep, TypeProxyStep, TypeWorkerStep, TypeCloseStep DEF Next

(* The server's state keeps its type, with any number of workers: the load *)
(* balancer's turn stays within its pipes also when one of them goes, and  *)
(* no worker works on a TERMINATE.                                         *)
THEOREM TypeCorrect == Spec => []TypeOK
<1>1. TypeInv => TypeOK
  BY DEF TypeInv
<1> QED
  BY <1>1, TypeInit, TypeStep, PTL DEF Spec

-----------------------------------------------------------------------------
(* Close and the workers.                                                  *)

ClosePoint  == {"none", "unbind", "wstop", "join", "pstop", "sockets", "done",
                "threw", "crashed"}
WorkerPoint == {"none", "connecting", "recv", "work", "reply", "leaving",
                "gone", "crashed"}

AllGone == \A w \in threads : wpc[w] \in {"gone", "crashed"}

(* The destructor comes after the Close that stops the server, which comes *)
(* while the proxy runs; whoever has joined the workers found them gone.   *)
CloseInv ==
  /\ startPc \in {"new", "spawn"} =>
       sockets = "open" /\ closePc["stop"] = "none" /\ closePc["dtor"] = "none"
  /\ startPc = "new" => threads = {}
  /\ startPc \in {"spawn", "proxy"} /\ closePc["stop"] = "none" => started
  /\ closePc["dtor"] \notin {"none", "crashed"} => closePc["stop"] = "done"
  /\ \A p \in Closer : closePc[p] \in {"pstop", "sockets", "done"} => AllGone
  /\ sockets = "closed" => AllGone

LEMMA CloseInit == Init => CloseInv
BY DEF Init, CloseInv, AllGone, Closer

(* A worker that is gone stays gone.                                       *)
LEMMA GoneStays ==
  ASSUME TypeInv, AllGone, UNCHANGED threads, [Next]_vars
  PROVE  AllGone'
<1>1. threads \subseteq Worker /\ wpc \in [Worker -> WorkerPoint]
  BY DEF TypeInv, TypeOK, WorkerPoint
<1>2. ASSUME NEW w \in Worker, NEW l, Goto(w, l),
             w \notin threads \/ wpc[w] \notin {"gone", "crashed"}
      PROVE  AllGone'
  BY <1>1, <1>2 DEF AllGone, Goto
<1>3. ASSUME UNCHANGED wpc
      PROVE  AllGone'
  BY <1>3 DEF AllGone
<1>4. ASSUME Crash
      PROVE  AllGone'
  BY <1>1, <1>4 DEF AllGone, Crash
<1>5. ASSUME NEW w \in Worker,
             \/ WorkerStep(w) \/ CallAbandoned(w) \/ ServiceThrows(w)
             \/ WorkerSendFails(w)
      PROVE  AllGone'
  BY <1>2, <1>4, <1>5 DEF WorkerStep, WorkerConnects, WorkerReceives,
     WorkerDiscards, WorkerRejects, WorkerCalls, ZError, WorkerReplies,
     WorkerLeaves, CallAbandoned, ServiceThrows, WorkerSendFails
<1>6. ASSUME NEW w \in Worker, ProxyForwardsReply(w) \/ NoticeGone(w)
      PROVE  AllGone'
  BY <1>3, <1>6 DEF ProxyForwardsReply, NoticeGone, workerVars
<1>7. ASSUME NEW p \in Closer,
             CloseBegins(p) \/ CloseStep(p) \/ CloseUnbindThrows(p)
      PROVE  AllGone'
  BY <1>3, <1>4, <1>7 DEF CloseBegins, CloseStep, CloseUnbindThrows,
     CloseUnbinds, WorkerStop, CloseJoins, ProxyStop, CloseSockets, workerVars
<1>8. ASSUME NEW w \in Worker, StartSpawns(w)
      PROVE  AllGone'
  BY <1>8 DEF StartSpawns
<1>9. CASE \/ StartBinds \/ ProxyStart \/ StartBindFails \/ ProxyForwardsStop
           \/ ProxyTerminates \/ ProxyFails \/ ClientSends \/ UNCHANGED vars
           \/ \E i \in Request : ProxyForwardsRequest(i)
  BY <1>3, <1>9 DEF StartBinds, ProxyStart, StartBindFails, ProxyForwardsStop,
     ProxyTerminates, ProxyFails, ClientSends, ProxyForwardsRequest, vars,
     workerVars
<1> QED
  BY <1>5, <1>6, <1>7, <1>8, <1>9 DEF Next, StartStep

(* Every step keeps CloseInv: those of Close, ...                          *)
LEMMA CloseInvClose ==
  ASSUME {"serving", "wait"} \subseteq Caution, TypeInv, CloseInv,
         NEW p \in Closer,
         CloseBegins(p) \/ CloseStep(p) \/ CloseUnbindThrows(p)
  PROVE  CloseInv'
<1>0. /\ closePc \in [Closer -> ClosePoint] /\ {"stop", "dtor"} = Closer
      /\ sockets \in {"open", "closed"}
  BY DEF TypeInv, TypeOK, Closer, ClosePoint
<1>1. ASSUME UNCHANGED <<threads, wpc>>
      PROVE  AllGone' <=> AllGone
  BY <1>1 DEF AllGone
<1>2. CASE CloseBegins(p)
  <2>1. UNCHANGED <<startVars, sockets, workerVars>>
    BY <1>2 DEF CloseBegins
  <2>2. CASE p = "stop"
    <3>1. /\ startPc = "proxy" /\ closePc["stop"] = "none"
          /\ closePc["dtor"] = "none"
      BY <1>2, <2>2 DEF CloseBegins, MayClose
    <3>2. started /\ closePc' = [closePc EXCEPT !["stop"] = "unbind"]
      BY <1>2, <2>2, <3>1 DEF CloseBegins, CloseGoto, CloseInv
    <3> QED
      BY <1>0, <1>1, <2>1, <3>1, <3>2 DEF CloseInv, startVars, workerVars
  <2>3. CASE p = "dtor"
    <3>1. startPc \in {"new", "ended"} /\ closePc["stop"] = "done"
      BY <1>2, <2>3 DEF CloseBegins, MayClose
    <3>2. AllGone /\ startPc = "ended"
      BY <1>0, <3>1 DEF CloseInv
    <3>3. closePc'["stop"] = "done"
      BY <1>0, <1>2, <2>3, <3>1 DEF CloseBegins, CloseGoto
    <3> QED
      BY <1>0, <1>1, <2>1, <3>2, <3>3 DEF CloseInv, startVars, workerVars
  <2> QED
    BY <1>0, <2>2, <2>3
<1>3. ASSUME NEW l \in {"wstop", "join"}, CloseGoto(p, l),
             UNCHANGED <<startPc, threads, wpc, sockets>>,
             closePc[p] \in {"unbind", "wstop"}
      PROVE  CloseInv'
  <2>1. startPc \notin {"new", "spawn"}
    BY <1>0, <1>3 DEF CloseInv
  <2>2. closePc'["stop"] # "none"
    BY <1>0, <1>3 DEF CloseInv, CloseGoto
  <2>3. closePc' = [closePc EXCEPT ![p] = l]
    BY <1>3 DEF CloseGoto
  <2> QED
    BY <1>0, <1>1, <1>3, <2>1, <2>2, <2>3 DEF CloseInv
<1>4. CASE CloseUnbinds(p) \/ WorkerStop(p)
  BY <1>3, <1>4 DEF CloseUnbinds, WorkerStop, startVars, workerVars
<1>5. CASE CloseJoins(p) \/ ProxyStop(p)
  <2>1. /\ AllGone /\ UNCHANGED <<startVars, sockets, workerVars>>
        /\ startPc \notin {"new", "spawn"} /\ closePc[p] \in {"join", "pstop"}
    BY <1>0, <1>5 DEF CloseJoins, ProxyStop, CloseInv, AllGone
  <2>2. \E l \in {"pstop", "sockets"} : closePc' = [closePc EXCEPT ![p] = l]
    BY <1>5 DEF CloseJoins, ProxyStop, CloseGoto
  <2> QED
    BY <1>0, <1>1, <2>1, <2>2 DEF CloseInv, startVars, workerVars
<1>6. ASSUME Crash, UNCHANGED threads
      PROVE  CloseInv'
  <2>1. AllGone'
    BY <1>6 DEF Crash, AllGone, TypeInv, TypeOK
  <2> QED
    BY <1>0, <1>6, <2>1 DEF Crash, CloseInv
<1>7. CASE CloseUnbindThrows(p)
  <2>1. CASE p = "dtor"
    BY <1>6, <1>7, <2>1 DEF CloseUnbindThrows
  <2>2. CASE p = "stop"
    <3>1. closePc' = [closePc EXCEPT !["stop"] = "threw"]
      BY <1>7, <2>2 DEF CloseUnbindThrows, CloseGoto
    <3>2. /\ closePc["stop"] = "unbind"
          /\ UNCHANGED <<startPc, threads, started, wpc, sockets>>
      BY <1>7, <2>2 DEF CloseUnbindThrows
    <3> QED
      BY <1>0, <1>1, <3>1, <3>2 DEF CloseInv
  <2> QED
    BY <1>0, <2>1, <2>2
<1>8. CASE CloseSockets(p)
  <2>1. /\ AllGone /\ startPc \notin {"new", "spawn"}
        /\ closePc[p] = "sockets" /\ UNCHANGED <<threads, started>>
    BY <1>0, <1>8 DEF CloseSockets, CloseInv
  <2>2. CASE closePc' = [closePc EXCEPT ![p] = "done"] /\ UNCHANGED <<startPc, wpc>>
    BY <1>0, <1>1, <2>1, <2>2 DEF CloseInv
  <2> QED
    BY <1>6, <1>8, <2>1, <2>2 DEF CloseSockets, CloseGoto
<1> QED
  BY <1>2, <1>4, <1>5, <1>7, <1>8 DEF CloseStep

(* ... and all others.                                                     *)
LEMMA CloseInvStep ==
  {"serving", "wait"} \subseteq Caution /\ TypeInv /\ CloseInv /\ [Next]_vars
    => CloseInv'
<1> SUFFICES ASSUME {"serving", "wait"} \subseteq Caution, TypeInv, CloseInv,
                    [Next]_vars
             PROVE  CloseInv'
  OBVIOUS
<1>0. closePc \in [Closer -> ClosePoint] /\ Closer = {"stop", "dtor"}
  BY DEF TypeInv, TypeOK, Closer, ClosePoint
<1>1. ASSUME UNCHANGED <<startPc, started, threads, closeVars>>
      PROVE  CloseInv'
  BY <1>1, GoneStays DEF CloseInv, closeVars
<1>2. ASSUME NEW w \in Worker,
             \/ WorkerStep(w) \/ ProxyForwardsReply(w) \/ NoticeGone(w)
             \/ CallAbandoned(w) \/ WorkerSendFails(w)
      PROVE  CloseInv'
  BY <1>1, <1>2 DEF WorkerStep, WorkerConnects, WorkerReceives,
     WorkerDiscards, WorkerRejects, WorkerCalls, WorkerReplies, WorkerLeaves,
     ProxyForwardsReply, NoticeGone, CallAbandoned, WorkerSendFails, startVars
<1>3. ASSUME NEW w \in Worker, ServiceThrows(w)
      PROVE  CloseInv'
  BY <1>0, <1>3 DEF ServiceThrows, Crash, CloseInv, AllGone, TypeInv, TypeOK
<1>4. CASE \/ ProxyForwardsStop \/ \E i \in Request : ProxyForwardsRequest(i)
           \/ ClientSends \/ UNCHANGED vars
  BY <1>1, <1>4 DEF ProxyForwardsStop, ProxyForwardsRequest, ClientSends, vars,
     startVars
<1>5. CASE StartBinds \/ StartBindFails \/ ProxyStart \/ ProxyTerminates
           \/ ProxyFails
  <2>1. UNCHANGED <<threads, closeVars>>
    BY <1>5 DEF StartBinds, StartBindFails, ProxyStart, ProxyTerminates,
       ProxyFails
  <2>2. AllGone => AllGone'
    BY <2>1, GoneStays
  <2> QED
    BY <1>0, <1>5, <2>1, <2>2 DEF StartBinds, StartBindFails, ProxyStart,
       ProxyTerminates, ProxyFails, CloseInv, closeVars
<1>6. ASSUME NEW w \in Worker, StartSpawns(w)
      PROVE  CloseInv'
  BY <1>0, <1>6 DEF StartSpawns, CloseInv, closeVars
<1>7. ASSUME NEW p \in Closer,
             CloseBegins(p) \/ CloseStep(p) \/ CloseUnbindThrows(p)
      PROVE  CloseInv'
  BY <1>7, CloseInvClose
<1> QED
  BY <1>2, <1>3, <1>4, <1>5, <1>6, <1>7 DEF Next, StartStep

(* The server's sockets are closed only when all worker threads have       *)
(* ended, if the server is stopped only while it serves and destroyed only *)
(* when the Close that stops it has returned.                              *)
THEOREM ClosesAfterWorkers ==
  ASSUME {"serving", "wait"} \subseteq Caution
  PROVE  Spec => []ClosedAfterWorkers
<1>1. Init => TypeInv /\ CloseInv
  BY TypeInit, CloseInit
<1>2. TypeInv /\ CloseInv /\ [Next]_vars => (TypeInv /\ CloseInv)'
  BY TypeStep, CloseInvStep
<1>3. CloseInv => ClosedAfterWorkers
  BY DEF CloseInv, AllGone, ClosedAfterWorkers
<1> QED
  BY <1>1, <1>2, <1>3, PTL DEF Spec

-----------------------------------------------------------------------------
(* What is in a queue, whose entries are messages or replies: for a reply  *)
(* it is its number that counts.                                           *)

Has(q, m)     == \E k \in 1 .. Len(q) : q[k] = m
Answers(q, i) == \E k \in 1 .. Len(q) : q[k].id = i

(* No request is twice in a queue.                                         *)
Distinct(q)    == \A j, k \in 1 .. Len(q) : q[j] = q[k] /\ q[j] # TERMINATE => j = k
DistinctIds(q) == \A j, k \in 1 .. Len(q) : q[j].id = q[k].id => j = k

LEMMA Appended ==
  ASSUME NEW q \in Seq(Message), NEW m \in Message
  PROVE  /\ \A x : Has(Append(q, m), x) <=> Has(q, x) \/ x = m
         /\ Distinct(q) /\ (m = TERMINATE \/ ~Has(q, m))
              => Distinct(Append(q, m))
<1>1. PICK n \in Nat : n = Len(q)
  BY Queue
<1>2. PICK a \in Seq(Message) : a = Append(q, m)
  BY Queue
<1>3. /\ Len(a) = n + 1 /\ a[n + 1] = m
      /\ \A k \in 1 .. n : a[k] = q[k]
  BY <1>1, <1>2, Queue
<1>4. \A k : k \in 1 .. Len(a) <=> k \in 1 .. n \/ k = n + 1
  BY <1>3
<1>5. ASSUME NEW x
      PROVE  Has(a, x) <=> Has(q, x) \/ x = m
  BY <1>1, <1>3, <1>4 DEF Has
<1>6. ASSUME Distinct(q), m = TERMINATE \/ ~Has(q, m)
      PROVE  Distinct(a)
  BY <1>1, <1>3, <1>4, <1>6 DEF Distinct, Has
<1> QED
  BY <1>2, <1>5, <1>6

LEMMA Removed ==
  ASSUME NEW q \in Seq(Message), q # <<>>
  PROVE  /\ \A x : Has(q, x) <=> x = Head(q) \/ Has(Tail(q), x)
         /\ Distinct(q) =>
              /\ Distinct(Tail(q))
              /\ Head(q) # TERMINATE => ~Has(Tail(q), Head(q))
<1>1. PICK n \in Nat : n = Len(q) /\ n >= 1
  BY Queue
<1>2. PICK t \in Seq(Message) : t = Tail(q)
  BY Queue
<1>3. /\ Len(t) = n - 1 /\ Head(q) = q[1]
      /\ \A k \in 1 .. n - 1 : t[k] = q[k + 1]
  BY <1>1, <1>2, Queue
<1>4. \A k \in 1 .. n : k = 1 \/ (k - 1 \in 1 .. n - 1 /\ t[k - 1] = q[k])
  BY <1>3
<1>5. \A k \in 1 .. n - 1 : k + 1 \in 1 .. n /\ k + 1 # 1 /\ 1 \in 1 .. n
  BY <1>1
<1>6. ASSUME NEW x
      PROVE  Has(q, x) <=> x = Head(q) \/ Has(t, x)
  BY <1>1, <1>3, <1>4, <1>5 DEF Has
<1>7. ASSUME Distinct(q)
      PROVE  Distinct(t) /\ (Head(q) # TERMINATE => ~Has(t, Head(q)))
  BY <1>1, <1>3, <1>5, <1>7 DEF Distinct, Has
<1> QED
  BY <1>2, <1>6, <1>7

LEMMA ReplyAppended ==
  ASSUME NEW q \in Seq(Reply), NEW r \in Reply
  PROVE  /\ \A i : Answers(Append(q, r), i) <=> Answers(q, i) \/ i = r.id
         /\ \A k \in 1 .. Len(Append(q, r)) :
              \/ Append(q, r)[k] = r
              \/ k \in 1 .. Len(q) /\ Append(q, r)[k] = q[k]
         /\ DistinctIds(q) /\ ~Answers(q, r.id) => DistinctIds(Append(q, r))
<1>1. PICK n \in Nat : n = Len(q)
  BY Queue
<1>2. PICK a \in Seq(Reply) : a = Append(q, r)
  BY Queue
<1>3. /\ Len(a) = n + 1 /\ a[n + 1] = r
      /\ \A k \in 1 .. n : a[k] = q[k]
  BY <1>1, <1>2, Queue
<1>4. \A k : k \in 1 .. Len(a) <=> k \in 1 .. n \/ k = n + 1
  BY <1>3
<1>5. ASSUME NEW i
      PROVE  Answers(a, i) <=> Answers(q, i) \/ i = r.id
  BY <1>1, <1>3, <1>4 DEF Answers
<1>6. ASSUME DistinctIds(q), ~Answers(q, r.id)
      PROVE  DistinctIds(a)
  BY <1>1, <1>3, <1>4, <1>6 DEF DistinctIds, Answers
<1> QED
  BY <1>1, <1>2, <1>3, <1>4, <1>5, <1>6

LEMMA ReplyRemoved ==
  ASSUME NEW q \in Seq(Reply), q # <<>>
  PROVE  /\ \A i : Answers(q, i) <=> i = Head(q).id \/ Answers(Tail(q), i)
         /\ \A k \in 1 .. Len(Tail(q)) :
              k + 1 \in 1 .. Len(q) /\ Tail(q)[k] = q[k + 1]
         /\ 1 \in 1 .. Len(q) /\ Head(q) = q[1] /\ Head(q) \in Reply
         /\ DistinctIds(q) =>
              DistinctIds(Tail(q)) /\ ~Answers(Tail(q), Head(q).id)
<1>1. PICK n \in Nat : n = Len(q) /\ n >= 1
  BY Queue
<1>2. PICK t \in Seq(Reply) : t = Tail(q)
  BY Queue
<1>3. /\ Len(t) = n - 1 /\ Head(q) = q[1] /\ Head(q) \in Reply
      /\ \A k \in 1 .. n - 1 : t[k] = q[k + 1]
  BY <1>1, <1>2, Queue
<1>4. \A k \in 1 .. n : k = 1 \/ (k - 1 \in 1 .. n - 1 /\ t[k - 1] = q[k])
  BY <1>3
<1>5. \A k \in 1 .. n - 1 : k + 1 \in 1 .. n /\ k + 1 # 1 /\ 1 \in 1 .. n
  BY <1>1
<1>6. ASSUME NEW i
      PROVE  Answers(q, i) <=> i = Head(q).id \/ Answers(t, i)
  <2>1. ASSUME NEW k \in 1 .. n, q[k].id = i
        PROVE  i = Head(q).id \/ Answers(t, i)
    BY <1>3, <1>4, <2>1 DEF Answers
  <2>2. ASSUME NEW k \in 1 .. n - 1, t[k].id = i
        PROVE  Answers(q, i)
    BY <1>1, <1>3, <1>5, <2>2 DEF Answers
  <2>3. i = Head(q).id => Answers(q, i)
    BY <1>1, <1>3 DEF Answers
  <2> QED
    BY <1>1, <1>3, <2>1, <2>2, <2>3 DEF Answers
<1>7. ASSUME DistinctIds(q)
      PROVE  DistinctIds(t) /\ ~Answers(t, Head(q).id)
  BY <1>1, <1>3, <1>5, <1>7 DEF DistinctIds, Answers
<1> QED
  BY <1>1, <1>2, <1>3, <1>5, <1>6, <1>7

-----------------------------------------------------------------------------
(* A request is in one place, and what was done to it fits the place.      *)

Untouched(i)    == i <= sent /\ executed[i] = 0 /\ answered[i] = 0
Executed(i, c)  == /\ c = ZEC_SUCCESS => executed[i] = 1
                   /\ c = ZEC_NOSUCHMETHOD => executed[i] = 0

WaitingOnce ==
  \A i \in waiting :
    /\ Untouched(i)
    /\ \A w \in Worker :
         ~Has(pipe[w], i) /\ ~AtWorker(i, w) /\ ~Answers(replyq[w], i)

PipedOnce ==
  \A w \in Worker :
    /\ Distinct(pipe[w])
    /\ \A i \in Request : Has(pipe[w], i) =>
         /\ Untouched(i)
         /\ \A v \in Worker :
              /\ v # w => ~Has(pipe[v], i)
              /\ ~AtWorker(i, v) /\ ~Answers(replyq[v], i)

WorkedOnOnce ==
  \A w \in Worker : \A i \in Request : AtWorker(i, w) =>
    /\ i <= sent /\ answered[i] = 0
    /\ wpc[w] = "work" => executed[i] = 0
    /\ wpc[w] = "reply" => Executed(i, result[w])
    /\ \A v \in Worker :
         (v # w => ~AtWorker(i, v)) /\ ~Answers(replyq[v], i)

RepliedOnce ==
  \A w \in Worker :
    /\ DistinctIds(replyq[w])
    /\ \A i \in Request : Answers(replyq[w], i) =>
         /\ i <= sent /\ answered[i] = 0
         /\ \A v \in Worker : v # w => ~Answers(replyq[v], i)
    /\ \A k \in 1 .. Len(replyq[w]) :
         Executed(replyq[w][k].id, replyq[w][k].code)

CountedOnce ==
  \A i \in Request :
    /\ executed[i] \in {0, 1} /\ answered[i] \in {0, 1}
    /\ i > sent => executed[i] = 0 /\ answered[i] = 0

OnceInv == WaitingOnce /\ PipedOnce /\ WorkedOnOnce /\ RepliedOnce /\ CountedOnce

LEMMA OnceInit == Init => OnceInv
<1>1. \A x : ~Has(<<>>, x) /\ ~Answers(<<>>, x)
  BY DEF Has, Answers
<1>2. Distinct(<<>>) /\ DistinctIds(<<>>)
  BY DEF Distinct, DistinctIds
<1>3. \A i \in Request : i > 0
  BY Numbers
<1> QED
  BY <1>1, <1>2, <1>3 DEF Init, OnceInv, WaitingOnce, PipedOnce, WorkedOnOnce,
     RepliedOnce, CountedOnce, AtWorker

(* Losing things keeps the invariant: pipes emptied, jobs given up.        *)
LEMMA OnceFewer ==
  ASSUME TypeInv, OnceInv, waiting' \subseteq waiting,
         UNCHANGED <<sent, result, replyq, executed, answered>>,
         \A w \in Worker : pipe'[w] = pipe[w] \/ pipe'[w] = <<>>,
         \A w \in Worker, i \in Request :
           AtWorker(i, w)' => AtWorker(i, w) /\ wpc'[w] = wpc[w]
  PROVE  OnceInv'
<1>1. \A x : ~Has(<<>>, x)
  BY DEF Has
<1>2. Distinct(<<>>)
  BY DEF Distinct
<1>3. \A w \in Worker : /\ \A x : Has(pipe'[w], x) => Has(pipe[w], x)
                        /\ Distinct(pipe[w]) => Distinct(pipe'[w])
  BY <1>1, <1>2
<1>0. waiting \subseteq Request
  BY DEF TypeInv, TypeOK
<1>4. WaitingOnce'
  BY <1>0, <1>3 DEF OnceInv, WaitingOnce, Untouched
<1>5. PipedOnce'
  BY <1>3 DEF OnceInv, PipedOnce, Untouched
<1>6. WorkedOnOnce'
  BY DEF OnceInv, WorkedOnOnce, Executed
<1>7. RepliedOnce' /\ CountedOnce'
  BY DEF OnceInv, RepliedOnce, CountedOnce, Executed
<1> QED
  BY <1>4, <1>5, <1>6, <1>7 DEF OnceInv

(* A worker's message is in its pipe and nowhere else.                     *)
LEMMA OnceGiven ==
  ASSUME TypeInv, OnceInv, NEW m \in Message, GiveToWorker(m),
         m = TERMINATE \/ (m \in waiting /\ waiting' = waiting \ {m}),
         waiting' \subseteq waiting,
         UNCHANGED <<sent, workerVars, replyq, history>>
  PROVE  OnceInv'
<1>1. PICK w \in Worker :
        /\ pipe'[w] = IF wpc[w] = "gone" THEN pipe[w] ELSE Append(pipe[w], m)
        /\ \A v \in Worker \ {w} : pipe'[v] = pipe[v]
  BY Given
<1>2. pipe[w] \in Seq(Message) /\ waiting \subseteq Request
  BY DEF TypeInv, TypeOK
<1>3. /\ \A x : Has(Append(pipe[w], m), x) <=> Has(pipe[w], x) \/ x = m
      /\ Distinct(pipe[w]) /\ (m = TERMINATE \/ ~Has(pipe[w], m))
           => Distinct(Append(pipe[w], m))
  BY <1>2, Appended
<1>4. \A v \in Worker : /\ \A x : Has(pipe'[v], x) => Has(pipe[v], x) \/ (x = m /\ v = w)
                        /\ Distinct(pipe'[v])
  <2>1. m = TERMINATE \/ ~Has(pipe[w], m)
    BY DEF OnceInv, WaitingOnce
  <2>2. \A v \in Worker : Distinct(pipe[v])
    BY DEF OnceInv, PipedOnce
  <2>3. \A v \in Worker : v # w => pipe'[v] = pipe[v]
    BY <1>1
  <2>4. pipe'[w] = pipe[w] \/ pipe'[w] = Append(pipe[w], m)
    BY <1>1
  <2>5. Distinct(pipe'[w])
    BY <1>3, <2>1, <2>2, <2>4
  <2>6. \A x : Has(pipe'[w], x) => Has(pipe[w], x) \/ x = m
    BY <1>3, <2>4
  <2>7. \A v \in Worker : Distinct(pipe'[v])
    BY <2>2, <2>3, <2>5
  <2>8. ASSUME NEW v \in Worker, NEW x, Has(pipe'[v], x)
        PROVE  Has(pipe[v], x) \/ (x = m /\ v = w)
    BY <2>3, <2>6, <2>8
  <2> QED
    BY <2>7, <2>8
<1>5. \A i \in Request, v \in Worker : AtWorker(i, v)' <=> AtWorker(i, v)
  BY DEF AtWorker, workerVars
<1>6. WaitingOnce'
  BY <1>2, <1>4, <1>5, Numbers
  DEF OnceInv, WaitingOnce, Untouched, history, workerVars
<1>7. PipedOnce'
  <2> SUFFICES ASSUME NEW v \in Worker, NEW i \in Request, Has(pipe'[v], i)
               PROVE  /\ Untouched(i)
                      /\ \A u \in Worker :
                           /\ u # v => ~Has(pipe'[u], i)
                           /\ ~AtWorker(i, u) /\ ~Answers(replyq[u], i)
    BY <1>4, <1>5 DEF PipedOnce, Untouched, history
  <2>1. CASE i = m
    BY <1>4, <2>1, Numbers DEF OnceInv, WaitingOnce
  <2>2. CASE i # m
    BY <1>4, <2>2 DEF OnceInv, PipedOnce
  <2> QED
    BY <2>1, <2>2
<1>8. WorkedOnOnce'
  BY <1>5 DEF OnceInv, WorkedOnOnce, Executed, workerVars, history
<1>9. RepliedOnce' /\ CountedOnce'
  BY DEF OnceInv, RepliedOnce, CountedOnce, Executed, history
<1> QED
  BY <1>6, <1>7, <1>8, <1>9 DEF OnceInv

LEMMA OnceSent ==
  ASSUME TypeInv, OnceInv, ClientSends
  PROVE  OnceInv'
<1>1. /\ sent' = sent + 1 /\ waiting' = waiting \cup {sent + 1}
      /\ UNCHANGED <<backVars, workerVars, replyq, history>>
      /\ sent + 1 \in Request /\ sent \in Nat
      /\ \A i \in Request : i \in Nat
  BY Numbers, ServerAssumption DEF ClientSends, TypeInv, TypeOK, Request
<1>2. \A i \in Request : i <= sent => i <= sent' /\ i # sent + 1
  BY <1>1
<1>3. ~(sent + 1 <= sent) /\ sent + 1 > sent
  BY <1>1
<1>4. \A i \in Request, v \in Worker : AtWorker(i, v)' <=> AtWorker(i, v)
  BY <1>1 DEF AtWorker, workerVars
<1>5. \A w \in Worker :
        /\ ~Has(pipe[w], sent + 1) /\ ~AtWorker(sent + 1, w)
        /\ ~Answers(replyq[w], sent + 1)
  BY <1>1, <1>3 DEF OnceInv, PipedOnce, WorkedOnOnce, RepliedOnce, Untouched
<1>6. executed[sent + 1] = 0 /\ answered[sent + 1] = 0 /\ waiting \subseteq Request
  BY <1>1, <1>3 DEF OnceInv, CountedOnce, TypeInv, TypeOK
<1>7. WaitingOnce'
  BY <1>1, <1>2, <1>4, <1>5, <1>6
  DEF OnceInv, WaitingOnce, Untouched, backVars, history
<1>8. PipedOnce' /\ WorkedOnOnce'
  BY <1>1, <1>2, <1>4 DEF OnceInv, PipedOnce, WorkedOnOnce, Untouched,
     Executed, backVars, workerVars, history
<1>9. RepliedOnce'
  BY <1>1, <1>2 DEF OnceInv, RepliedOnce, Executed, history
<1>10. CountedOnce'
  BY <1>1 DEF OnceInv, CountedOnce, history
<1> QED
  BY <1>7, <1>8, <1>9, <1>10 DEF OnceInv

(* A message read from a pipe was there once; its worker now has it.       *)
LEMMA OnceReceived ==
  ASSUME TypeInv, OnceInv, NEW w \in Worker, WorkerReceives(w)
  PROVE  OnceInv'
<1>1. /\ pipe \in [Worker -> Seq(Message)] /\ wpc \in [Worker -> WorkerPoint]
      /\ job \in [Worker -> Message] /\ waiting \subseteq Request
  BY DEF TypeInv, TypeOK, WorkerPoint
<1>2. /\ pipe[w] # <<>> /\ wpc[w] = "recv"
      /\ pipe' = [pipe EXCEPT ![w] = Tail(pipe[w])]
      /\ job' = [job EXCEPT ![w] = Head(pipe[w])]
      /\ wpc' = [wpc EXCEPT ![w] =
                   IF Head(pipe[w]) = TERMINATE THEN "leaving" ELSE "work"]
      /\ UNCHANGED <<sent, waiting, result, replyq, executed, answered>>
  BY DEF WorkerReceives, Goto, frontVars, history
<1>3. /\ \A x : Has(pipe[w], x) <=> x = Head(pipe[w]) \/ Has(Tail(pipe[w]), x)
      /\ Distinct(pipe[w]) =>
           /\ Distinct(Tail(pipe[w]))
           /\ Head(pipe[w]) # TERMINATE => ~Has(Tail(pipe[w]), Head(pipe[w]))
  BY <1>1, <1>2, Removed
<1>4. PICK m \in Message : m = Head(pipe[w])
  BY <1>1, <1>2, Queue
<1>5. \A v \in Worker : v # w => pipe'[v] = pipe[v] /\ job'[v] = job[v] /\ wpc'[v] = wpc[v]
  BY <1>2
<1>6. /\ pipe'[w] = Tail(pipe[w]) /\ job'[w] = m
      /\ wpc'[w] = IF m = TERMINATE THEN "leaving" ELSE "work"
  BY <1>1, <1>2, <1>4
<1>7. \A v \in Worker : Distinct(pipe[v])
  BY DEF OnceInv, PipedOnce
<1>8. \A x : Has(pipe'[w], x) => Has(pipe[w], x)
  BY <1>3, <1>6
<1>9. ASSUME NEW v \in Worker
      PROVE  /\ \A x : Has(pipe'[v], x) => Has(pipe[v], x)
             /\ Distinct(pipe'[v])
  <2>1. CASE v = w
    BY <1>3, <1>6, <1>7, <1>8, <2>1
  <2>2. CASE v # w
    BY <1>5, <1>7, <2>2
  <2> QED
    BY <2>1, <2>2
<1>10. /\ Has(pipe[w], m)
       /\ m # TERMINATE => m \in Request /\ ~Has(pipe'[w], m)
  BY <1>3, <1>4, <1>6, <1>7 DEF Message
<1>11. \A i, v : v \in Worker /\ AtWorker(i, v)' =>
         AtWorker(i, v) \/ (v = w /\ i = m /\ m # TERMINATE)
  BY <1>5, <1>6 DEF AtWorker
<1>12. \A v \in Worker : m # TERMINATE => ~Has(pipe'[v], m)
  BY <1>9, <1>10 DEF OnceInv, PipedOnce
<1>13. WaitingOnce'
  BY <1>1, <1>2, <1>9, <1>10, <1>11 DEF OnceInv, WaitingOnce, Untouched
<1>14. PipedOnce'
  BY <1>2, <1>9, <1>11, <1>12 DEF OnceInv, PipedOnce, Untouched
<1>15. WorkedOnOnce'
  <2> SUFFICES ASSUME NEW v \in Worker, NEW i \in Request, AtWorker(i, v)'
               PROVE  /\ i <= sent /\ answered[i] = 0
                      /\ wpc'[v] = "work" => executed[i] = 0
                      /\ wpc'[v] = "reply" => Executed(i, result[v])
                      /\ \A u \in Worker :
                           (u # v => ~AtWorker(i, u)') /\ ~Answers(replyq[u], i)
    BY <1>2 DEF WorkedOnOnce, Executed
  <2>1. CASE v = w
    <3>1. i = m /\ m # TERMINATE
      BY <1>6, <2>1 DEF AtWorker
    <3>2. Untouched(m) /\ \A u \in Worker : ~AtWorker(m, u) /\ ~Answers(replyq[u], m)
      BY <1>10, <3>1 DEF OnceInv, PipedOnce
    <3> QED
      BY <1>6, <1>11, <2>1, <3>1, <3>2 DEF Untouched
  <2>2. CASE v # w
    <3>1. AtWorker(i, v) /\ wpc'[v] = wpc[v]
      BY <1>5, <2>2 DEF AtWorker
    <3>2. i # m \/ m = TERMINATE
      BY <1>10, <3>1 DEF OnceInv, PipedOnce
    <3> QED
      BY <1>11, <3>1, <3>2 DEF OnceInv, WorkedOnOnce
  <2> QED
    BY <2>1, <2>2
<1>16. RepliedOnce' /\ CountedOnce'
  BY <1>2 DEF OnceInv, RepliedOnce, CountedOnce, Executed
<1> QED
  BY <1>13, <1>14, <1>15, <1>16 DEF OnceInv

(* A worker that has dealt with a request still has it, and its result     *)
(* fits what was done: rejected without a call, or called once.            *)
LEMMA OnceWorked ==
  ASSUME TypeInv, OnceInv, NEW w \in Worker, wpc[w] = "work",
         UNCHANGED <<sent, waiting, pipe, job, replyq, answered>>,
         \A v \in Worker \ {w} : wpc'[v] = wpc[v] /\ result'[v] = result[v],
         wpc'[w] = "reply",
         \/ executed' = executed /\ result'[w] # ZEC_SUCCESS
         \/ /\ executed' = [executed EXCEPT ![job[w]] = @ + 1]
            /\ result'[w] # ZEC_NOSUCHMETHOD
  PROVE  OnceInv'
<1>1. PICK m \in Request : m = job[w]
  BY DEF TypeInv
<1>2. AtWorker(m, w) /\ waiting \subseteq Request /\ executed \in [Request -> Nat]
  BY <1>1 DEF AtWorker, TypeInv, TypeOK
<1>3. /\ executed[m] = 0 /\ answered[m] = 0 /\ m <= sent
      /\ \A v \in Worker : (v # w => ~AtWorker(m, v)) /\ ~Answers(replyq[v], m)
  BY <1>1, <1>2 DEF OnceInv, WorkedOnOnce
<1>4. /\ \A i \in Request : i # m => executed'[i] = executed[i]
      /\ executed'[m] \in {0, 1}
      /\ result'[w] = ZEC_SUCCESS => executed'[m] = 1
      /\ result'[w] = ZEC_NOSUCHMETHOD => executed'[m] = 0
  BY <1>1, <1>2, <1>3
<1>5. \A i \in Request, v \in Worker : AtWorker(i, v)' <=> AtWorker(i, v)
  BY DEF AtWorker
<1>6. m \notin waiting /\ \A v \in Worker : ~Has(pipe[v], m)
  BY <1>2 DEF OnceInv, WaitingOnce, PipedOnce
<1>7. WaitingOnce' /\ PipedOnce'
  BY <1>2, <1>4, <1>5, <1>6 DEF OnceInv, WaitingOnce, PipedOnce, Untouched
<1>8. WorkedOnOnce'
  <2> SUFFICES ASSUME NEW v \in Worker, NEW i \in Request, AtWorker(i, v)
               PROVE  /\ i <= sent /\ answered[i] = 0
                      /\ wpc'[v] = "work" => executed'[i] = 0
                      /\ wpc'[v] = "reply" => Executed(i, result[v])'
                      /\ \A u \in Worker :
                           (u # v => ~AtWorker(i, u)) /\ ~Answers(replyq[u], i)
    BY <1>5 DEF WorkedOnOnce, Executed
  <2>1. CASE v = w
    BY <1>1, <1>3, <1>4, <2>1 DEF AtWorker, Executed
  <2>2. CASE v # w
    BY <1>3, <1>4, <2>2 DEF OnceInv, WorkedOnOnce, Executed
  <2> QED
    BY <2>1, <2>2
<1>9. RepliedOnce'
  <2>1. ASSUME NEW v \in Worker, NEW k \in 1 .. Len(replyq[v])
        PROVE  Executed(replyq[v][k].id, replyq[v][k].code)'
    <3>1. replyq[v][k] \in Reply
      BY Queue DEF TypeInv, TypeOK
    <3>2. PICK i \in Request : i = replyq[v][k].id
      BY <3>1 DEF Reply
    <3>3. i # m
      BY <1>3, <3>2 DEF Answers
    <3> QED
      BY <1>4, <3>2, <3>3 DEF OnceInv, RepliedOnce, Executed
  <2> QED
    BY <2>1 DEF OnceInv, RepliedOnce
<1>10. CountedOnce'
  <2>1. CountedOnce /\ sent' = sent /\ answered' = answered
    BY DEF OnceInv
  <2>2. ~(m > sent)
    <3>1. m \in Nat /\ sent \in Nat
      BY Numbers, ServerAssumption DEF TypeInv, TypeOK
    <3> QED
      BY <1>3, <3>1
  <2> QED
    BY <1>4, <2>1, <2>2 DEF CountedOnce
<1> QED
  BY <1>7, <1>8, <1>9, <1>10 DEF OnceInv

(* The reply to a request leaves with the worker's result; nobody has the  *)
(* request after that.                                                     *)
LEMMA OnceReplied ==
  ASSUME TypeInv, OnceInv, NEW w \in Worker, WorkerReplies(w)
  PROVE  OnceInv'
<1>1. /\ wpc[w] = "reply" /\ wpc' = [wpc EXCEPT ![w] = "recv"]
      /\ replyq' = replyq \/ replyq' = [replyq EXCEPT ![w] =
           Append(replyq[w], [id |-> job[w], code |-> result[w]])]
      /\ UNCHANGED <<sent, waiting, pipe, job, result, executed, answered>>
  BY DEF WorkerReplies, Goto, frontVars, backVars, history
<1>2. /\ wpc \in [Worker -> WorkerPoint] /\ replyq \in [Worker -> Seq(Reply)]
      /\ waiting \subseteq Request
  BY DEF TypeInv, TypeOK, WorkerPoint
<1>3. PICK m \in Request : m = job[w]
  BY <1>1 DEF TypeInv
<1>4. AtWorker(m, w) /\ result[w] \in ErrorCodeE
  BY <1>1, <1>3 DEF AtWorker, TypeInv, TypeOK
<1>5. PICK r \in Reply : r = [id |-> m, code |-> result[w]]
  BY <1>4 DEF Reply
<1>6. /\ answered[m] = 0 /\ m <= sent /\ Executed(m, r.code) /\ r.id = m
      /\ \A v \in Worker : (v # w => ~AtWorker(m, v)) /\ ~Answers(replyq[v], m)
  BY <1>1, <1>4, <1>5 DEF OnceInv, WorkedOnOnce
<1>7. ~AtWorker(m, w)' /\ \A i \in Request, v \in Worker : AtWorker(i, v)' =>
        AtWorker(i, v) /\ wpc'[v] = wpc[v] /\ i # m
  BY <1>1, <1>2, <1>3, <1>6 DEF AtWorker
<1>8. CASE replyq' = replyq
  <2>1. \A v \in Worker, i \in Request :
          AtWorker(i, v)' => AtWorker(i, v) /\ wpc'[v] = wpc[v]
    BY <1>7
  <2> QED
    BY <1>1, <1>8, <2>1, OnceFewer
<1>9. CASE replyq' = [replyq EXCEPT ![w] = Append(replyq[w], r)]
  <2>1. /\ \A i : Answers(Append(replyq[w], r), i)
                    <=> Answers(replyq[w], i) \/ i = m
        /\ \A k \in 1 .. Len(Append(replyq[w], r)) :
             \/ Append(replyq[w], r)[k] = r
             \/ k \in 1 .. Len(replyq[w])
                /\ Append(replyq[w], r)[k] = replyq[w][k]
        /\ DistinctIds(replyq[w]) => DistinctIds(Append(replyq[w], r))
    BY <1>2, <1>6, ReplyAppended
  <2>2. /\ replyq'[w] = Append(replyq[w], r)
        /\ \A v \in Worker : v # w => replyq'[v] = replyq[v]
    BY <1>2, <1>9
  <2>3. ASSUME NEW v \in Worker, NEW i
        PROVE  Answers(replyq'[v], i) <=> Answers(replyq[v], i) \/ (v = w /\ i = m)
    <3>1. CASE v = w
      BY <2>1, <2>2, <3>1
    <3>2. CASE v # w
      BY <2>2, <3>2
    <3> QED
      BY <3>1, <3>2
  <2>4. m \notin waiting /\ \A v \in Worker : ~Has(pipe[v], m)
    BY <1>4 DEF OnceInv, WaitingOnce, PipedOnce
  <2>5. WaitingOnce' /\ PipedOnce'
    BY <1>1, <1>2, <1>7, <2>3, <2>4
    DEF OnceInv, WaitingOnce, PipedOnce, Untouched
  <2>6. WorkedOnOnce'
    BY <1>1, <1>7, <2>3 DEF OnceInv, WorkedOnOnce, Executed
  <2>7. RepliedOnce'
    <3>1. \A v \in Worker : DistinctIds(replyq'[v])
      BY <2>1, <2>2 DEF OnceInv, RepliedOnce
    <3>2. ASSUME NEW v \in Worker, NEW i \in Request, Answers(replyq'[v], i)
          PROVE  /\ i <= sent /\ answered[i] = 0
                 /\ \A u \in Worker : u # v => ~Answers(replyq'[u], i)
      <4>1. CASE i = m
        BY <1>6, <2>3, <3>2, <4>1
      <4>2. CASE i # m
        BY <2>3, <3>2, <4>2 DEF OnceInv, RepliedOnce
      <4> QED
        BY <4>1, <4>2
    <3>3. ASSUME NEW v \in Worker, NEW k \in 1 .. Len(replyq'[v])
          PROVE  Executed(replyq'[v][k].id, replyq'[v][k].code)
      <4>1. CASE v # w
        BY <2>2, <3>3, <4>1 DEF OnceInv, RepliedOnce
      <4>2. CASE v = w
        <5>1. replyq'[v][k] = r
              \/ (k \in 1 .. Len(replyq[w]) /\ replyq'[v][k] = replyq[w][k])
          BY <2>1, <2>2, <3>3, <4>2
        <5> QED
          BY <1>6, <5>1 DEF OnceInv, RepliedOnce
      <4> QED
        BY <4>1, <4>2
    <3> QED
      BY <1>1, <3>1, <3>2, <3>3 DEF RepliedOnce, Executed
  <2>8. CountedOnce'
    BY <1>1 DEF OnceInv, CountedOnce
  <2> QED
    BY <2>5, <2>6, <2>7, <2>8 DEF OnceInv
<1> QED
  BY <1>1, <1>3, <1>5, <1>8, <1>9

(* A reply that is forwarded was the only one to its request.              *)
LEMMA OnceForwarded ==
  ASSUME TypeInv, OnceInv, NEW w \in Worker, ProxyForwardsReply(w)
  PROVE  OnceInv'
<1>1. /\ replyq[w] # <<>> /\ replyq' = [replyq EXCEPT ![w] = Tail(replyq[w])]
      /\ answered' = [answered EXCEPT ![Head(replyq[w]).id] = @ + 1]
      /\ UNCHANGED <<sent, waiting, pipe, wpc, job, result, executed>>
  BY DEF ProxyForwardsReply, frontVars, backVars, workerVars
<1>2. /\ replyq \in [Worker -> Seq(Reply)] /\ answered \in [Request -> Nat]
      /\ waiting \subseteq Request /\ sent \in Nat
  BY Numbers DEF TypeInv, TypeOK
<1>3. /\ \A i : Answers(replyq[w], i)
                  <=> i = Head(replyq[w]).id \/ Answers(Tail(replyq[w]), i)
      /\ \A k \in 1 .. Len(Tail(replyq[w])) :
           k + 1 \in 1 .. Len(replyq[w]) /\ Tail(replyq[w])[k] = replyq[w][k + 1]
      /\ Head(replyq[w]) \in Reply
      /\ DistinctIds(replyq[w]) =>
           /\ DistinctIds(Tail(replyq[w]))
           /\ ~Answers(Tail(replyq[w]), Head(replyq[w]).id)
  BY <1>1, <1>2, ReplyRemoved
<1>4. PICK m \in Request : m = Head(replyq[w]).id
  BY <1>3 DEF Reply
<1>5. /\ replyq'[w] = Tail(replyq[w])
      /\ \A v \in Worker : v # w => replyq'[v] = replyq[v]
  BY <1>1, <1>2
<1>6. \A v \in Worker : DistinctIds(replyq[v])
  BY DEF OnceInv, RepliedOnce
<1>7. Answers(replyq[w], m) /\ ~Answers(replyq'[w], m)
  BY <1>3, <1>4, <1>5, <1>6
<1>8. ASSUME NEW v \in Worker
      PROVE  \A i : Answers(replyq'[v], i) => Answers(replyq[v], i) /\ i # m
  <2>1. CASE v = w
    BY <1>3, <1>5, <1>7, <2>1
  <2>2. CASE v # w
    BY <1>5, <1>7, <2>2 DEF OnceInv, RepliedOnce
  <2> QED
    BY <2>1, <2>2
<1>9. /\ answered[m] = 0 /\ m <= sent
      /\ m \notin waiting
      /\ \A v \in Worker : ~Has(pipe[v], m) /\ ~AtWorker(m, v)
  BY <1>7 DEF OnceInv, RepliedOnce, WaitingOnce, PipedOnce, WorkedOnOnce
<1>10. /\ answered'[m] = 1
       /\ \A i \in Request : i # m => answered'[i] = answered[i]
  BY <1>1, <1>2, <1>4, <1>9
<1>11. \A i \in Request, v \in Worker : AtWorker(i, v)' <=> AtWorker(i, v)
  BY <1>1 DEF AtWorker
<1>12. WaitingOnce' /\ PipedOnce'
  BY <1>1, <1>2, <1>8, <1>9, <1>10, <1>11
  DEF OnceInv, WaitingOnce, PipedOnce, Untouched
<1>13. WorkedOnOnce'
  <2> SUFFICES ASSUME NEW v \in Worker, NEW i \in Request, AtWorker(i, v)
               PROVE  /\ i <= sent /\ answered'[i] = 0
                      /\ wpc[v] = "work" => executed[i] = 0
                      /\ wpc[v] = "reply" => Executed(i, result[v])
                      /\ \A u \in Worker :
                           (u # v => ~AtWorker(i, u)) /\ ~Answers(replyq'[u], i)
    BY <1>1, <1>11 DEF WorkedOnOnce, Executed
  <2>1. i # m
    BY <1>9
  <2> QED
    BY <1>8, <1>10, <2>1 DEF OnceInv, WorkedOnOnce
<1>14. RepliedOnce'
  <2>1. \A v \in Worker : DistinctIds(replyq'[v])
    BY <1>3, <1>5, <1>6
  <2>2. ASSUME NEW v \in Worker, NEW i \in Request, Answers(replyq'[v], i)
        PROVE  /\ i <= sent /\ answered'[i] = 0
               /\ \A u \in Worker : u # v => ~Answers(replyq'[u], i)
    BY <1>8, <1>10, <2>2 DEF OnceInv, RepliedOnce
  <2>3. ASSUME NEW v \in Worker, NEW k \in 1 .. Len(replyq'[v])
        PROVE  Executed(replyq'[v][k].id, replyq'[v][k].code)
    <3>1. CASE v = w
      <4>1. k + 1 \in 1 .. Len(replyq[w]) /\ replyq'[v][k] = replyq[w][k + 1]
        BY <1>3, <1>5, <2>3, <3>1
      <4> QED
        BY <4>1 DEF OnceInv, RepliedOnce
    <3>2. CASE v # w
      BY <1>5, <2>3, <3>2 DEF OnceInv, RepliedOnce
    <3> QED
      BY <3>1, <3>2
  <2> QED
    BY <1>1, <2>1, <2>2, <2>3 DEF RepliedOnce, Executed
<1>15. CountedOnce'
  <2> SUFFICES ASSUME NEW i \in Request
               PROVE  /\ executed[i] \in {0, 1} /\ answered'[i] \in {0, 1}
                      /\ i > sent => executed[i] = 0 /\ answered'[i] = 0
    BY <1>1 DEF CountedOnce
  <2>1. i > sent => i # m
    BY <1>2, <1>9, Numbers
  <2> QED
    BY <1>10, <2>1 DEF OnceInv, CountedOnce
<1> QED
  BY <1>12, <1>13, <1>14, <1>15 DEF OnceInv

(* A service that throws, whether the loop goes on or the process ends,    *)
(* leaves its request executed once.                                       *)
LEMMA OnceThrown ==
  ASSUME TypeInv, OnceInv, NEW w \in Worker,
         CallAbandoned(w) \/ ServiceThrows(w)
  PROVE  OnceInv'
<1>1. /\ wpc[w] = "work" /\ executed' = [executed EXCEPT ![job[w]] = @ + 1]
      /\ \A v \in Worker : wpc'[v] = "crashed" \/ wpc'[v] = IF v = w THEN "recv"
                                                            ELSE wpc[v]
      /\ UNCHANGED <<sent, waiting, pipe, job, result, replyq, answered>>
  BY DEF CallAbandoned, ServiceThrows, Goto, Crash, frontVars, backVars, TypeInv,
         TypeOK
<1>2. PICK m \in Request : m = job[w]
  BY <1>1 DEF TypeInv
<1>3. AtWorker(m, w) /\ waiting \subseteq Request /\ executed \in [Request -> Nat]
  BY <1>1, <1>2 DEF AtWorker, TypeInv, TypeOK
<1>4. /\ executed[m] = 0 /\ m <= sent
      /\ \A v \in Worker : ~Answers(replyq[v], m)
  BY <1>1, <1>3 DEF OnceInv, WorkedOnOnce
<1>5. executed'[m] = 1 /\ \A i \in Request : i # m => executed'[i] = executed[i]
  BY <1>1, <1>2, <1>3, <1>4
<1>6. \A i \in Request, v \in Worker :
        AtWorker(i, v)' => AtWorker(i, v) /\ v # w /\ wpc'[v] = wpc[v]
  BY <1>1 DEF AtWorker
<1>7. m \notin waiting /\ \A v \in Worker : ~Has(pipe[v], m)
  BY <1>3 DEF OnceInv, WaitingOnce, PipedOnce
<1>8. WaitingOnce' /\ PipedOnce' /\ WorkedOnOnce'
  <2>1. \A i \in Request, v \in Worker : AtWorker(i, v)' => i # m
    BY <1>3, <1>6 DEF OnceInv, WorkedOnOnce
  <2>2. WorkedOnOnce'
    BY <1>1, <1>5, <1>6, <2>1 DEF OnceInv, WorkedOnOnce, Executed
  <2>3. WaitingOnce' /\ PipedOnce'
    BY <1>1, <1>3, <1>5, <1>6, <1>7
    DEF OnceInv, WaitingOnce, PipedOnce, Untouched
  <2> QED
    BY <2>2, <2>3
<1>9. RepliedOnce'
  <2>1. ASSUME NEW v \in Worker, NEW k \in 1 .. Len(replyq[v])
        PROVE  Executed(replyq[v][k].id, replyq[v][k].code)'
    <3>1. replyq[v][k] \in Reply
      BY Queue DEF TypeInv, TypeOK
    <3>2. PICK i \in Request : i = replyq[v][k].id
      BY <3>1 DEF Reply
    <3>3. i # m
      BY <1>4, <3>2 DEF Answers
    <3> QED
      BY <1>1, <1>5, <3>2, <3>3 DEF OnceInv, RepliedOnce, Executed
  <2> QED
    BY <1>1, <2>1 DEF OnceInv, RepliedOnce
<1>10. CountedOnce'
  <2> SUFFICES ASSUME NEW i \in Request
               PROVE  /\ executed'[i] \in {0, 1} /\ answered[i] \in {0, 1}
                      /\ i > sent => executed'[i] = 0 /\ answered[i] = 0
    BY <1>1 DEF CountedOnce
  <2>1. sent \in Nat
    BY Numbers DEF TypeInv, TypeOK
  <2>2. i > sent => i # m
    BY <1>4, <2>1, Numbers
  <2> QED
    BY <1>5, <2>2 DEF OnceInv, CountedOnce
<1> QED
  BY <1>8, <1>9, <1>10 DEF OnceInv

LEMMA OnceStep == TypeInv /\ OnceInv /\ [Next]_vars => OnceInv'
<1> SUFFICES ASSUME TypeInv, OnceInv, [Next]_vars
             PROVE  OnceInv'
  OBVIOUS
<1>1. wpc \in [Worker -> WorkerPoint] /\ pipe \in [Worker -> Seq(Message)]
  BY DEF TypeInv, TypeOK, WorkerPoint
<1>2. ASSUME UNCHANGED <<sent, waiting, backVars, workerVars, replyq,
                         executed, answered>>
      PROVE  OnceInv'
  BY <1>2, OnceFewer DEF AtWorker, backVars, workerVars
<1>3. ASSUME NEW w \in Worker, NEW l \in WorkerPoint \ {"work", "reply"},
             Goto(w, l), pipe' = pipe \/ pipe' = [pipe EXCEPT ![w] = <<>>],
             UNCHANGED <<sent, waiting, job, result, replyq, executed, answered>>
      PROVE  OnceInv'
  <2>1. \A v \in Worker, i \in Request :
          AtWorker(i, v)' => AtWorker(i, v) /\ wpc'[v] = wpc[v]
    BY <1>1, <1>3 DEF AtWorker, Goto
  <2>2. \A v \in Worker : pipe'[v] = pipe[v] \/ pipe'[v] = <<>>
    BY <1>1, <1>3
  <2> QED
    BY <1>3, <2>1, <2>2, OnceFewer
<1>4. ASSUME \A w \in Worker : wpc'[w] = "crashed",
             UNCHANGED <<sent, waiting, pipe, job, result, replyq, executed,
                         answered>>
      PROVE  OnceInv'
  BY <1>4, OnceFewer DEF AtWorker
<1>5. CASE UNCHANGED vars
  BY <1>2, <1>5 DEF vars, frontVars, history
<1>6. CASE StartBinds \/ ProxyStart \/ StartBindFails \/ ProxyTerminates
           \/ ProxyFails
  BY <1>2, <1>6 DEF StartBinds, ProxyStart, StartBindFails, ProxyTerminates,
     ProxyFails, frontVars, history
<1>7. ASSUME NEW w \in Worker, StartSpawns(w)
      PROVE  OnceInv'
  BY <1>3, <1>7 DEF StartSpawns, Goto, WorkerPoint, frontVars, backVars, history
<1>8. CASE ProxyForwardsStop
  <2>1. waiting' \subseteq waiting /\ TERMINATE \in Message
    BY <1>8, Numbers DEF ProxyForwardsStop
  <2> QED
    BY <1>8, <2>1, OnceGiven DEF ProxyForwardsStop
<1>9. ASSUME NEW i \in Request, ProxyForwardsRequest(i)
      PROVE  OnceInv'
  <2>1. waiting' \subseteq waiting /\ i \in Message
    BY <1>9, Numbers DEF ProxyForwardsRequest
  <2> QED
    BY <1>9, <2>1, OnceGiven DEF ProxyForwardsRequest
<1>10. ASSUME NEW w \in Worker, NoticeGone(w)
       PROVE  OnceInv'
  BY <1>10, OnceFewer DEF NoticeGone, AtWorker, frontVars, workerVars, history
<1>11. ASSUME NEW w \in Worker, WorkerConnects(w)
       PROVE  OnceInv'
  BY <1>3, <1>11 DEF WorkerConnects, Goto, WorkerPoint, frontVars, history
<1>12. ASSUME NEW w \in Worker, WorkerDiscards(w)
       PROVE  OnceInv'
  BY <1>3, <1>12 DEF WorkerDiscards, Goto, WorkerPoint, frontVars, backVars
<1>13. ASSUME NEW w \in Worker, WorkerSendFails(w)
       PROVE  OnceInv'
  BY <1>3, <1>13 DEF WorkerSendFails, Goto, WorkerPoint, frontVars, backVars
<1>14. ASSUME NEW w \in Worker, WorkerLeaves(w)
       PROVE  OnceInv'
  BY <1>3, <1>14 DEF WorkerLeaves, Goto, WorkerPoint, frontVars, history
<1>15. ASSUME NEW w \in Worker, WorkerRejects(w) \/ WorkerCalls(w)
       PROVE  OnceInv'
  <2>1. /\ wpc[w] = "work" /\ wpc' = [wpc EXCEPT ![w] = "reply"]
        /\ \E c \in {ZEC_SUCCESS, ZEC_NOSUCHMETHOD, ZEC_METHODNOTIMPLEMENTED,
                     ZEC_DATACORRUPTED} :
             /\ result' = [result EXCEPT ![w] = c]
             /\ \/ executed' = executed /\ c # ZEC_SUCCESS
                \/ /\ executed' = [executed EXCEPT ![job[w]] = @ + 1]
                   /\ c # ZEC_NOSUCHMETHOD
        /\ UNCHANGED <<sent, waiting, pipe, job, replyq, answered>>
    BY <1>15 DEF WorkerRejects, WorkerCalls, ZError, Goto, frontVars, backVars,
       history, ZEC_SUCCESS, ZEC_NOSUCHMETHOD, ZEC_METHODNOTIMPLEMENTED,
       ZEC_DATACORRUPTED
  <2>2. result \in [Worker -> ErrorCodeE]
    BY DEF TypeInv, TypeOK
  <2> QED
    BY <1>1, <2>1, <2>2, OnceWorked
<1>16. ASSUME NEW p \in Closer,
              CloseBegins(p) \/ CloseUnbinds(p) \/ WorkerStop(p) \/ CloseJoins(p)
              \/ ProxyStop(p)
       PROVE  OnceInv'
  BY <1>2, <1>16 DEF CloseBegins, CloseUnbinds, WorkerStop, CloseJoins,
     ProxyStop, frontVars, history
<1>17. ASSUME NEW p \in Closer, CloseSockets(p) \/ CloseUnbindThrows(p)
       PROVE  OnceInv'
  <2>1. UNCHANGED <<sent, waiting, backVars, job, result, replyq, executed,
                    answered>>
    BY <1>17 DEF CloseSockets, CloseUnbindThrows, frontVars, history
  <2>2. UNCHANGED wpc \/ \A w \in Worker : wpc'[w] = "crashed"
    BY <1>17 DEF CloseSockets, CloseUnbindThrows, Crash
  <2> QED
    BY <1>2, <1>4, <2>1, <2>2 DEF workerVars, backVars
<1> QED
  BY <1>5, <1>6, <1>7, <1>8, <1>9, <1>10, <1>11, <1>12, <1>13, <1>14, <1>15,
     <1>16, <1>17, OnceSent, OnceReceived, OnceReplied, OnceForwarded,
     OnceThrown DEF Next, StartStep, WorkerStep, CloseStep

(* No request is executed or answered twice, whatever fails and however    *)
(* the server is stopped: a request is with one worker only, and when a    *)
(* reply cannot be sent the worker goes on to the next request.            *)
THEOREM ExecutedAndAnsweredOnce == Spec => []AtMostOnce
<1>1. TypeInv /\ OnceInv => AtMostOnce
  <2> SUFFICES ASSUME TypeInv, OnceInv
               PROVE  AtMostOnce
    OBVIOUS
  <2>1. \A i \in Request : executed[i] <= 1 /\ answered[i] <= 1
    BY DEF OnceInv, CountedOnce
  <2>2. ASSUME NEW w \in Worker, NEW k \in 1 .. Len(replyq[w])
        PROVE  /\ answered[replyq[w][k].id] = 0
               /\ Executed(replyq[w][k].id, replyq[w][k].code)
    <3>1. replyq[w][k] \in Reply
      BY Queue DEF TypeInv, TypeOK
    <3>2. PICK i \in Request : i = replyq[w][k].id
      BY <3>1 DEF Reply
    <3>3. Answers(replyq[w], i)
      BY <3>2 DEF Answers
    <3> QED
      BY <3>2, <3>3 DEF OnceInv, RepliedOnce
  <2> QED
    BY <2>1, <2>2 DEF AtMostOnce, Executed
<1> QED
  BY <1>1, TypeInit, TypeStep, OnceInit, OnceStep, PTL DEF Spec

-----------------------------------------------------------------------------
(* No request disappears.                                                  *)

Quiet == "quiet" \in Caution

OnlyStops(q) == \A k \in 1 .. Len(q) : q[k] = TERMINATE
StopsLast(q) == \A j, k \in 1 .. Len(q) :
                  j < k /\ q[j] = TERMINATE => q[k] = TERMINATE

NoStops ==
  /\ workil = 0
  /\ \A w \in Worker :
       ~Has(pipe[w], TERMINATE) /\ wpc[w] \notin {"leaving", "gone"}

(* What the callers of Start and Close find: nothing was sent before Start *)
(* and nothing waits at a quiet server that is being stopped.              *)
LifeInv ==
  /\ startPc = "new" => ~started /\ ~bound /\ sent = 0 /\ waiting = {}
  /\ startPc \in {"spawn", "proxy"} =>
       /\ closePc["dtor"] = "none"
       /\ closePc["stop"] = "none" => started
       /\ Quiet /\ closePc["stop"] # "none" => waiting = {}
  /\ \A p \in Closer :
       /\ closePc[p] \in {"unbind", "wstop"} => startPc # "new"
       /\ closePc[p] = "wstop" => ~started

(* TERMINATEs come after the requests, so that nobody leaves unread ones.  *)
StopInv ==
  /\ started \/ startPc = "new" => NoStops
  /\ Quiet => \A w \in Worker :
       /\ StopsLast(pipe[w])
       /\ wpc[w] \in {"leaving", "gone"} => OnlyStops(pipe[w])
  /\ Noreply => \A w \in Worker :
       pipe[w] = <<>> /\ wpc[w] \notin {"work", "reply"}

LEMMA StopAppended ==
  ASSUME NEW q \in Seq(Message), NEW m \in Message
  PROVE  /\ m = TERMINATE /\ StopsLast(q) => StopsLast(Append(q, m))
         /\ m = TERMINATE /\ OnlyStops(q) => OnlyStops(Append(q, m))
         /\ ~Has(q, TERMINATE) => StopsLast(Append(q, m))
<1>1. PICK n \in Nat : n = Len(q)
  BY Queue
<1>2. PICK a \in Seq(Message) : a = Append(q, m)
  BY Queue
<1>3. /\ Len(a) = n + 1 /\ a[n + 1] = m
      /\ \A k \in 1 .. n : a[k] = q[k]
  BY <1>1, <1>2, Queue
<1>4. \A k : k \in 1 .. Len(a) <=> k \in 1 .. n \/ k = n + 1
  BY <1>3
<1>5. \A j, k \in 1 .. n + 1 : j < k => j \in 1 .. n
  OBVIOUS
<1>6. ASSUME m = TERMINATE, StopsLast(q)
      PROVE  StopsLast(a)
  BY <1>1, <1>3, <1>4, <1>5, <1>6 DEF StopsLast
<1>7. ASSUME m = TERMINATE, OnlyStops(q)
      PROVE  OnlyStops(a)
  BY <1>1, <1>3, <1>4, <1>7 DEF OnlyStops
<1>8. ASSUME ~Has(q, TERMINATE)
      PROVE  StopsLast(a)
  BY <1>1, <1>3, <1>4, <1>5, <1>8 DEF StopsLast, Has
<1> QED
  BY <1>2, <1>6, <1>7, <1>8

LEMMA StopRemoved ==
  ASSUME NEW q \in Seq(Message), q # <<>>
  PROVE  StopsLast(q) =>
           /\ StopsLast(Tail(q))
           /\ Head(q) = TERMINATE => OnlyStops(Tail(q))
<1>1. PICK n \in Nat : n = Len(q) /\ n >= 1
  BY Queue
<1>2. PICK t \in Seq(Message) : t = Tail(q)
  BY Queue
<1>3. /\ Len(t) = n - 1 /\ Head(q) = q[1]
      /\ \A k \in 1 .. n - 1 : t[k] = q[k + 1]
  BY <1>1, <1>2, Queue
<1>4. /\ 1 \in 1 .. n
      /\ \A k \in 1 .. n - 1 : k + 1 \in 1 .. n /\ 1 < k + 1
      /\ \A j, k \in 1 .. n - 1 : j < k => j + 1 < k + 1
  BY <1>1
<1>5. ASSUME StopsLast(q)
      PROVE  StopsLast(t) /\ (Head(q) = TERMINATE => OnlyStops(t))
  BY <1>1, <1>3, <1>4, <1>5 DEF StopsLast, OnlyStops
<1> QED
  BY <1>2, <1>5

LEMMA LifeInit == Init => LifeInv /\ StopInv
<1>1. ~Has(<<>>, TERMINATE) /\ OnlyStops(<<>>) /\ StopsLast(<<>>)
  BY DEF Has, OnlyStops, StopsLast
<1> QED
  BY <1>1 DEF Init, LifeInv, StopInv, NoStops, Closer

LEMMA LifeStep == TypeInv /\ LifeInv /\ [Next]_vars => LifeInv'
<1> SUFFICES ASSUME TypeInv, LifeInv, [Next]_vars
             PROVE  LifeInv'
  OBVIOUS
<1>0. closePc \in [Closer -> ClosePoint] /\ Closer = {"stop", "dtor"}
  BY DEF TypeInv, TypeOK, Closer, ClosePoint
<1>1. ASSUME UNCHANGED <<startPc, started, bound, closePc, sent>>,
             waiting' \subseteq waiting
      PROVE  LifeInv'
  BY <1>1 DEF LifeInv
<1>2. CASE UNCHANGED vars
  BY <1>1, <1>2 DEF vars, startVars, closeVars, frontVars
<1>3. CASE ProxyForwardsStop \/ (\E i \in Request : ProxyForwardsRequest(i))
  BY <1>1, <1>3 DEF ProxyForwardsStop, ProxyForwardsRequest, startVars, closeVars
<1>4. ASSUME NEW w \in Worker,
             \/ WorkerStep(w) \/ ProxyForwardsReply(w) \/ NoticeGone(w)
             \/ CallAbandoned(w) \/ WorkerSendFails(w)
      PROVE  LifeInv'
  BY <1>1, <1>4 DEF WorkerStep, WorkerConnects, WorkerReceives, WorkerDiscards,
     WorkerRejects, WorkerCalls, WorkerReplies, WorkerLeaves,
     ProxyForwardsReply, NoticeGone, CallAbandoned, WorkerSendFails, startVars,
     closeVars,
     frontVars
<1>5. ASSUME Crash
      PROVE  LifeInv'
  BY <1>5 DEF Crash, LifeInv, Closer
<1>6. CASE StartBinds \/ ProxyStart \/ StartBindFails \/ ProxyTerminates
           \/ ProxyFails
  <2>1. UNCHANGED <<closePc, sent, waiting>>
    BY <1>6 DEF StartBinds, ProxyStart, StartBindFails, ProxyTerminates,
       ProxyFails, closeVars, frontVars
  <2>2. CASE startPc' = "ended" /\ UNCHANGED started
    BY <1>0, <2>1, <2>2 DEF LifeInv
  <2>3. CASE StartBinds
    BY <1>0, <2>1, <2>3 DEF StartBinds, LifeInv
  <2>4. CASE ProxyStart
    BY <1>0, <2>1, <2>4 DEF ProxyStart, LifeInv
  <2> QED
    BY <1>6, <2>2, <2>3, <2>4 DEF StartBindFails, ProxyTerminates, ProxyFails
<1>7. ASSUME NEW w \in Worker, StartSpawns(w) \/ ServiceThrows(w)
      PROVE  LifeInv'
  BY <1>1, <1>5, <1>7 DEF StartSpawns, ServiceThrows, closeVars, frontVars
<1>8. CASE ClientSends
  BY <1>0, <1>8 DEF ClientSends, Closing, LifeInv, Quiet, startVars, closeVars
<1>9. ASSUME NEW p \in Closer, NEW l \in ClosePoint, CloseGoto(p, l),
             UNCHANGED <<startPc, sent, waiting>>,
             UNCHANGED started \/ ~started', bound' => bound,
             startPc \in {"spawn", "proxy"} => p = "stop",
             closePc[p] = "none" /\ startPc \in {"spawn", "proxy"} /\ Quiet =>
               waiting = {},
             l \in {"unbind", "wstop"} => startPc # "new",
             l = "wstop" => ~started',
             closePc[p] = "none" \/ UNCHANGED started \/ l = "wstop",
             l # "none"
      PROVE  LifeInv'
  <2>1. closePc'[p] = l /\ \A q \in Closer : q # p => closePc'[q] = closePc[q]
    BY <1>0, <1>9 DEF CloseGoto
  <2> QED
    BY <1>0, <1>9, <2>1 DEF LifeInv
<1>10. ASSUME NEW p \in Closer, CloseBegins(p)
       PROVE  LifeInv'
  <2>1. /\ closePc[p] = "none"
        /\ startPc \in {"spawn", "proxy"} => p = "stop" /\ (Quiet => waiting = {})
        /\ UNCHANGED <<startPc, started, bound, sent, waiting>>
    BY <1>0, <1>10 DEF CloseBegins, MayClose, Quiet, startVars, frontVars
  <2>2. CASE started /\ CloseGoto(p, "unbind")
    BY <1>9, <2>1, <2>2 DEF LifeInv, ClosePoint
  <2>3. CASE CloseGoto(p, "sockets")
    BY <1>9, <2>1, <2>3 DEF ClosePoint
  <2> QED
    BY <1>10, <2>2, <2>3 DEF CloseBegins
<1>11. ASSUME NEW p \in Closer, CloseUnbinds(p)
       PROVE  LifeInv'
  BY <1>0, <1>9, <1>11 DEF CloseUnbinds, LifeInv, ClosePoint, frontVars
<1>12. ASSUME NEW p \in Closer, WorkerStop(p) \/ CloseJoins(p) \/ ProxyStop(p)
       PROVE  LifeInv'
  BY <1>0, <1>9, <1>12 DEF WorkerStop, CloseJoins, ProxyStop, LifeInv,
     ClosePoint, startVars, frontVars
<1>13. ASSUME NEW p \in Closer, CloseSockets(p) \/ CloseUnbindThrows(p)
       PROVE  LifeInv'
  <2>1. Crash \/ \E l \in {"done", "threw"} :
                   CloseGoto(p, l) /\ UNCHANGED startPc /\ bound' \in {bound, FALSE}
    BY <1>13 DEF CloseSockets, CloseUnbindThrows
  <2>2. UNCHANGED <<started, sent, waiting>> /\ closePc[p] \in {"sockets", "unbind"}
    BY <1>13 DEF CloseSockets, CloseUnbindThrows, frontVars
  <2>3. startPc \in {"spawn", "proxy"} => p = "stop"
    BY <1>0, <2>2 DEF LifeInv
  <2>4. ASSUME NEW l \in {"done", "threw"}, CloseGoto(p, l), UNCHANGED startPc,
               bound' \in {bound, FALSE}
        PROVE  LifeInv'
    <3>1. l \in ClosePoint \ {"none", "unbind", "wstop"}
      BY DEF ClosePoint
    <3>2. bound' => bound
      BY <2>4
    <3> QED
      BY <1>9, <2>2, <2>3, <2>4, <3>1, <3>2
  <2> QED
    BY <1>5, <2>1, <2>4
<1> QED
  BY <1>2, <1>3, <1>4, <1>6, <1>7, <1>8, <1>10, <1>11, <1>12, <1>13
  DEF Next, StartStep, CloseStep

(* Steps that neither bring a TERMINATE to the workers nor start anything. *)
LEMMA StopFewer ==
  ASSUME TypeInv, StopInv, UNCHANGED workil,
         started' \/ startPc' = "new" => started \/ startPc = "new",
         \A w \in Worker : pipe'[w] = pipe[w] \/ pipe'[w] = <<>>,
         \A w \in Worker : wpc'[w] \in {"leaving", "gone"} =>
                             wpc[w] \in {"leaving", "gone"},
         \A w \in Worker : wpc'[w] \in {"work", "reply"} =>
                             wpc[w] \in {"work", "reply"}
  PROVE  StopInv'
<1>1. ~Has(<<>>, TERMINATE) /\ OnlyStops(<<>>) /\ StopsLast(<<>>)
  BY DEF Has, OnlyStops, StopsLast
<1>2. \A w \in Worker : /\ Has(pipe'[w], TERMINATE) => Has(pipe[w], TERMINATE)
                        /\ OnlyStops(pipe[w]) => OnlyStops(pipe'[w])
                        /\ StopsLast(pipe[w]) => StopsLast(pipe'[w])
                        /\ pipe[w] = <<>> => pipe'[w] = <<>>
  BY <1>1
<1>3. (started \/ startPc = "new" => NoStops)'
  BY <1>2 DEF StopInv, NoStops
<1> QED
  BY <1>2, <1>3 DEF StopInv, Quiet

LEMMA StopGiven ==
  ASSUME TypeInv, LifeInv, StopInv, NEW m \in Message, GiveToWorker(m), ~Noreply,
         UNCHANGED <<startPc, started, wpc>>,
         \/ m = TERMINATE /\ workil > 0
         \/ /\ m # TERMINATE /\ UNCHANGED workil
            /\ startPc = "proxy" /\ waiting # {}
  PROVE  StopInv'
<1>1. PICK w \in Worker :
        /\ pipe'[w] = IF wpc[w] = "gone" THEN pipe[w] ELSE Append(pipe[w], m)
        /\ \A v \in Worker \ {w} : pipe'[v] = pipe[v]
  BY Given
<1>2. pipe[w] \in Seq(Message)
  BY DEF TypeInv, TypeOK
<1>3. /\ m = TERMINATE /\ StopsLast(pipe[w]) => StopsLast(Append(pipe[w], m))
      /\ m = TERMINATE /\ OnlyStops(pipe[w]) => OnlyStops(Append(pipe[w], m))
      /\ ~Has(pipe[w], TERMINATE) => StopsLast(Append(pipe[w], m))
      /\ \A x : Has(Append(pipe[w], m), x) <=> Has(pipe[w], x) \/ x = m
  BY <1>2, StopAppended, Appended
<1>4. CASE m = TERMINATE
  <2>1. ~started /\ startPc # "new"
    BY <1>4 DEF StopInv, NoStops
  <2>2. ASSUME Quiet, NEW v \in Worker
        PROVE  /\ StopsLast(pipe'[v])
               /\ wpc[v] \in {"leaving", "gone"} => OnlyStops(pipe'[v])
    <3>1. /\ StopsLast(pipe[v])
          /\ wpc[v] \in {"leaving", "gone"} => OnlyStops(pipe[v])
      BY <2>2 DEF StopInv
    <3>2. pipe'[v] = pipe[v] \/ (v = w /\ pipe'[v] = Append(pipe[v], m))
      BY <1>1
    <3> QED
      BY <1>3, <1>4, <3>1, <3>2
  <2> QED
    BY <2>1, <2>2 DEF StopInv, NoStops, Quiet
<1>5. CASE m # TERMINATE
  <2>1. startPc = "proxy" /\ waiting # {} /\ UNCHANGED workil
    BY <1>5
  <2>2. Quiet => started
    BY <2>1 DEF LifeInv
  <2>3. ASSUME NEW v \in Worker, ~Has(pipe[v], TERMINATE)
        PROVE  ~Has(pipe'[v], TERMINATE)
    <3>1. pipe'[v] = pipe[v] \/ (v = w /\ pipe'[v] = Append(pipe[v], m))
      BY <1>1
    <3> QED
      BY <1>3, <1>5, <2>3, <3>1
  <2>4. started \/ startPc = "new" => NoStops'
    BY <2>1, <2>3 DEF StopInv, NoStops
  <2>5. ASSUME Quiet, NEW v \in Worker
        PROVE  /\ StopsLast(pipe'[v])
               /\ wpc[v] \notin {"leaving", "gone"}
    <3>1. /\ StopsLast(pipe[v]) /\ ~Has(pipe[v], TERMINATE)
          /\ wpc[v] \notin {"leaving", "gone"}
      BY <2>2, <2>5 DEF StopInv, NoStops
    <3>2. pipe'[v] = pipe[v] \/ (v = w /\ pipe'[v] = Append(pipe[v], m))
      BY <1>1
    <3> QED
      BY <1>3, <3>1, <3>2
  <2> QED
    BY <2>4, <2>5 DEF StopInv, Quiet
<1> QED
  BY <1>4, <1>5

LEMMA StopReceived ==
  ASSUME TypeInv, StopInv, NEW w \in Worker, WorkerReceives(w)
  PROVE  StopInv'
<1>1. /\ pipe \in [Worker -> Seq(Message)] /\ wpc \in [Worker -> WorkerPoint]
      /\ pipe[w] # <<>> /\ wpc[w] = "recv"
      /\ pipe' = [pipe EXCEPT ![w] = Tail(pipe[w])]
      /\ wpc' = [wpc EXCEPT ![w] =
                   IF Head(pipe[w]) = TERMINATE THEN "leaving" ELSE "work"]
      /\ UNCHANGED <<startPc, started, workil>>
  BY DEF WorkerReceives, Goto, frontVars, startVars, TypeInv, TypeOK, WorkerPoint
<1>2. /\ Has(pipe[w], TERMINATE) <=>
           TERMINATE = Head(pipe[w]) \/ Has(Tail(pipe[w]), TERMINATE)
      /\ StopsLast(pipe[w]) =>
           /\ StopsLast(Tail(pipe[w]))
           /\ Head(pipe[w]) = TERMINATE => OnlyStops(Tail(pipe[w]))
  BY <1>1, Removed, StopRemoved
<1>3. /\ pipe'[w] = Tail(pipe[w])
      /\ wpc'[w] = IF Head(pipe[w]) = TERMINATE THEN "leaving" ELSE "work"
      /\ \A v \in Worker : v # w => pipe'[v] = pipe[v] /\ wpc'[v] = wpc[v]
  BY <1>1
<1>4. ~Noreply
  BY <1>1 DEF StopInv
<1>5. ASSUME NoStops
      PROVE  NoStops'
  <2>1. Head(pipe[w]) # TERMINATE /\ ~Has(pipe'[w], TERMINATE)
    BY <1>2, <1>3, <1>5 DEF NoStops
  <2> QED
    BY <1>1, <1>3, <1>5, <2>1 DEF NoStops
<1>6. ASSUME Quiet, NEW v \in Worker
      PROVE  /\ StopsLast(pipe'[v])
             /\ wpc'[v] \in {"leaving", "gone"} => OnlyStops(pipe'[v])
  <2>1. CASE v = w
    BY <1>2, <1>3, <1>6, <2>1 DEF StopInv
  <2>2. CASE v # w
    BY <1>3, <1>6, <2>2 DEF StopInv
  <2> QED
    BY <2>1, <2>2
<1> QED
  BY <1>1, <1>4, <1>5, <1>6 DEF StopInv, Quiet

LEMMA StopStep == TypeInv /\ LifeInv /\ StopInv /\ [Next]_vars => StopInv'
<1> SUFFICES ASSUME TypeInv, LifeInv, StopInv, [Next]_vars
             PROVE  StopInv'
  OBVIOUS
<1>1. /\ wpc \in [Worker -> WorkerPoint] /\ pipe \in [Worker -> Seq(Message)]
      /\ Closer = {"stop", "dtor"}
  BY DEF TypeInv, TypeOK, WorkerPoint, Closer
<1>2. ASSUME UNCHANGED <<workil, pipe>>,
             started' \/ startPc' = "new" => started \/ startPc = "new",
             UNCHANGED wpc \/ \A w \in Worker : wpc'[w] = "crashed"
      PROVE  StopInv'
  BY <1>2, StopFewer
<1>3. ASSUME NEW w \in Worker, NEW l, Goto(w, l),
             UNCHANGED <<startPc, started, workil>>,
             pipe' = pipe \/ pipe' = [pipe EXCEPT ![w] = <<>>],
             l \in {"connecting", "recv"}
             \/ (l = "gone" /\ wpc[w] = "leaving")
             \/ (l = "reply" /\ wpc[w] = "work")
      PROVE  StopInv'
  <2>1. \A v \in Worker :
          /\ pipe'[v] = pipe[v] \/ pipe'[v] = <<>>
          /\ wpc'[v] \in {"leaving", "gone"} => wpc[v] \in {"leaving", "gone"}
          /\ wpc'[v] \in {"work", "reply"} => wpc[v] \in {"work", "reply"}
    BY <1>1, <1>3 DEF Goto
  <2> QED
    BY <1>3, <2>1, StopFewer
<1>4. CASE UNCHANGED vars
  BY <1>2, <1>4 DEF vars, startVars, frontVars, backVars, workerVars
<1>5. CASE StartBinds \/ ProxyStart \/ StartBindFails \/ ProxyTerminates
           \/ ProxyFails \/ ClientSends
  BY <1>2, <1>5 DEF StartBinds, ProxyStart, StartBindFails, ProxyTerminates,
     ProxyFails, ClientSends, startVars, frontVars, backVars, workerVars
<1>6. ASSUME NEW w \in Worker, StartSpawns(w) \/ WorkerConnects(w)
      PROVE  StopInv'
  BY <1>3, <1>6 DEF StartSpawns, WorkerConnects, Goto, startVars, frontVars,
     backVars
<1>7. CASE ProxyForwardsStop
  BY <1>7, Numbers, StopGiven DEF ProxyForwardsStop, startVars, workerVars
<1>8. ASSUME NEW i \in Request, ProxyForwardsRequest(i)
      PROVE  StopInv'
  <2>1. i \in Message /\ i # TERMINATE
    BY Numbers
  <2> QED
    BY <1>8, <2>1, StopGiven DEF ProxyForwardsRequest, Proxying, startVars,
       workerVars
<1>9. ASSUME NEW w \in Worker, ProxyForwardsReply(w) \/ NoticeGone(w)
      PROVE  StopInv'
  BY <1>2, <1>9 DEF ProxyForwardsReply, NoticeGone, startVars, frontVars,
     backVars, workerVars
<1>10. ASSUME NEW w \in Worker,
              \/ WorkerDiscards(w) \/ WorkerRejects(w) \/ WorkerCalls(w)
              \/ WorkerReplies(w) \/ CallAbandoned(w) \/ WorkerSendFails(w)
              \/ WorkerLeaves(w)
       PROVE  StopInv'
  <2>1. UNCHANGED <<startPc, started, workil>>
    BY <1>10 DEF WorkerDiscards, WorkerRejects, WorkerCalls, WorkerReplies,
       CallAbandoned, WorkerSendFails, WorkerLeaves, startVars, frontVars
  <2>2. CASE Goto(w, "recv") /\ UNCHANGED pipe
    BY <1>3, <2>1, <2>2
  <2>3. CASE WorkerRejects(w) \/ WorkerCalls(w)
    BY <1>3, <2>1, <2>3 DEF WorkerRejects, WorkerCalls, ZError, backVars
  <2>4. CASE WorkerLeaves(w)
    BY <1>3, <2>1, <2>4 DEF WorkerLeaves
  <2> QED
    BY <1>10, <2>2, <2>3, <2>4 DEF WorkerDiscards, WorkerReplies,
       CallAbandoned, WorkerSendFails, backVars
<1>11. ASSUME NEW w \in Worker, ServiceThrows(w)
       PROVE  StopInv'
  BY <1>2, <1>11 DEF ServiceThrows, Crash, frontVars, backVars
<1>12. ASSUME NEW p \in Closer,
              CloseBegins(p) \/ CloseUnbinds(p) \/ CloseJoins(p) \/ ProxyStop(p)
       PROVE  StopInv'
  BY <1>2, <1>12 DEF CloseBegins, CloseUnbinds, CloseJoins, ProxyStop,
     LifeInv, startVars, frontVars, backVars, workerVars
<1>13. ASSUME NEW p \in Closer, WorkerStop(p)
       PROVE  StopInv'
  <2>1. ~started /\ startPc # "new" /\ UNCHANGED <<startPc, started, pipe, wpc>>
    BY <1>13 DEF WorkerStop, LifeInv, startVars, backVars, workerVars
  <2> QED
    BY <2>1 DEF StopInv, Quiet
<1>14. ASSUME NEW p \in Closer, CloseSockets(p) \/ CloseUnbindThrows(p)
       PROVE  StopInv'
  BY <1>2, <1>14 DEF CloseSockets, CloseUnbindThrows, Crash, frontVars, backVars
<1> QED
  BY <1>4, <1>5, <1>6, <1>7, <1>8, <1>9, <1>10, <1>11, <1>12, <1>13, <1>14,
     StopReceived DEF Next, StartStep, WorkerStep, CloseStep

Located(i) ==
  \/ i \in waiting \/ Handled(i)
  \/ \E w \in Worker : InPipe(i, w) \/ AtWorker(i, w)

Watched == startPc # "crashed" /\ (started \/ Quiet)

LocatedInv == Watched => \A i \in 1 .. sent : Located(i)

(* A request stays where it is, or a worker has read it.                   *)
LEMMA LocatedStays ==
  ASSUME NEW i, Located(i),
         i \in waiting => i \in waiting',
         Handled(i) => Handled(i)',
         \A w \in Worker : InPipe(i, w) => InPipe(i, w)' \/ AtWorker(i, w)',
         \A w \in Worker : AtWorker(i, w) => AtWorker(i, w)' \/ Handled(i)'
  PROVE  Located(i)'
<1>1. CASE i \in waiting \/ Handled(i)
  BY <1>1 DEF Located
<1>2. ASSUME NEW w \in Worker, InPipe(i, w) \/ AtWorker(i, w)
      PROVE  Located(i)'
  BY <1>2 DEF Located
<1> QED
  BY <1>1, <1>2 DEF Located

LEMMA LocatedGiven ==
  ASSUME TypeInv, LifeInv, StopInv, Watched, NEW i, Located(i),
         NEW m \in Message, GiveToWorker(m),
         \/ m = TERMINATE /\ UNCHANGED waiting
         \/ /\ m # TERMINATE /\ waiting' = waiting \ {m}
            /\ startPc = "proxy" /\ m \in waiting,
         UNCHANGED <<workerVars, replyq, history>>
  PROVE  Located(i)'
<1>1. PICK w \in Worker :
        /\ pipe'[w] = IF wpc[w] = "gone" THEN pipe[w] ELSE Append(pipe[w], m)
        /\ \A v \in Worker \ {w} : pipe'[v] = pipe[v]
  BY Given
<1>2. \A x : Has(Append(pipe[w], m), x) <=> Has(pipe[w], x) \/ x = m
  BY Appended DEF TypeInv, TypeOK
<1>3. ASSUME NEW v \in Worker, InPipe(i, v)
      PROVE  InPipe(i, v)'
  <2>1. pipe'[v] = pipe[v] \/ (v = w /\ pipe'[v] = Append(pipe[v], m))
    BY <1>1
  <2>2. Has(pipe'[v], i)
    BY <1>2, <1>3, <2>1 DEF InPipe, Has
  <2> QED
    BY <2>2 DEF InPipe, Has
<1>4. /\ \A v \in Worker : AtWorker(i, v) => AtWorker(i, v)'
      /\ Handled(i) => Handled(i)'
  BY DEF AtWorker, Handled, Replied, workerVars, history
<1>5. CASE i # m \/ UNCHANGED waiting
  <2>1. i \in waiting => i \in waiting'
    BY <1>5
  <2> QED
    BY <1>3, <1>4, <2>1, LocatedStays
<1>6. CASE i = m /\ m # TERMINATE /\ startPc = "proxy" /\ m \in waiting
  <2>1. started
    BY <1>6 DEF Watched, LifeInv
  <2>2. wpc[w] # "gone"
    BY <2>1 DEF StopInv, NoStops
  <2>3. Has(pipe'[w], i)
    BY <1>1, <1>2, <1>6, <2>2
  <2> QED
    BY <2>3 DEF Located, InPipe, Has
<1> QED
  BY <1>5, <1>6

LEMMA LocatedReceived ==
  ASSUME TypeInv, NEW w \in Worker, WorkerReceives(w),
         NEW i \in Request, Located(i)
  PROVE  Located(i)'
<1>1. /\ pipe \in [Worker -> Seq(Message)] /\ wpc \in [Worker -> WorkerPoint]
      /\ job \in [Worker -> Message]
      /\ pipe[w] # <<>> /\ wpc[w] = "recv"
      /\ pipe' = [pipe EXCEPT ![w] = Tail(pipe[w])]
      /\ job' = [job EXCEPT ![w] = Head(pipe[w])]
      /\ wpc' = [wpc EXCEPT ![w] =
                   IF Head(pipe[w]) = TERMINATE THEN "leaving" ELSE "work"]
      /\ UNCHANGED <<waiting, replyq, history>>
  BY DEF WorkerReceives, Goto, frontVars, TypeInv, TypeOK, WorkerPoint
<1>2. \A x : Has(pipe[w], x) <=> x = Head(pipe[w]) \/ Has(Tail(pipe[w]), x)
  BY <1>1, Removed
<1>3. i # TERMINATE
  BY Numbers
<1>4. ASSUME NEW v \in Worker, InPipe(i, v)
      PROVE  InPipe(i, v)' \/ AtWorker(i, v)'
  <2>1. CASE v # w
    BY <1>1, <1>4, <2>1 DEF InPipe
  <2>2. CASE v = w
    <3>1. i = Head(pipe[w]) \/ Has(pipe'[w], i)
      BY <1>1, <1>2, <1>4, <2>2 DEF InPipe, Has
    <3>2. i = Head(pipe[w]) => AtWorker(i, w)'
      BY <1>1, <1>3 DEF AtWorker
    <3> QED
      BY <2>2, <3>1, <3>2 DEF InPipe, Has
  <2> QED
    BY <2>1, <2>2
<1>5. \A v \in Worker : AtWorker(i, v) => AtWorker(i, v)'
  BY <1>1 DEF AtWorker
<1>6. Handled(i) => Handled(i)'
  BY <1>1 DEF Handled, Replied, history
<1> QED
  BY <1>1, <1>4, <1>5, <1>6, LocatedStays

LEMMA LocatedReplied ==
  ASSUME TypeInv, StopInv, NEW w \in Worker, WorkerReplies(w),
         NEW i \in Request, Located(i)
  PROVE  Located(i)'
<1>1. ~Noreply
  BY DEF StopInv, WorkerReplies
<1>2. /\ replyq \in [Worker -> Seq(Reply)] /\ wpc \in [Worker -> WorkerPoint]
      /\ wpc[w] = "reply" /\ wpc' = [wpc EXCEPT ![w] = "recv"]
      /\ replyq' = [replyq EXCEPT ![w] =
           Append(replyq[w], [id |-> job[w], code |-> result[w]])]
      /\ UNCHANGED <<waiting, pipe, job, history>>
  BY <1>1 DEF WorkerReplies, Goto, frontVars, backVars, TypeInv, TypeOK,
     WorkerPoint
<1>3. PICK r \in Reply : r = [id |-> job[w], code |-> result[w]]
  BY <1>2 DEF TypeInv, TypeOK, Reply
<1>4. \A x : Answers(Append(replyq[w], r), x) <=> Answers(replyq[w], x) \/ x = r.id
  BY <1>2, ReplyAppended
<1>5. \A v \in Worker : Answers(replyq[v], i) => Answers(replyq'[v], i)
  <2> SUFFICES ASSUME NEW v \in Worker, Answers(replyq[v], i)
               PROVE  Answers(replyq'[v], i)
    OBVIOUS
  <2>1. CASE v = w
    BY <1>2, <1>3, <1>4, <2>1
  <2>2. CASE v # w
    BY <1>2, <2>2
  <2> QED
    BY <2>1, <2>2
<1>6. Handled(i) => Handled(i)'
  BY <1>2, <1>5 DEF Handled, Replied, Answers, history
<1>7. ASSUME NEW v \in Worker, AtWorker(i, v)
      PROVE  AtWorker(i, v)' \/ Handled(i)'
  <2>1. CASE v # w
    BY <1>2, <1>7, <2>1 DEF AtWorker
  <2>2. CASE v = w
    <3>1. r.id = i
      BY <1>3, <1>7, <2>2 DEF AtWorker
    <3>2. Answers(replyq'[w], i)
      BY <1>2, <1>3, <1>4, <3>1
    <3> QED
      BY <3>2 DEF Handled, Replied, Answers
  <2> QED
    BY <2>1, <2>2
<1>8. \A v \in Worker : InPipe(i, v) => InPipe(i, v)'
  BY <1>2 DEF InPipe
<1> QED
  BY <1>2, <1>6, <1>7, <1>8, LocatedStays

LEMMA LocatedForwarded ==
  ASSUME TypeInv, NEW w \in Worker, ProxyForwardsReply(w),
         NEW i \in Request, Located(i)
  PROVE  Located(i)'
<1>1. /\ replyq \in [Worker -> Seq(Reply)] /\ answered \in [Request -> Nat]
      /\ replyq[w] # <<>> /\ replyq' = [replyq EXCEPT ![w] = Tail(replyq[w])]
      /\ answered' = [answered EXCEPT ![Head(replyq[w]).id] = @ + 1]
      /\ UNCHANGED <<waiting, pipe, wpc, job, dropped>>
  BY DEF ProxyForwardsReply, frontVars, backVars, workerVars, TypeInv, TypeOK
<1>2. /\ \A x : Answers(replyq[w], x)
                  <=> x = Head(replyq[w]).id \/ Answers(Tail(replyq[w]), x)
      /\ Head(replyq[w]) \in Reply
  BY <1>1, ReplyRemoved
<1>3. PICK m \in Request : m = Head(replyq[w]).id
  BY <1>2 DEF Reply
<1>4. /\ answered'[m] = answered[m] + 1 /\ answered[m] \in Nat
      /\ \A j \in Request : j # m => answered'[j] = answered[j]
  BY <1>1, <1>3
<1>5. CASE i = m
  BY <1>4, <1>5 DEF Located, Handled
<1>6. CASE i # m
  <2>1. ASSUME NEW v \in Worker, Answers(replyq[v], i)
        PROVE  Answers(replyq'[v], i)
    <3>1. CASE v = w
      BY <1>1, <1>2, <1>3, <1>6, <2>1, <3>1
    <3>2. CASE v # w
      BY <1>1, <2>1, <3>2
    <3> QED
      BY <3>1, <3>2
  <2>2. Handled(i) => Handled(i)'
    BY <1>1, <1>4, <1>6, <2>1 DEF Handled, Replied, Answers
  <2> QED
    BY <1>1, <2>2, LocatedStays DEF InPipe, AtWorker
<1> QED
  BY <1>5, <1>6

(* Only the threads that were spawned do anything.                         *)
SpawnInv == \A w \in Worker : w \notin threads => wpc[w] \in {"none", "crashed"}

LEMMA SpawnStep == TypeInv /\ SpawnInv /\ [Next]_vars => SpawnInv'
<1> SUFFICES ASSUME TypeInv, SpawnInv, [Next]_vars
             PROVE  SpawnInv'
  OBVIOUS
<1>1. wpc \in [Worker -> WorkerPoint]
  BY DEF TypeInv, TypeOK, WorkerPoint
<1>2. ASSUME NEW w \in Worker, w \in threads', NEW l, Goto(w, l),
             threads \subseteq threads'
      PROVE  SpawnInv'
  BY <1>1, <1>2 DEF SpawnInv, Goto
<1>3. ASSUME UNCHANGED threads,
             UNCHANGED wpc \/ \A w \in Worker : wpc'[w] = "crashed"
      PROVE  SpawnInv'
  BY <1>3 DEF SpawnInv
<1>4. ASSUME NEW w \in Worker, StartSpawns(w)
      PROVE  SpawnInv'
  BY <1>2, <1>4 DEF StartSpawns, Goto
<1>5. ASSUME NEW w \in Worker,
             WorkerStep(w) \/ CallAbandoned(w) \/ WorkerSendFails(w)
      PROVE  SpawnInv'
  <2>1. UNCHANGED threads /\ wpc[w] \notin {"none", "crashed"}
        /\ \E l \in WorkerPoint : Goto(w, l)
    BY <1>5 DEF WorkerStep, WorkerConnects, WorkerReceives, WorkerDiscards,
       WorkerRejects, WorkerCalls, ZError, WorkerReplies, WorkerLeaves,
       CallAbandoned, WorkerSendFails, startVars, WorkerPoint
  <2>2. w \in threads
    BY <2>1 DEF SpawnInv
  <2> QED
    BY <1>2, <2>1, <2>2
<1>6. ASSUME NEW w \in Worker,
             ProxyForwardsReply(w) \/ NoticeGone(w) \/ ServiceThrows(w)
      PROVE  SpawnInv'
  BY <1>3, <1>6 DEF ProxyForwardsReply, NoticeGone, ServiceThrows, Crash,
     startVars, workerVars
<1>7. ASSUME NEW p \in Closer,
             CloseBegins(p) \/ CloseStep(p) \/ CloseUnbindThrows(p)
      PROVE  SpawnInv'
  BY <1>3, <1>7 DEF CloseBegins, CloseStep, CloseUnbinds, WorkerStop,
     CloseJoins, ProxyStop, CloseSockets, CloseUnbindThrows, Crash,
     startVars, workerVars
<1>8. CASE \/ StartBinds \/ ProxyStart \/ StartBindFails \/ ProxyTerminates
           \/ ProxyFails \/ ClientSends \/ ProxyForwardsStop
           \/ \E i \in Request : ProxyForwardsRequest(i)
  BY <1>3, <1>8 DEF StartBinds, ProxyStart, StartBindFails, ProxyTerminates,
     ProxyFails, ClientSends, ProxyForwardsStop, ProxyForwardsRequest,
     startVars, workerVars
<1>9. CASE UNCHANGED vars
  BY <1>3, <1>9 DEF vars, startVars, workerVars
<1> QED
  BY <1>4, <1>5, <1>6, <1>7, <1>8, <1>9 DEF Next, StartStep

LEMMA LocatedStep ==
  TypeInv /\ LifeInv /\ StopInv /\ SpawnInv /\ LocatedInv /\ [Next]_vars
    => LocatedInv'
<1> SUFFICES ASSUME TypeInv, LifeInv, StopInv, SpawnInv, LocatedInv,
                    [Next]_vars, Watched', NEW i \in (1 .. sent)'
             PROVE  Located(i)'
  BY DEF LocatedInv
<1>1. /\ wpc \in [Worker -> WorkerPoint] /\ pipe \in [Worker -> Seq(Message)]
      /\ sent \in Nat
  BY Numbers DEF TypeInv, TypeOK, WorkerPoint
<1>2. ASSUME Watched, sent' = sent
      PROVE  Located(i) /\ i \in Request
  BY <1>1, <1>2, ServerAssumption DEF LocatedInv, TypeInv, TypeOK, Request
<1>3. ASSUME Watched, UNCHANGED <<sent, waiting, pipe, job, wpc, replyq,
                                  answered, dropped>>
      PROVE  Located(i)'
  BY <1>2, <1>3 DEF Located, Handled, Replied, InPipe, AtWorker
<1>4. ASSUME NEW w \in Worker, NEW l \in {"connecting", "recv", "reply"},
             Goto(w, l), wpc[w] \in {"work", "reply"} =>
               l = "reply" \/ dropped' = dropped \cup {job[w]},
             UNCHANGED <<startPc, started, sent, waiting, pipe, job, replyq,
                         answered>>,
             dropped \subseteq dropped'
      PROVE  Located(i)'
  <2>1. Located(i) /\ i \in Request
    BY <1>2, <1>4 DEF Watched
  <2>2. ASSUME NEW v \in Worker, AtWorker(i, v)
        PROVE  AtWorker(i, v)' \/ Handled(i)'
    <3>1. CASE v # w \/ l = "reply"
      BY <1>1, <1>4, <2>2, <3>1 DEF AtWorker, Goto
    <3>2. CASE v = w /\ l # "reply"
      BY <1>4, <2>2, <3>2 DEF AtWorker, Handled
    <3> QED
      BY <3>1, <3>2
  <2>3. Handled(i) => Handled(i)'
    BY <1>4 DEF Handled, Replied
  <2>4. \A v \in Worker : InPipe(i, v) => InPipe(i, v)'
    BY <1>4 DEF InPipe
  <2> QED
    BY <1>4, <2>1, <2>2, <2>3, <2>4, LocatedStays
<1>5. CASE UNCHANGED vars
  BY <1>3, <1>5 DEF vars, Watched, startVars, frontVars, backVars, workerVars,
     history
<1>6. CASE StartBinds
  BY <1>1, <1>6 DEF StartBinds, LifeInv, frontVars
<1>7. CASE ProxyStart \/ StartBindFails \/ ProxyTerminates \/ ProxyFails
  <2>1. Watched
    BY <1>7 DEF Watched, ProxyStart, StartBindFails, ProxyTerminates, ProxyFails
  <2> QED
    BY <1>3, <1>7, <2>1 DEF ProxyStart, StartBindFails, ProxyTerminates,
       ProxyFails, frontVars, backVars, workerVars, history
<1>8. CASE ClientSends
  <2>1. /\ sent' = sent + 1 /\ waiting' = waiting \cup {sent + 1}
        /\ Watched /\ UNCHANGED <<pipe, job, wpc, replyq, answered, dropped>>
    BY <1>8 DEF ClientSends, Watched, startVars, backVars, workerVars, history
  <2>2. CASE i = sent + 1
    BY <2>1, <2>2 DEF Located
  <2>3. CASE i # sent + 1
    <3>1. Located(i)
      BY <1>1, <2>1, <2>3 DEF LocatedInv
    <3> QED
      BY <2>1, <3>1 DEF Located, Handled, Replied, InPipe, AtWorker
  <2> QED
    BY <2>2, <2>3
<1>9. ASSUME NEW w \in Worker, StartSpawns(w)
      PROVE  Located(i)'
  <2>1. wpc[w] \notin {"work", "reply"}
    BY <1>9 DEF StartSpawns, SpawnInv
  <2>2. Located(i) /\ UNCHANGED <<waiting, pipe, job, replyq, answered, dropped>>
    BY <1>2, <1>9 DEF StartSpawns, Watched, frontVars, backVars, history
  <2>3. \A v \in Worker : AtWorker(i, v) => AtWorker(i, v)'
    BY <1>1, <1>9, <2>1, <2>2 DEF StartSpawns, AtWorker
  <2> QED
    BY <2>2, <2>3, LocatedStays DEF Handled, Replied, InPipe
<1>10. CASE ProxyForwardsStop
  <2>1. Watched /\ Located(i) /\ TERMINATE \in Message /\ UNCHANGED waiting
    BY <1>2, <1>10, Numbers DEF ProxyForwardsStop, Watched, startVars
  <2> QED
    BY <1>10, <2>1, LocatedGiven DEF ProxyForwardsStop
<1>11. ASSUME NEW m \in Request, ProxyForwardsRequest(m)
       PROVE  Located(i)'
  <2>1. /\ Watched /\ Located(i) /\ m \in Message /\ m # TERMINATE
        /\ waiting' = waiting \ {m} /\ startPc = "proxy" /\ m \in waiting
    BY <1>2, <1>11, Numbers DEF ProxyForwardsRequest, Proxying, Watched,
       startVars
  <2> QED
    BY <1>11, <2>1, LocatedGiven DEF ProxyForwardsRequest
<1>12. ASSUME NEW w \in Worker, NoticeGone(w)
       PROVE  Located(i)'
  BY <1>3, <1>12 DEF NoticeGone, Watched, startVars, frontVars, workerVars,
     history
<1>13. ASSUME NEW w \in Worker,
              WorkerConnects(w) \/ WorkerDiscards(w) \/ WorkerSendFails(w)
       PROVE  Located(i)'
  BY <1>4, <1>13 DEF WorkerConnects, WorkerDiscards, WorkerSendFails,
     startVars, frontVars, backVars, history
<1>14. ASSUME NEW w \in Worker,
              WorkerRejects(w) \/ WorkerCalls(w) \/ CallAbandoned(w)
       PROVE  Located(i)'
  BY <1>4, <1>14 DEF WorkerRejects, WorkerCalls, CallAbandoned, ZError, startVars,
     frontVars, backVars, history
<1>15. ASSUME NEW w \in Worker, WorkerReceives(w)
       PROVE  Located(i)'
  <2>1. Located(i) /\ i \in Request
    BY <1>2, <1>15 DEF WorkerReceives, Watched, startVars, frontVars
  <2> QED
    BY <1>15, <2>1, LocatedReceived
<1>16. ASSUME NEW w \in Worker, WorkerReplies(w)
       PROVE  Located(i)'
  <2>1. Located(i) /\ i \in Request
    BY <1>2, <1>16 DEF WorkerReplies, Watched, startVars, frontVars
  <2> QED
    BY <1>16, <2>1, LocatedReplied
<1>17. ASSUME NEW w \in Worker, ProxyForwardsReply(w)
       PROVE  Located(i)'
  <2>1. Located(i) /\ i \in Request
    BY <1>2, <1>17 DEF ProxyForwardsReply, Watched, startVars, frontVars
  <2> QED
    BY <1>17, <2>1, LocatedForwarded
<1>18. ASSUME NEW w \in Worker, WorkerLeaves(w)
       PROVE  Located(i)'
  <2>1. /\ Watched /\ Located(i) /\ i \in Request
        /\ wpc[w] = "leaving" /\ wpc' = [wpc EXCEPT ![w] = "gone"]
        /\ pipe' = [pipe EXCEPT ![w] = <<>>]
        /\ UNCHANGED <<waiting, job, replyq, history>>
    BY <1>2, <1>18 DEF WorkerLeaves, Goto, Watched, startVars, frontVars
  <2>2. ~InPipe(i, w)
    <3>1. OnlyStops(pipe[w])
      BY <2>1 DEF StopInv, NoStops, Watched
    <3> QED
      BY <2>1, <3>1, Numbers DEF OnlyStops, InPipe
  <2>3. \A v \in Worker : /\ InPipe(i, v) => InPipe(i, v)'
                          /\ AtWorker(i, v) => AtWorker(i, v)'
    BY <1>1, <2>1, <2>2 DEF InPipe, AtWorker
  <2>4. Handled(i) => Handled(i)'
    BY <2>1 DEF Handled, Replied, history
  <2> QED
    BY <2>1, <2>3, <2>4, LocatedStays
<1>19. ASSUME NEW w \in Worker, ServiceThrows(w)
       PROVE  Located(i)'
  BY <1>19 DEF ServiceThrows, Crash, Watched
<1>20. ASSUME NEW p \in Closer,
              CloseBegins(p) \/ CloseUnbinds(p) \/ WorkerStop(p) \/ CloseJoins(p)
              \/ ProxyStop(p)
       PROVE  Located(i)'
  <2>1. Watched
    BY <1>20 DEF CloseBegins, CloseUnbinds, WorkerStop, CloseJoins, ProxyStop,
       Watched, startVars
  <2> QED
    BY <1>3, <1>20, <2>1 DEF CloseBegins, CloseUnbinds, WorkerStop, CloseJoins,
       ProxyStop, frontVars, backVars, workerVars, history
<1>21. ASSUME NEW p \in Closer, CloseSockets(p) \/ CloseUnbindThrows(p)
       PROVE  Located(i)'
  <2>1. UNCHANGED <<startPc, started, wpc>>
    BY <1>21 DEF CloseSockets, CloseUnbindThrows, Crash, Watched
  <2>2. Watched
    BY <2>1 DEF Watched
  <2> QED
    BY <1>3, <1>21, <2>1, <2>2 DEF CloseSockets, CloseUnbindThrows, frontVars,
       backVars, history
<1> QED
  BY <1>5, <1>6, <1>7, <1>8, <1>9, <1>10, <1>11, <1>12, <1>13, <1>14, <1>15,
     <1>16, <1>17, <1>18, <1>19, <1>20, <1>21
  DEF Next, StartStep, WorkerStep, CloseStep

(* Every request sent is at the frontend, with a worker, or dealt with: as *)
(* long as the server is not being stopped, and with a server that is only *)
(* stopped when no request waits, also through Close, since the TERMINATEs *)
(* are behind the requests in every pipe.                                  *)
THEOREM NoRequestLost == Spec => []NothingLost
<1>1. Init => SpawnInv /\ LocatedInv
  BY DEF Init, SpawnInv, LocatedInv
<1>2. LocatedInv => NothingLost
  BY DEF LocatedInv, NothingLost, Watched, Located, Quiet
<1> QED
  BY <1>1, <1>2, TypeInit, TypeStep, LifeInit, LifeStep, StopStep, SpawnStep,
     LocatedStep, PTL DEF Spec

-----------------------------------------------------------------------------
(* A TERMINATE for each worker.                                            *)

Careful == {"serving", "quiet"} \subseteq Caution

(* The load balancer has every worker that is connected, once.             *)
AllDifferent(q) == \A j, k \in 1 .. Len(q) : q[j] = q[k] => j = k

BalancerInv ==
  /\ AllDifferent(lb)
  /\ \A w \in Worker :
       /\ w \notin threads \/ wpc[w] \in {"none", "connecting"} => ~Has(lb, w)
       /\ wpc[w] \in {"recv", "work", "reply", "leaving"} => Has(lb, w)
       /\ wpc[w] = "none" => w \notin threads
       /\ wpc[w] = "crashed" => startPc = "crashed"

(* While TERMINATEs are given, the turn is that of a worker without one.   *)
TurnInv ==
  \A v, w \in Worker : StopOnItsWay(v) /\ ~StopOnItsWay(w) =>
                         lb # <<>> /\ lb[cur + 1] = w

(* The server is stopped when all its workers are connected.               *)
ServingInv ==
  /\ startPc \in {"new", "spawn"} => closePc["stop"] = "none"
  /\ startPc = "proxy" =>
       /\ threads = Worker
       /\ closePc["stop"] # "none" =>
            \A w \in Worker : wpc[w] \notin {"none", "connecting"}
       /\ closePc["stop"] \in {"none", "unbind", "wstop"} => NoStops
       /\ closePc["stop"] = "join" => TurnInv

LEMMA Connected ==
  ASSUME TypeInv, NEW w \in Worker
  PROVE  \A x : Has(Append(lb, w), x) <=> Has(lb, x) \/ x = w
<1>1. PICK n \in Nat : n = Len(lb)
  BY Queue DEF TypeInv, TypeOK
<1>2. PICK a \in Seq(Worker) : a = Append(lb, w)
  BY Queue DEF TypeInv, TypeOK
<1>3. /\ Len(a) = n + 1 /\ a[n + 1] = w
      /\ \A k \in 1 .. n : a[k] = lb[k]
  BY <1>1, <1>2, Queue DEF TypeInv, TypeOK
<1>4. \A k : k \in 1 .. Len(a) <=> k \in 1 .. n \/ k = n + 1
  BY <1>3
<1>5. ASSUME NEW x
      PROVE  Has(a, x) <=> Has(lb, x) \/ x = w
  BY <1>1, <1>3, <1>4 DEF Has
<1> QED
  BY <1>2, <1>5

LEMMA ConnectedOnce ==
  ASSUME TypeInv, NEW w \in Worker, AllDifferent(lb), ~Has(lb, w)
  PROVE  AllDifferent(Append(lb, w))
<1>1. PICK n \in Nat : n = Len(lb)
  BY Queue DEF TypeInv, TypeOK
<1>2. PICK a \in Seq(Worker) : a = Append(lb, w)
  BY Queue DEF TypeInv, TypeOK
<1>3. /\ Len(a) = n + 1 /\ a[n + 1] = w
      /\ \A k \in 1 .. n : a[k] = lb[k]
  BY <1>1, <1>2, Queue DEF TypeInv, TypeOK
<1>4. \A k : k \in 1 .. Len(a) <=> k \in 1 .. n \/ k = n + 1
  BY <1>3
<1>5. AllDifferent(a)
  BY <1>1, <1>3, <1>4 DEF Has, AllDifferent
<1> QED
  BY <1>2, <1>5

(* What is left of the load balancer when a worker's pipe goes.            *)
LEMMA Dropped ==
  ASSUME TypeInv, NEW w \in Worker, NoticeGone(w), AllDifferent(lb)
  PROVE  /\ AllDifferent(lb')
         /\ \A x : Has(lb', x) <=> Has(lb, x) /\ x # w
<1>1. PICK k \in 1 .. Len(lb) :
        /\ lb[k] = w
        /\ lb' = [j \in 1 .. Len(lb) - 1 |-> IF j = k THEN lb[Len(lb)]
                                             ELSE lb[j]]
  BY DEF NoticeGone
<1>2. PICK n \in Nat : n = Len(lb) /\ n >= 1 /\ k \in 1 .. n
  <2>1. Len(lb) \in Nat
    BY Queue DEF TypeInv, TypeOK
  <2> QED
    BY <1>1, <2>1
<1>3. PICK q : q = lb'
  OBVIOUS
<1>4. Len(q) = n - 1
  <2>1. lb' \in Seq(Worker)
    BY Balancer
  <2>2. DOMAIN lb' = 1 .. n - 1
    BY <1>1, <1>2
  <2>3. Len(lb') \in Nat /\ DOMAIN lb' = 1 .. Len(lb')
    BY <2>1, LenProperties
  <2>4. n - 1 \in Nat
    BY <1>2
  <2>5. Len(lb') = n - 1
    BY <2>2, <2>3, <2>4
  <2> QED
    BY <1>3, <2>5
<1>5. \A j \in 1 .. n - 1 : q[j] = IF j = k THEN lb[n] ELSE lb[j]
  BY <1>1, <1>2, <1>3
<1>6. \A j \in 1 .. n - 1 : j \in 1 .. n /\ j # n
  BY <1>2
<1>7. \A i, j \in 1 .. n : lb[i] = lb[j] => i = j
  BY <1>2 DEF AllDifferent
<1>8. n \in 1 .. n /\ \A j \in 1 .. n : j # n => j \in 1 .. n - 1
  BY <1>2
<1>9. AllDifferent(q)
  BY <1>4, <1>5, <1>6, <1>7, <1>8 DEF AllDifferent
<1>10. ASSUME NEW x, Has(q, x)
       PROVE  Has(lb, x) /\ x # w
  <2>1. PICK j \in 1 .. n - 1 : q[j] = x
    BY <1>4, <1>10 DEF Has
  <2>2. PICK i \in 1 .. n : lb[i] = x /\ i # k
    BY <1>5, <1>6, <1>8, <2>1
  <2> QED
    BY <1>1, <1>2, <1>7, <2>2 DEF Has
<1>11. ASSUME NEW x, Has(lb, x), x # w
       PROVE  Has(q, x)
  <2>1. PICK i \in 1 .. n : lb[i] = x /\ i # k
    BY <1>1, <1>2, <1>11 DEF Has
  <2>2. CASE i = n
    <3>1. k \in 1 .. n - 1 /\ q[k] = x
      BY <1>2, <1>5, <1>8, <2>1, <2>2
    <3> QED
      BY <1>4, <3>1 DEF Has
  <2>3. CASE i # n
    <3>1. i \in 1 .. n - 1 /\ q[i] = x
      BY <1>5, <1>8, <2>1, <2>3
    <3> QED
      BY <1>4, <3>1 DEF Has
  <2> QED
    BY <2>2, <2>3
<1> QED
  BY <1>3, <1>9, <1>10, <1>11

LEMMA BalancerInit == Init => BalancerInv
<1> SUFFICES ASSUME Init
             PROVE  BalancerInv
  OBVIOUS
<1>1. AllDifferent(<<>>) /\ \A x : ~Has(<<>>, x)
  BY DEF AllDifferent, Has
<1> QED
  BY <1>1 DEF Init, BalancerInv

LEMMA BalancerStep == TypeInv /\ SpawnInv /\ BalancerInv /\ [Next]_vars => BalancerInv'
<1> SUFFICES ASSUME TypeInv, SpawnInv, BalancerInv, [Next]_vars
             PROVE  BalancerInv'
  OBVIOUS
<1>1. wpc \in [Worker -> WorkerPoint]
  BY DEF TypeInv, TypeOK, WorkerPoint
<1>2. ASSUME UNCHANGED <<lb, threads, wpc>>, startPc = "crashed" => startPc' = "crashed"
      PROVE  BalancerInv'
  BY <1>2 DEF BalancerInv, AllDifferent, Has
<1>3. ASSUME Crash, UNCHANGED <<lb, threads>>
      PROVE  BalancerInv'
  BY <1>3 DEF BalancerInv, AllDifferent, Has, Crash
<1>4. ASSUME NEW w \in Worker, NEW l \in WorkerPoint, Goto(w, l),
             UNCHANGED <<lb, threads, startPc>>,
             wpc[w] \in {"recv", "work", "reply", "leaving"},
             l \in {"recv", "work", "reply", "leaving", "gone"}
      PROVE  BalancerInv'
  <2>1. wpc' = [wpc EXCEPT ![w] = l]
    BY <1>4 DEF Goto
  <2>2. wpc'[w] = l /\ \A v \in Worker : v # w => wpc'[v] = wpc[v]
    BY <1>1, <2>1
  <2> QED
    BY <1>4, <2>2 DEF BalancerInv, AllDifferent, Has
<1>5. ASSUME NEW w \in Worker, StartSpawns(w)
      PROVE  BalancerInv'
  <2>1. /\ w \notin threads /\ threads' = threads \cup {w}
        /\ UNCHANGED <<startPc, lb>>
        /\ wpc' = [wpc EXCEPT ![w] = "connecting"]
    BY <1>5 DEF StartSpawns, backVars
  <2>2. wpc'[w] = "connecting" /\ \A v \in Worker : v # w => wpc'[v] = wpc[v]
    BY <1>1, <2>1
  <2> QED
    BY <2>1, <2>2 DEF BalancerInv, AllDifferent, Has
<1>6. ASSUME NEW w \in Worker, WorkerConnects(w)
      PROVE  BalancerInv'
  <2>1. /\ wpc[w] = "connecting" /\ wpc' = [wpc EXCEPT ![w] = "recv"]
        /\ lb' = Append(lb, w) /\ UNCHANGED <<startPc, threads>>
    BY <1>6 DEF WorkerConnects, Goto, startVars
  <2>2. wpc'[w] = "recv" /\ \A v \in Worker : v # w => wpc'[v] = wpc[v]
    BY <1>1, <2>1
  <2>3. w \in threads /\ ~Has(lb, w) /\ AllDifferent(lb)
    BY <2>1 DEF BalancerInv, SpawnInv
  <2>4. \A x : Has(lb, x)' <=> Has(lb, x) \/ x = w
    <3>1. \A x : Has(lb', x) <=> Has(lb, x) \/ x = w
      BY <2>1, Connected
    <3> QED
      BY <3>1 DEF Has
  <2>5. AllDifferent(lb)'
    <3>1. AllDifferent(lb')
      BY <2>1, <2>3, ConnectedOnce
    <3> QED
      BY <3>1 DEF AllDifferent
  <2> QED
    BY <2>1, <2>2, <2>3, <2>4, <2>5 DEF BalancerInv
<1>7. ASSUME NEW w \in Worker, NoticeGone(w)
      PROVE  BalancerInv'
  <2>1. wpc[w] = "gone" /\ UNCHANGED <<startPc, threads, wpc>>
    BY <1>7 DEF NoticeGone, startVars, workerVars
  <2>2. AllDifferent(lb') /\ \A x : Has(lb', x) <=> Has(lb, x) /\ x # w
    BY <1>7, Dropped DEF BalancerInv
  <2>3. AllDifferent(lb)' /\ \A x : Has(lb, x)' <=> Has(lb, x) /\ x # w
    BY <2>2 DEF AllDifferent, Has
  <2> QED
    BY <2>1, <2>3 DEF BalancerInv
<1>8. ASSUME NEW w \in Worker,
             \/ WorkerReceives(w) \/ WorkerDiscards(w) \/ WorkerRejects(w)
             \/ WorkerCalls(w) \/ WorkerReplies(w) \/ WorkerLeaves(w)
             \/ CallAbandoned(w) \/ WorkerSendFails(w)
      PROVE  BalancerInv'
  <2>1. /\ \E l \in {"recv", "work", "reply", "leaving", "gone"} : Goto(w, l)
        /\ UNCHANGED <<lb, threads, startPc>>
        /\ wpc[w] \in {"recv", "work", "reply", "leaving"}
    BY <1>8 DEF WorkerReceives, WorkerDiscards, WorkerRejects, WorkerCalls, ZError,
                WorkerReplies, WorkerLeaves, CallAbandoned, WorkerSendFails,
                startVars, backVars
  <2> QED
    BY <1>4, <2>1 DEF WorkerPoint
<1>9. ASSUME NEW w \in Worker, ProxyForwardsReply(w)
      PROVE  BalancerInv'
  BY <1>2, <1>9 DEF ProxyForwardsReply, startVars, backVars, workerVars
<1>10. ASSUME NEW w \in Worker, ServiceThrows(w)
       PROVE  BalancerInv'
  BY <1>3, <1>10 DEF ServiceThrows, backVars
<1>11. ASSUME NEW p \in Closer,
              CloseBegins(p) \/ CloseStep(p) \/ CloseUnbindThrows(p)
       PROVE  BalancerInv'
  BY <1>2, <1>3, <1>11 DEF CloseBegins, CloseStep, CloseUnbinds, WorkerStop,
     CloseJoins, ProxyStop, CloseSockets, CloseUnbindThrows,
     startVars, workerVars, backVars
<1>12. CASE \/ StartBinds \/ ProxyStart \/ StartBindFails \/ ProxyTerminates
            \/ ProxyFails \/ ClientSends
  BY <1>2, <1>12 DEF StartBinds, ProxyStart, StartBindFails, ProxyTerminates,
     ProxyFails, ClientSends, startVars, workerVars, backVars
<1>13. CASE ProxyForwardsStop \/ \E i \in Request : ProxyForwardsRequest(i)
  BY <1>2, <1>13 DEF ProxyForwardsStop, ProxyForwardsRequest, GiveToWorker,
     startVars, workerVars
<1>14. CASE UNCHANGED vars
  BY <1>2, <1>14 DEF vars, startVars, workerVars, backVars
<1> QED
  BY <1>5, <1>6, <1>7, <1>8, <1>9, <1>10, <1>11, <1>12, <1>13, <1>14
     DEF Next, StartStep, WorkerStep

(* A step that takes no TERMINATE away and gives none.                     *)
LEMMA OnItsWay ==
  ASSUME UNCHANGED pipe,
         \A w \in Worker : wpc'[w] \in {"leaving", "gone"}
                             <=> wpc[w] \in {"leaving", "gone"}
  PROVE  \A w \in Worker : StopOnItsWay(w)' <=> StopOnItsWay(w)
BY DEF StopOnItsWay, InPipe

LEMMA OnItsWayReceived ==
  ASSUME TypeInv, NEW w \in Worker, WorkerReceives(w)
  PROVE  \A v \in Worker : StopOnItsWay(v)' <=> StopOnItsWay(v)
<1>1. /\ pipe \in [Worker -> Seq(Message)] /\ wpc \in [Worker -> WorkerPoint]
      /\ pipe[w] # <<>> /\ wpc[w] = "recv"
      /\ pipe' = [pipe EXCEPT ![w] = Tail(pipe[w])]
      /\ wpc' = [wpc EXCEPT ![w] =
                   IF Head(pipe[w]) = TERMINATE THEN "leaving" ELSE "work"]
  BY DEF WorkerReceives, Goto, TypeInv, TypeOK, WorkerPoint
<1>2. Has(pipe[w], TERMINATE) <=>
        TERMINATE = Head(pipe[w]) \/ Has(Tail(pipe[w]), TERMINATE)
  BY <1>1, Removed
<1>3. /\ pipe'[w] = Tail(pipe[w])
      /\ wpc'[w] = IF Head(pipe[w]) = TERMINATE THEN "leaving" ELSE "work"
      /\ \A v \in Worker : v # w => pipe'[v] = pipe[v] /\ wpc'[v] = wpc[v]
  BY <1>1
<1>4. ASSUME NEW v \in Worker
      PROVE  /\ StopOnItsWay(v) <=>
                  wpc[v] \in {"leaving", "gone"} \/ Has(pipe[v], TERMINATE)
             /\ StopOnItsWay(v)' <=>
                  wpc'[v] \in {"leaving", "gone"} \/ Has(pipe'[v], TERMINATE)
  BY DEF StopOnItsWay, InPipe, Has
<1>5. StopOnItsWay(w)' <=> StopOnItsWay(w)
  BY <1>1, <1>2, <1>3, <1>4
<1>6. ASSUME NEW v \in Worker, v # w
      PROVE  StopOnItsWay(v)' <=> StopOnItsWay(v)
  BY <1>3, <1>4, <1>6
<1> QED
  BY <1>5, <1>6

LEMMA NoneOnItsWay ==
  /\ NoStops <=> workil = 0 /\ \A w \in Worker : ~StopOnItsWay(w)
  /\ NoStops' <=> workil' = 0 /\ \A w \in Worker : ~StopOnItsWay(w)'
BY DEF NoStops, StopOnItsWay, InPipe, Has

(* Without a TERMINATE more or less the turn stays that of a worker        *)
(* without one.                                                            *)
LEMMA ServingSame ==
  ASSUME ServingInv, UNCHANGED <<startPc, closePc, threads, workil, lb, cur>>,
         \A w \in Worker : StopOnItsWay(w)' <=> StopOnItsWay(w),
         \A w \in Worker : wpc'[w] \in {"none", "connecting"} =>
                             wpc[w] \in {"none", "connecting"}
  PROVE  ServingInv'
<1>1. TurnInv => TurnInv'
  BY DEF TurnInv
<1>2. NoStops => NoStops'
  BY NoneOnItsWay
<1> QED
  BY <1>1, <1>2 DEF ServingInv

(* Those of the threads that have no TERMINATE.                            *)
Missing == {w \in threads : ~StopOnItsWay(w)}

LEMMA MissingFinite ==
  ASSUME TypeInv
  PROVE  IsFiniteSet(threads) /\ IsFiniteSet(Missing) /\ Cardinality(Missing) \in Nat
         /\ Cardinality(threads) \in Nat /\ Cardinality(Missing) <= Cardinality(threads)
<1>1. IsFiniteSet(threads)
  BY ServerAssumption, FS_Subset DEF TypeInv, TypeOK
<1>2. Missing \in SUBSET threads
  BY DEF Missing
<1> QED
  BY <1>1, <1>2, FS_Subset, FS_CardinalityType

LEMMA StopForEachSame ==
  ASSUME TypeInv, StopForEach, threads' = threads, 
         workil \in Nat, workil' \in Nat, workil <= workil',
         \A w \in Worker : StopOnItsWay(w) => StopOnItsWay(w)',
         \A p \in Closer : closePc'[p] = "join" => closePc[p] = "join"
  PROVE  StopForEach'
<1>1. Missing' \in SUBSET Missing
  BY DEF Missing, TypeInv, TypeOK
<1>2. Cardinality(Missing') <= Cardinality(Missing) /\ Cardinality(Missing') \in Nat
  BY <1>1, MissingFinite, FS_Subset, FS_CardinalityType
<1>3. ASSUME NEW p \in Closer, closePc'[p] = "join"
      PROVE  Cardinality(Missing') <= workil'
  <2>1. Cardinality(Missing) <= workil
    BY <1>3 DEF StopForEach, Missing
  <2> QED
    BY <1>2, <2>1, MissingFinite
<1> QED
  BY <1>3 DEF StopForEach, Missing

(* Of at most two workers one is this or that.                             *)
LEMMA OneOrOther ==
  ASSUME Cardinality(Worker) <= 2, NEW u \in Worker, NEW v \in Worker, NEW w \in Worker
  PROVE  u = v \/ v = w \/ u = w
<1> SUFFICES ASSUME u # v, v # w, u # w
             PROVE  FALSE
  OBVIOUS
<1>1. IsFiniteSet({u}) /\ Cardinality({u}) = 1
  BY FS_Singleton
<1>2. IsFiniteSet({u} \cup {v}) /\ Cardinality({u} \cup {v}) = 2
  BY <1>1, FS_AddElement
<1>3. Cardinality(({u} \cup {v}) \cup {w}) = 3
  BY <1>2, FS_AddElement
<1>4. /\ Cardinality(({u} \cup {v}) \cup {w}) <= Cardinality(Worker)
      /\ Cardinality(Worker) \in Nat
  BY FS_Subset, FS_CardinalityType, ServerAssumption
<1> QED
  BY <1>3, <1>4

LEMMA NextTurn ==
  ASSUME NEW n \in Nat, NEW c \in Nat, c < n, 2 <= n
  PROVE  (c + 1) % n # c /\ (c + 1) % n \in 0 .. n - 1
<1>1. CASE c + 1 < n
  <2>1. (c + 1) % n = c + 1
    BY <1>1
  <2> QED
    BY <1>1, <2>1
<1>2. CASE c + 1 = n
  <2>1. n % n = 0
    OBVIOUS
  <2> QED
    BY <1>2, <2>1
<1> QED
  BY <1>1, <1>2

(* A TERMINATE goes to the worker whose turn it is, and the turn to the    *)
(* other.                                                                  *)
LEMMA StopGivenTo ==
  ASSUME TypeInv, NEW m \in Message, GiveToWorker(m), UNCHANGED wpc
  PROVE  \E w \in Worker :
           /\ lb # <<>> /\ w = lb[cur + 1] /\ lb' = lb /\ cur' = (cur + 1) % Len(lb)
           /\ \A v \in Worker : v # w \/ m # TERMINATE =>
                (StopOnItsWay(v)' <=> StopOnItsWay(v))
           /\ m = TERMINATE => StopOnItsWay(w)'
<1>1. lb # <<>>
  BY DEF GiveToWorker
<1>2. PICK w \in Worker : w = lb[cur + 1]
  BY <1>1, Turn
<1>3. /\ pipe' = [pipe EXCEPT ![w] = IF wpc[w] = "gone" THEN pipe[w]
                                     ELSE Append(pipe[w], m)]
      /\ cur' = (cur + 1) % Len(lb) /\ lb' = lb
  BY <1>2 DEF GiveToWorker
<1>4. pipe \in [Worker -> Seq(Message)]
  BY DEF TypeInv, TypeOK
<1>5. \A x : Has(Append(pipe[w], m), x) <=> Has(pipe[w], x) \/ x = m
  BY <1>4, Appended
<1>6. /\ pipe'[w] = IF wpc[w] = "gone" THEN pipe[w] ELSE Append(pipe[w], m)
      /\ \A v \in Worker : v # w => pipe'[v] = pipe[v]
  BY <1>3, <1>4
<1>7. ASSUME NEW v \in Worker
      PROVE  /\ StopOnItsWay(v) <=>
                  wpc[v] \in {"leaving", "gone"} \/ Has(pipe[v], TERMINATE)
             /\ StopOnItsWay(v)' <=>
                  wpc[v] \in {"leaving", "gone"} \/ Has(pipe'[v], TERMINATE)
  BY DEF StopOnItsWay, InPipe, Has
<1>8. \A v \in Worker : v # w => (StopOnItsWay(v)' <=> StopOnItsWay(v))
  BY <1>6, <1>7
<1>9. m # TERMINATE => (StopOnItsWay(w)' <=> StopOnItsWay(w))
  BY <1>5, <1>6, <1>7
<1>10. m = TERMINATE => StopOnItsWay(w)'
  BY <1>5, <1>6, <1>7
<1> QED
  BY <1>1, <1>2, <1>3, <1>8, <1>9, <1>10

CloserPoint == {"none", "unbind", "wstop", "join", "pstop", "sockets", "done",
                "threw", "crashed"}

LEMMA ServingClose ==
  ASSUME TypeInv, LifeInv, BalancerInv, ServingInv, Careful, NEW p \in Closer,
         CloseBegins(p) \/ CloseStep(p) \/ CloseUnbindThrows(p)
  PROVE  ServingInv'
<1>1. /\ closePc \in [Closer -> CloserPoint] /\ "stop" \in Closer
      /\ startPc \in {"new", "spawn", "proxy", "ended", "crashed"}
      /\ p # "stop" => p = "dtor"
  BY DEF TypeInv, TypeOK, CloserPoint, Closer
<1>2. ASSUME startPc' \in {"ended", "crashed"}
      PROVE  ServingInv'
  BY <1>2 DEF ServingInv
<1>3. \/ startPc' = "crashed"
      \/ /\ UNCHANGED <<startPc, threads, pipe, wpc>>
         /\ \E l \in CloserPoint : CloseGoto(p, l)
  BY DEF CloseBegins, CloseStep, CloseUnbinds, WorkerStop, CloseJoins,
     ProxyStop, CloseSockets, CloseUnbindThrows, Crash, CloserPoint,
     startVars, workerVars, backVars
<1>4. UNCHANGED pipe /\ UNCHANGED wpc =>
        \A w \in Worker : StopOnItsWay(w)' <=> StopOnItsWay(w)
  BY DEF StopOnItsWay, InPipe
<1>5. ASSUME startPc \in {"new", "spawn"}, UNCHANGED startPc,
             NEW l \in CloserPoint, CloseGoto(p, l)
      PROVE  ServingInv'
  <2>1. closePc["stop"] = "none"
    BY <1>5 DEF ServingInv
  <2>2. p # "stop"
    <3>1. SUFFICES ASSUME p = "stop"
                   PROVE  FALSE
      OBVIOUS
    <3>2. CloseBegins("stop")
      BY <2>1, <3>1 DEF CloseStep, CloseUnbinds, WorkerStop, CloseJoins,
         ProxyStop, CloseSockets, CloseUnbindThrows
    <3> QED
      BY <3>2, <1>5 DEF CloseBegins, MayClose, Careful
  <2>3. closePc'["stop"] = closePc["stop"]
    BY <1>1, <1>5, <2>2 DEF CloseGoto
  <2> QED
    BY <1>5, <2>1, <2>3 DEF ServingInv
<1>6. ASSUME startPc = "proxy", UNCHANGED <<startPc, threads, pipe, wpc>>
      PROVE  ServingInv'
  <2>1. p = "stop"
    BY <1>1, <1>6 DEF LifeInv, CloseBegins, MayClose, CloseStep, CloseUnbinds,
       WorkerStop, CloseJoins, ProxyStop, CloseSockets, CloseUnbindThrows
  <2>2. threads' = Worker
    BY <1>6 DEF ServingInv
  <2>3. \A w \in Worker : wpc'[w] \notin {"none", "connecting"}
    <3>1. CASE CloseBegins(p)
      <4>1. \A w \in threads : wpc[w] # "connecting"
        BY <2>1, <3>1 DEF CloseBegins, MayClose, Careful
      <4>2. \A w \in threads : wpc[w] # "none"
        BY DEF BalancerInv, TypeInv, TypeOK
      <4> QED
        BY <1>6, <4>1, <4>2 DEF ServingInv
    <3>2. CASE closePc["stop"] # "none"
      BY <1>6, <3>2 DEF ServingInv
    <3> QED
      BY <2>1, <3>1, <3>2 DEF CloseStep, CloseUnbinds, WorkerStop, CloseJoins,
         ProxyStop, CloseSockets, CloseUnbindThrows
  <2>4. CASE CloseBegins(p) \/ CloseUnbinds(p)
    <3>1. closePc["stop"] \in {"none", "unbind"} /\ UNCHANGED workil
      BY <2>1, <2>4 DEF CloseBegins, CloseUnbinds, frontVars
    <3>2. NoStops'
      BY <1>4, <1>6, <3>1, NoneOnItsWay DEF ServingInv
    <3>3. closePc'["stop"] # "join"
      BY <1>1, <2>1, <2>4 DEF CloseBegins, CloseUnbinds, CloseGoto
    <3> QED
      BY <1>6, <2>2, <2>3, <3>2, <3>3 DEF ServingInv
  <2>5. CASE WorkerStop(p)
    <3>1. closePc["stop"] = "wstop" /\ closePc'["stop"] = "join"
      BY <1>1, <2>1, <2>5 DEF WorkerStop, CloseGoto
    <3>2. \A w \in Worker : ~StopOnItsWay(w)'
      BY <1>4, <1>6, <3>1, NoneOnItsWay DEF ServingInv
    <3>3. TurnInv'
      BY <3>2 DEF TurnInv
    <3> QED
      BY <1>6, <2>2, <2>3, <3>1, <3>3 DEF ServingInv
  <2>6. CASE CloseJoins(p) \/ ProxyStop(p) \/ CloseSockets(p) \/ CloseUnbindThrows(p)
    <3>1. closePc'["stop"] \notin {"none", "unbind", "wstop", "join"}
      <4>1. \E l \in {"pstop", "sockets", "done", "threw"} : CloseGoto("stop", l)
        BY <1>6, <2>1, <2>6 DEF CloseJoins, ProxyStop, CloseSockets,
           CloseUnbindThrows, Crash
      <4> QED
        BY <1>1, <4>1 DEF CloseGoto
    <3> QED
      BY <1>6, <2>2, <2>3, <3>1 DEF ServingInv
  <2> QED
    BY <2>4, <2>5, <2>6 DEF CloseStep
<1> QED
  BY <1>1, <1>2, <1>3, <1>5, <1>6

(* The proxy takes TERMINATEs from the frontend only after WorkerStop.  The *)
(* first goes to any worker, and the turn to the other one.                *)
LEMMA ServingGiven ==
  ASSUME TypeInv, BalancerInv, ServingInv, ProxyForwardsStop, Cardinality(Worker) <= 2
  PROVE  ServingInv'
<1>1. /\ startPc = "proxy" /\ workil > 0 /\ GiveToWorker(TERMINATE)
      /\ UNCHANGED <<startPc, threads, closePc, wpc>>
  BY DEF ProxyForwardsStop, Proxying, startVars, closeVars, workerVars
<1>2. closePc["stop"] \notin {"none", "unbind", "wstop"}
  BY <1>1 DEF ServingInv, NoStops
<1>3. /\ threads = Worker
      /\ \A w \in Worker : wpc[w] \notin {"none", "connecting"}
  BY <1>1, <1>2 DEF ServingInv
<1>4. ASSUME TurnInv
      PROVE  TurnInv'
  <2>1. SUFFICES ASSUME NEW v \in Worker, NEW m \in Worker,
                        StopOnItsWay(v)', ~StopOnItsWay(m)'
                 PROVE  lb' # <<>> /\ lb'[cur' + 1] = m
    BY DEF TurnInv
  <2>2. PICK g \in Worker :
          /\ lb # <<>> /\ g = lb[cur + 1] /\ lb' = lb /\ cur' = (cur + 1) % Len(lb)
          /\ \A u \in Worker : u # g => (StopOnItsWay(u)' <=> StopOnItsWay(u))
          /\ StopOnItsWay(g)'
    BY <1>1, Numbers, StopGivenTo
  <2>3. m # g /\ ~StopOnItsWay(m)
    BY <2>1, <2>2
  <2>4. \A u \in Worker : ~StopOnItsWay(u)
    BY <1>4, <2>2, <2>3 DEF TurnInv
  <2>5. Has(lb, m)
    <3>1. wpc[m] \in {"recv", "work", "reply"}
      BY <1>1, <1>3, <2>3 DEF BalancerInv, TypeInv, TypeOK, StopOnItsWay
    <3> QED
      BY <3>1 DEF BalancerInv
  <2>6. PICK n \in Nat : n = Len(lb) /\ cur \in Nat /\ cur < n /\ cur + 1 \in 1 .. n
    BY <2>2, Turn, Queue DEF TypeInv, TypeOK
  <2>7. PICK i \in 1 .. n : lb[i] = m
    BY <2>5, <2>6 DEF Has
  <2>8. i # cur + 1
    BY <2>2, <2>3, <2>7
  <2>9. 2 <= n
    BY <2>6, <2>7, <2>8
  <2>10. PICK c : c = cur'
    OBVIOUS
  <2>11. c + 1 # cur + 1 /\ c + 1 \in 1 .. n
    <3>1. (cur + 1) % n # cur /\ (cur + 1) % n \in 0 .. n - 1
      BY <2>6, <2>9, NextTurn
    <3>2. c = (cur + 1) % n
      BY <2>2, <2>6, <2>10
    <3>3. c \in 0 .. n - 1 /\ c # cur
      BY <3>1, <3>2, Zenon
    <3> QED
      BY <2>6, <3>3
  <2>12. lb[c + 1] # g /\ lb[c + 1] \in Worker
    <3>1. lb[c + 1] \in Worker
      BY <2>6, <2>11, Queue DEF TypeInv, TypeOK
    <3> QED
      BY <2>2, <2>6, <2>10, <2>11, <3>1 DEF BalancerInv, AllDifferent
  <2>13. lb[c + 1] = m
    BY <2>3, <2>12, OneOrOther
  <2> QED
    BY <2>2, <2>10, <2>13
<1> QED
  BY <1>1, <1>2, <1>3, <1>4 DEF ServingInv

(* Without a gone worker the turn is still that of the other one.          *)
LEMMA ServingNoticed ==
  ASSUME TypeInv, BalancerInv, ServingInv, NEW w \in Worker, NoticeGone(w),
         Cardinality(Worker) <= 2
  PROVE  ServingInv'
<1>1. /\ wpc[w] = "gone"
      /\ UNCHANGED <<startPc, threads, closePc, wpc, pipe, workil>>
  BY DEF NoticeGone, startVars, closeVars, workerVars, frontVars
<1>2. \A v \in Worker : StopOnItsWay(v)' <=> StopOnItsWay(v)
  BY <1>1, OnItsWay
<1>3. NoStops => NoStops'
  BY <1>1, <1>2, NoneOnItsWay
<1>4. ASSUME TurnInv
      PROVE  TurnInv'
  <2>1. SUFFICES ASSUME NEW v \in Worker, NEW m \in Worker,
                        StopOnItsWay(v), ~StopOnItsWay(m)
                 PROVE  lb' # <<>> /\ lb'[cur' + 1] = m
    BY <1>2 DEF TurnInv
  <2>2. lb # <<>> /\ lb[cur + 1] = m
    BY <1>4, <2>1 DEF TurnInv
  <2>3. Has(lb, m)
    BY <2>2, Turn DEF Has
  <2>4. m # w
    BY <1>1, <2>1 DEF StopOnItsWay
  <2>5. \A x : Has(lb', x) <=> Has(lb, x) /\ x # w
    BY Dropped DEF BalancerInv
  <2>6. Has(lb', m)
    BY <2>3, <2>4, <2>5
  <2>7. lb' \in Seq(Worker) /\ cur' \in Nat /\ (lb' # <<>> => cur' < Len(lb'))
    BY Balancer
  <2>8. PICK q \in Seq(Worker), c \in Nat : q = lb' /\ c = cur'
    BY <2>7
  <2>9. q # <<>>
    BY <2>6, <2>8, EmptySeq DEF Has
  <2>10. PICK n \in Nat : n = Len(q) /\ c < n
    BY <2>7, <2>8, <2>9, Queue
  <2>11. c + 1 \in 1 .. n
    BY <2>10
  <2>12. q[c + 1] \in Worker /\ Has(q, q[c + 1])
    BY <2>10, <2>11, Queue DEF Has
  <2>13. q[c + 1] # w
    BY <2>5, <2>8, <2>12
  <2>14. q[c + 1] = m
    BY <2>4, <2>12, <2>13, OneOrOther
  <2> QED
    BY <2>8, <2>9, <2>14
<1> QED
  BY <1>1, <1>3, <1>4 DEF ServingInv

LEMMA ServingStep ==
  /\ TypeInv /\ LifeInv /\ StopInv /\ BalancerInv /\ ServingInv /\ [Next]_vars
  /\ Careful /\ Cardinality(Worker) <= 2
  => ServingInv'
<1> SUFFICES ASSUME TypeInv, LifeInv, StopInv, BalancerInv, ServingInv, [Next]_vars,
                    Careful, Cardinality(Worker) <= 2
             PROVE  ServingInv'
  OBVIOUS
<1>1. wpc \in [Worker -> WorkerPoint] /\ pipe \in [Worker -> Seq(Message)]
  BY DEF TypeInv, TypeOK, WorkerPoint
<1>2. CASE StartBinds \/ \E w \in Worker : StartSpawns(w)
  <2>1. startPc \in {"new", "spawn"} /\ startPc' = "spawn" /\ UNCHANGED closePc
    BY <1>2 DEF StartBinds, StartSpawns, closeVars
  <2> QED
    BY <2>1 DEF ServingInv
<1>3. CASE \/ StartBindFails \/ ProxyTerminates \/ ProxyFails
           \/ \E w \in Worker : ServiceThrows(w)
  <2>1. startPc' \in {"ended", "crashed"}
    BY <1>3 DEF StartBindFails, ProxyTerminates, ProxyFails, ServiceThrows, Crash
  <2> QED
    BY <2>1 DEF ServingInv
<1>4. CASE ProxyStart
  <2>1. /\ startPc = "spawn" /\ threads = Worker
        /\ UNCHANGED <<threads, closePc, workil, pipe, wpc>>
    BY <1>4 DEF ProxyStart, closeVars, frontVars, backVars, workerVars
  <2>2. closePc["stop"] = "none" /\ NoStops
    BY <2>1 DEF ServingInv, LifeInv, StopInv
  <2>3. NoStops'
    BY <2>1, <2>2 DEF NoStops
  <2> QED
    BY <2>1, <2>2, <2>3 DEF ServingInv
<1>5. ASSUME NEW i \in Request, ProxyForwardsRequest(i)
      PROVE  ServingInv'
  <2>1. /\ startPc = "proxy" /\ waiting # {} /\ GiveToWorker(i)
        /\ UNCHANGED <<startPc, threads, closePc, wpc, workil>>
        /\ i \in Message /\ i # TERMINATE
    BY <1>5, Numbers DEF ProxyForwardsRequest, Proxying, startVars,
       closeVars, workerVars
  <2>2. closePc["stop"] = "none"
    BY <2>1 DEF LifeInv, Careful, Quiet
  <2>3. \A w \in Worker : StopOnItsWay(w)' <=> StopOnItsWay(w)
    BY <2>1, StopGivenTo
  <2>4. NoStops'
    BY <2>1, <2>2, <2>3, NoneOnItsWay DEF ServingInv
  <2> QED
    BY <2>1, <2>2, <2>4 DEF ServingInv
<1>6. ASSUME NEW w \in Worker, WorkerConnects(w)
      PROVE  ServingInv'
  <2>1. /\ wpc[w] = "connecting" /\ wpc' = [wpc EXCEPT ![w] = "recv"]
        /\ UNCHANGED <<startPc, threads, closePc, workil, pipe>>
    BY <1>6 DEF WorkerConnects, Goto, startVars, closeVars, frontVars
  <2>2. startPc = "proxy" => closePc["stop"] = "none"
    BY <2>1 DEF ServingInv
  <2>3. \A v \in Worker : wpc'[v] \in {"leaving", "gone"}
                            <=> wpc[v] \in {"leaving", "gone"}
    BY <1>1, <2>1
  <2>4. NoStops => NoStops'
    BY <2>1, <2>3, OnItsWay, NoneOnItsWay
  <2> QED
    BY <2>1, <2>2, <2>4 DEF ServingInv
<1>7. ASSUME NEW w \in Worker, WorkerReceives(w)
      PROVE  ServingInv'
  <2>1. /\ wpc[w] = "recv"
        /\ \E l \in {"leaving", "work"} : wpc' = [wpc EXCEPT ![w] = l]
        /\ UNCHANGED <<startPc, closePc, threads, workil, lb, cur>>
    BY <1>7 DEF WorkerReceives, Goto, startVars, closeVars, frontVars
  <2>2. \A v \in Worker : wpc'[v] \in {"none", "connecting"}
                            => wpc[v] \in {"none", "connecting"}
    BY <1>1, <2>1
  <2> QED
    BY <1>7, <2>1, <2>2, OnItsWayReceived, ServingSame
<1>8. ASSUME NEW w \in Worker,
             \/ WorkerDiscards(w) \/ WorkerRejects(w) \/ WorkerCalls(w)
             \/ WorkerReplies(w) \/ CallAbandoned(w) \/ WorkerSendFails(w)
      PROVE  ServingInv'
  <2>1. /\ wpc[w] \in {"work", "reply"}
        /\ \E l \in {"recv", "reply"} : wpc' = [wpc EXCEPT ![w] = l]
        /\ UNCHANGED <<startPc, closePc, threads, workil, lb, cur, pipe>>
    BY <1>8 DEF WorkerDiscards, WorkerRejects, WorkerCalls, ZError, WorkerReplies,
       CallAbandoned, WorkerSendFails, Goto, startVars, closeVars, frontVars,
       backVars
  <2>2. \A v \in Worker :
          /\ wpc'[v] \in {"leaving", "gone"} <=> wpc[v] \in {"leaving", "gone"}
          /\ wpc'[v] \in {"none", "connecting"} => wpc[v] \in {"none", "connecting"}
    BY <1>1, <2>1
  <2> QED
    BY <2>1, <2>2, OnItsWay, ServingSame
<1>9. ASSUME NEW w \in Worker, WorkerLeaves(w)
      PROVE  ServingInv'
  <2>1. /\ wpc[w] = "leaving" /\ wpc' = [wpc EXCEPT ![w] = "gone"]
        /\ pipe' = [pipe EXCEPT ![w] = <<>>]
        /\ UNCHANGED <<startPc, closePc, threads, workil, lb, cur>>
    BY <1>9 DEF WorkerLeaves, Goto, startVars, closeVars, frontVars
  <2>2. /\ wpc'[w] = "gone"
        /\ \A v \in Worker : v # w => wpc'[v] = wpc[v] /\ pipe'[v] = pipe[v]
    BY <1>1, <2>1
  <2>3. \A v \in Worker : StopOnItsWay(v)' <=> StopOnItsWay(v)
    BY <2>1, <2>2 DEF StopOnItsWay, InPipe
  <2>4. \A v \in Worker : wpc'[v] \in {"none", "connecting"}
                            => wpc[v] \in {"none", "connecting"}
    BY <2>2
  <2> QED
    BY <2>1, <2>3, <2>4, ServingSame
<1>10. CASE \/ ClientSends \/ UNCHANGED vars
            \/ \E w \in Worker : ProxyForwardsReply(w)
  <2>1. UNCHANGED <<startPc, closePc, threads, workil, lb, cur, pipe, wpc>>
    BY <1>10 DEF ClientSends, ProxyForwardsReply, vars, startVars, closeVars,
       frontVars, backVars, workerVars
  <2> QED
    BY <2>1, OnItsWay, ServingSame
<1> QED
  BY <1>2, <1>3, <1>4, <1>5, <1>6, <1>7, <1>8, <1>9, <1>10, ServingClose,
     ServingGiven, ServingNoticed
  DEF Next, StartStep, WorkerStep

(* The worker that gets a TERMINATE had none.                              *)
LEMMA StopForEachGiven ==
  ASSUME TypeInv, LifeInv, ServingInv, StopForEach, ProxyForwardsStop
  PROVE  StopForEach'
<1>1. /\ startPc = "proxy" /\ workil > 0 /\ workil' = workil - 1 /\ workil \in Nat
      /\ GiveToWorker(TERMINATE) /\ UNCHANGED <<threads, closePc, wpc>>
  BY DEF ProxyForwardsStop, Proxying, startVars, closeVars, workerVars, TypeInv, TypeOK
<1>2. SUFFICES ASSUME closePc["stop"] = "join"
               PROVE  Cardinality(Missing') <= workil'
  BY <1>1 DEF StopForEach, Missing, LifeInv, Closer
<1>3. threads = Worker /\ TurnInv /\ Cardinality(Missing) <= workil
  BY <1>1, <1>2 DEF ServingInv, StopForEach, Missing, Closer
<1>4. PICK g \in Worker :
        /\ g = lb[cur + 1] /\ StopOnItsWay(g)'
        /\ \A v \in Worker : v # g => (StopOnItsWay(v)' <=> StopOnItsWay(v))
  BY <1>1, Numbers, StopGivenTo
<1>5. Missing' \in SUBSET (Missing \ {g})
  BY <1>1, <1>3, <1>4 DEF Missing
<1>6. IsFiniteSet(Missing) /\ Cardinality(Missing) \in Nat
  BY MissingFinite
<1>7. CASE g \in Missing
  <2>1. /\ IsFiniteSet(Missing \ {g})
        /\ Cardinality(Missing \ {g}) = Cardinality(Missing) - 1
    BY <1>6, <1>7, FS_RemoveElement
  <2>2. /\ Cardinality(Missing') <= Cardinality(Missing \ {g})
        /\ Cardinality(Missing') \in Nat
    BY <1>5, <2>1, FS_Subset, FS_CardinalityType
  <2> QED
    BY <1>1, <1>3, <1>6, <2>1, <2>2
<1>8. CASE g \notin Missing
  <2>1. StopOnItsWay(g)
    BY <1>3, <1>8 DEF Missing
  <2>2. Missing = {}
    BY <1>3, <1>4, <2>1 DEF TurnInv, Missing
  <2>3. Missing' = {}
    BY <1>5, <2>2
  <2>4. Cardinality(Missing') = 0
    BY <2>3, FS_EmptySet
  <2> QED
    BY <1>1, <2>4
<1> QED
  BY <1>7, <1>8

LEMMA StopForEachStep ==
  TypeInv /\ LifeInv /\ ServingInv /\ StopForEach /\ [Next]_vars => StopForEach'
<1> SUFFICES ASSUME TypeInv, LifeInv, ServingInv, StopForEach, [Next]_vars
             PROVE  StopForEach'
  OBVIOUS
<1>1. /\ wpc \in [Worker -> WorkerPoint] /\ pipe \in [Worker -> Seq(Message)]
      /\ closePc \in [Closer -> CloserPoint] /\ workil \in Nat
  BY DEF TypeInv, TypeOK, WorkerPoint, CloserPoint
<1>2. ASSUME Crash
      PROVE  StopForEach'
  BY <1>2 DEF Crash, StopForEach
<1>3. ASSUME UNCHANGED <<threads, workil>>,
             \A w \in Worker : StopOnItsWay(w) => StopOnItsWay(w)',
             \A q \in Closer : closePc'[q] = "join" => closePc[q] = "join"
      PROVE  StopForEach'
  BY <1>1, <1>3, StopForEachSame
<1>4. ASSUME NEW w \in Worker, StartSpawns(w)
      PROVE  StopForEach'
  <2>1. startPc = "spawn" /\ UNCHANGED closePc
    BY <1>4 DEF StartSpawns, closeVars
  <2>2. \A p \in Closer : closePc'[p] = "none"
    BY <2>1 DEF ServingInv, LifeInv, Closer
  <2> QED
    BY <2>2 DEF StopForEach
<1>5. ASSUME NEW w \in Worker, WorkerReceives(w)
      PROVE  StopForEach'
  BY <1>3, <1>5, OnItsWayReceived DEF WorkerReceives, startVars, closeVars, frontVars
<1>6. ASSUME NEW w \in Worker,
             \/ WorkerConnects(w) \/ WorkerDiscards(w) \/ WorkerRejects(w)
             \/ WorkerCalls(w) \/ WorkerReplies(w) \/ CallAbandoned(w)
             \/ WorkerSendFails(w)
      PROVE  StopForEach'
  <2>1. /\ wpc[w] \in {"connecting", "work", "reply"}
        /\ \E l \in {"recv", "reply"} : wpc' = [wpc EXCEPT ![w] = l]
        /\ UNCHANGED <<closePc, threads, workil, pipe>>
    BY <1>6 DEF WorkerConnects, WorkerDiscards, WorkerRejects, WorkerCalls, ZError,
       WorkerReplies, CallAbandoned, WorkerSendFails, Goto, startVars, closeVars,
       frontVars, backVars
  <2>2. \A v \in Worker : wpc'[v] \in {"leaving", "gone"}
                            <=> wpc[v] \in {"leaving", "gone"}
    BY <1>1, <2>1
  <2> QED
    BY <1>3, <2>1, <2>2, OnItsWay
<1>7. ASSUME NEW w \in Worker, WorkerLeaves(w)
      PROVE  StopForEach'
  <2>1. /\ wpc[w] = "leaving" /\ wpc' = [wpc EXCEPT ![w] = "gone"]
        /\ pipe' = [pipe EXCEPT ![w] = <<>>]
        /\ UNCHANGED <<closePc, threads, workil>>
    BY <1>7 DEF WorkerLeaves, Goto, startVars, closeVars, frontVars
  <2>2. /\ wpc'[w] = "gone"
        /\ \A v \in Worker : v # w => wpc'[v] = wpc[v] /\ pipe'[v] = pipe[v]
    BY <1>1, <2>1
  <2>3. \A v \in Worker : StopOnItsWay(v) => StopOnItsWay(v)'
    BY <2>2 DEF StopOnItsWay, InPipe
  <2> QED
    BY <1>3, <2>1, <2>3
<1>8. ASSUME NEW i \in Request, ProxyForwardsRequest(i)
      PROVE  StopForEach'
  <2>1. /\ GiveToWorker(i) /\ UNCHANGED <<threads, closePc, wpc, workil>>
        /\ i \in Message /\ i # TERMINATE
    BY <1>8, Numbers DEF ProxyForwardsRequest, startVars, closeVars, workerVars
  <2>2. \A w \in Worker : StopOnItsWay(w)' <=> StopOnItsWay(w)
    BY <2>1, StopGivenTo
  <2> QED
    BY <1>3, <2>1, <2>2
<1>9. ASSUME NEW p \in Closer, WorkerStop(p)
      PROVE  StopForEach'
  <2>1. UNCHANGED <<threads, pipe, wpc>> /\ workil' = workil + Cardinality(threads)
    BY <1>9 DEF WorkerStop, startVars, backVars, workerVars
  <2>2. Missing' = Missing
    BY <2>1 DEF Missing, StopOnItsWay, InPipe
  <2>3. Cardinality(Missing') <= workil'
    BY <1>1, <2>1, <2>2, MissingFinite
  <2> QED
    BY <2>3 DEF StopForEach, Missing
<1>10. ASSUME NEW p \in Closer,
              \/ CloseBegins(p) \/ CloseUnbinds(p) \/ CloseJoins(p)
              \/ ProxyStop(p) \/ CloseSockets(p) \/ CloseUnbindThrows(p)
       PROVE  StopForEach'
  <2>1. \/ Crash
        \/ /\ UNCHANGED <<threads, workil, pipe, wpc>>
           /\ \E l \in CloserPoint \ {"join"} : CloseGoto(p, l)
    BY <1>10 DEF CloseBegins, CloseUnbinds, CloseJoins, ProxyStop, CloseSockets,
       CloseUnbindThrows, CloserPoint, startVars, frontVars, backVars, workerVars
  <2>2. ASSUME NEW l \in CloserPoint \ {"join"}, CloseGoto(p, l)
        PROVE  \A q \in Closer : closePc'[q] = "join" => closePc[q] = "join"
    BY <1>1, <2>2 DEF CloseGoto
  <2> QED
    BY <1>2, <1>3, <2>1, <2>2, OnItsWay
<1>11. CASE \/ StartBinds \/ StartBindFails \/ ProxyStart \/ ProxyTerminates
            \/ ProxyFails \/ ClientSends \/ UNCHANGED vars
            \/ \E w \in Worker : ProxyForwardsReply(w) \/ NoticeGone(w)
  <2>1. UNCHANGED <<closePc, threads, workil, pipe, wpc>>
    BY <1>11 DEF StartBinds, StartBindFails, ProxyStart, ProxyTerminates,
       ProxyFails, ClientSends, ProxyForwardsReply, NoticeGone, vars, startVars,
       closeVars, frontVars, backVars, workerVars
  <2> QED
    BY <1>3, <2>1, OnItsWay
<1>12. ASSUME NEW w \in Worker, ServiceThrows(w)
       PROVE  StopForEach'
  BY <1>2, <1>12 DEF ServiceThrows
<1> QED
  BY <1>4, <1>5, <1>6, <1>7, <1>8, <1>9, <1>10, <1>11, <1>12, StopForEachGiven
  DEF Next, StartStep, WorkerStep, CloseStep

(* A server of at most two workers that is stopped while it serves, when   *)
(* no request waits, gives each worker its TERMINATE: while one has its    *)
(* own the turn is the other's, also when the load balancer loses the pipe *)
(* of the one that left.  With three workers it does not hold.             *)
THEOREM TerminateForEach ==
  ASSUME {"serving", "quiet"} \subseteq Caution, Cardinality(Worker) <= 2
  PROVE  Spec => []StopForEach
<1>1. Init => SpawnInv /\ ServingInv /\ StopForEach
  BY DEF Init, SpawnInv, ServingInv, StopForEach, Closer
<1>2. Careful
  BY DEF Careful
<1>3. /\ TypeInv /\ LifeInv /\ StopInv /\ BalancerInv /\ ServingInv /\ [Next]_vars
      => ServingInv'
  BY <1>2, ServingStep
<1> QED
  BY <1>1, <1>3, TypeInit, TypeStep, LifeInit, LifeStep, StopStep, SpawnStep,
     BalancerInit, BalancerStep, StopForEachStep, PTL DEF Spec

=============================================================================
