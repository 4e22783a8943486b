------------------------------ MODULE RpcServer ------------------------------
(***************************************************************************)
(* The server side of zqrpc: RpcServer (src/RpcServer.cc) and its          *)
(* RpcWorker threads (src/RpcWorker.cc).                                   *)
(*                                                                         *)
(* Start binds the sockets, spawns the workers and then runs the proxy in  *)
(* the thread that called it; Close is called by another thread ("stop")   *)
(* and by the destructor ("dtor"), which runs once Start has returned.     *)
(* The proxy hands what arrives at the frontend to the workers in turn,    *)
(* and Close stops the workers with TERMINATE messages that take the same  *)
(* way as the requests.                                                    *)
(*                                                                         *)
(* Requests are numbered in the order they are sent.  The frontend keeps   *)
(* the order of one client only, so those that wait there are a set.       *)
(***************************************************************************)
EXTENDS Integers, Sequences, FiniteSets

CONSTANTS
  Worker,         \* the worker threads; Start is called for all of them
  MaxRequests,    \* bound: requests the clients send
  Noreply,        \* noreply_, the second constructor's argument
  InprocClients,  \* TRUE: some client is at an inproc endpoint
  Caution,        \* what the application takes care of: a subset of Cautions
  Fault           \* what may go wrong: a subset of Faults

(* "serving": the server is stopped only once the proxy runs and every     *)
(* worker is connected; "quiet": it is stopped only when no request waits, *)
(* and no client sends after that; "wait": the server is destroyed only    *)
(* after the call of Close that stops it has returned.                     *)
Cautions == {"serving", "quiet", "wait"}

(* A bind or unbind fails, a signal interrupts a system call, a service    *)
(* throws something else than ZError: what the worker's loop catches       *)
(* ("service") or what it does not ("fatal").                              *)
Faults == {"bind", "unbind", "signal", "service", "fatal"}

ASSUME ServerAssumption ==
  /\ IsFiniteSet(Worker)
  /\ MaxRequests \in Nat
  /\ Noreply \in BOOLEAN /\ InprocClients \in BOOLEAN
  /\ Caution \subseteq Cautions /\ Fault \subseteq Faults

VARIABLES
  startPc,   \* where the thread in Start is
  started,   \* started_
  threads,   \* threads_
  bound,     \* clients can reach the frontend
  closePc,   \* where each caller of Close is
  sockets,   \* the frontend, backend and control sockets: "open" or "closed"
  sent,      \* the number of the last request sent
  waiting,   \* requests at the frontend
  workil,    \* TERMINATEs at the frontend, from WorkerStop
  control,   \* TERMINATEs at the control socket, from ProxyStop
  lb, cur,   \* the backend's connected workers, and whose turn it is (0 first)
  pipe,      \* what waits for each worker
  wpc,       \* where each worker is
  job,       \* the message a worker has at hand, TERMINATE before the first
  result,    \* the error code of its reply
  replyq,    \* replies of each worker that the proxy has not forwarded
  executed,  \* history: how often CallMethod was called for a request,
  answered,  \*   how often the proxy forwarded a reply to it,
  dropped    \*   requests that the worker ended without a reply

startVars  == <<startPc, started, threads, bound>>
closeVars  == <<closePc, sockets>>
frontVars  == <<sent, waiting, workil>>
backVars   == <<lb, cur, pipe>>
workerVars == <<wpc, job, result>>
history    == <<executed, answered, dropped>>
vars == <<startVars, closeVars, frontVars, control, backVars, workerVars,
          replyq, history>>

Request   == 1 .. MaxRequests
TERMINATE == 0
Message   == {TERMINATE} \cup Request
Closer    == {"stop", "dtor"}

ZEC_SUCCESS              == 0
ZEC_NOSUCHMETHOD         == 3
ZEC_METHODNOTIMPLEMENTED == 4
ZEC_DATACORRUPTED        == 6
ErrorCodeE               == 0 .. 8
Reply == [id : Request, code : ErrorCodeE]

TypeOK ==
  /\ startPc \in {"new", "spawn", "proxy", "ended", "crashed"}
  /\ started \in BOOLEAN
  /\ threads \subseteq Worker
  /\ bound \in BOOLEAN
  /\ closePc \in [Closer -> {"none", "unbind", "wstop", "join", "pstop",
                             "sockets", "done", "threw", "crashed"}]
  /\ sockets \in {"open", "closed"}
  /\ sent \in {0} \cup Request
  /\ waiting \subseteq Request
  /\ workil \in Nat /\ control \in Nat
  /\ lb \in Seq(Worker)
  /\ cur \in Nat /\ (lb # <<>> => cur < Len(lb))
  /\ pipe \in [Worker -> Seq(Message)]
  /\ wpc \in [Worker -> {"none", "connecting", "recv", "work", "reply",
                         "leaving", "gone", "crashed"}]
  /\ job \in [Worker -> Message]
  /\ result \in [Worker -> ErrorCodeE]
  /\ replyq \in [Worker -> Seq(Reply)]
  /\ executed \in [Request -> Nat] /\ answered \in [Request -> Nat]
  /\ dropped \subseteq Request

Init ==
  /\ startPc = "new" /\ started = FALSE /\ threads = {} /\ bound = FALSE
  /\ closePc = [p \in Closer |-> "none"] /\ sockets = "open"
  /\ sent = 0 /\ waiting = {} /\ workil = 0 /\ control = 0
  /\ lb = <<>> /\ cur = 0 /\ pipe = [w \in Worker |-> <<>>]
  /\ wpc = [w \in Worker |-> "none"]
  /\ job = [w \in Worker |-> TERMINATE]
  /\ result = [w \in Worker |-> ZEC_SUCCESS]
  /\ replyq = [w \in Worker |-> <<>>]
  /\ executed = [i \in Request |-> 0] /\ answered = [i \in Request |-> 0]
  /\ dropped = {}

(* The process ends abnormally: no thread goes on.                         *)
Crash ==
  /\ startPc' = "crashed" /\ bound' = FALSE
  /\ closePc' = [p \in Closer |-> "crashed"]
  /\ wpc' = [w \in Worker |-> "crashed"]

-----------------------------------------------------------------------------
(* Start                                                                   *)

(* All sockets are bound and started_ is set ...                           *)
StartBinds ==
  /\ startPc = "new" /\ closePc["dtor"] = "none" /\ sockets = "open"
  /\ startPc' = "spawn" /\ started' = TRUE /\ bound' = TRUE
  /\ UNCHANGED <<threads, closeVars, frontVars, control, backVars, workerVars,
                 replyq, history>>

(* ... or a bind throws and Start returns.  Endpoints bound before it stay *)
(* bound.  Binding a closed socket throws too.                             *)
StartBindFails ==
  /\ startPc = "new" /\ closePc["dtor"] = "none"
  /\ "bind" \in Fault \/ sockets = "closed"
  /\ startPc' = "ended"
  /\ bound' \in {FALSE, sockets = "open"}
  /\ UNCHANGED <<started, threads, closeVars, frontVars, control, backVars,
                 workerVars, replyq, history>>

StartSpawns(w) ==
  /\ startPc = "spawn" /\ w \notin threads
  /\ threads' = threads \cup {w}
  /\ wpc' = [wpc EXCEPT ![w] = "connecting"]
  /\ UNCHANGED <<startPc, started, bound, closeVars, frontVars, control,
                 backVars, job, result, replyq, history>>

ProxyStart ==
  /\ startPc = "spawn" /\ threads = Worker
  /\ startPc' = "proxy"
  /\ UNCHANGED <<started, threads, bound, closeVars, frontVars, control,
                 backVars, workerVars, replyq, history>>

(* zmq_proxy_steerable returns on TERMINATE, wherever it stands with the   *)
(* messages it forwards ...                                                *)
ProxyTerminates ==
  /\ startPc = "proxy" /\ control > 0 /\ sockets = "open"
  /\ startPc' = "ended" /\ control' = control - 1
  /\ UNCHANGED <<started, threads, bound, closeVars, frontVars, backVars,
                 workerVars, replyq, history>>

(* ... and with an error after a signal or on a closed socket; Start       *)
(* catches it.                                                             *)
ProxyFails ==
  /\ startPc = "proxy" /\ ("signal" \in Fault \/ sockets = "closed")
  /\ startPc' = "ended"
  /\ UNCHANGED <<started, threads, bound, closeVars, frontVars, control,
                 backVars, workerVars, replyq, history>>

-----------------------------------------------------------------------------
(* The clients, and the proxy's forwarding (libzmq).  A PUB frontend       *)
(* (noreply_) never receives anything.                                     *)

Closing == \E p \in Closer : closePc[p] # "none"

ClientSends ==
  /\ bound /\ sent < MaxRequests /\ ("quiet" \in Caution => ~Closing)
  /\ sent' = sent + 1 /\ waiting' = waiting \cup {sent + 1}
  /\ UNCHANGED <<startVars, closeVars, workil, control, backVars, workerVars,
                 replyq, history>>

Proxying == startPc = "proxy" /\ sockets = "open"

StopsFirst(m) ==
  /\ lb # <<>>
  /\ LET w == lb[cur + 1] IN
       pipe' = [pipe EXCEPT ![w] = IF wpc[w] = "gone" THEN @
                                   ELSE IF m = TERMINATE THEN <<m>> \o @
                                   ELSE Append(@, m)]
  /\ cur' = (cur + 1) % Len(lb)
  /\ UNCHANGED lb

(* The backend gives a message to the worker whose turn it is; what it     *)
(* gives to one that is gone, and whose leaving it has not noticed, is     *)
(* lost.                                                                   *)
GiveToWorker(m) ==
  /\ lb # <<>>
  /\ LET w == lb[cur + 1] IN
       pipe' = [pipe EXCEPT ![w] = IF wpc[w] = "gone" THEN @
                                   ELSE Append(@, m)]
  /\ cur' = (cur + 1) % Len(lb)
  /\ UNCHANGED lb

ProxyForwardsRequest(i) ==
  /\ Proxying /\ ~Noreply /\ i \in waiting
  /\ waiting' = waiting \ {i}
  /\ GiveToWorker(i)
  /\ UNCHANGED <<startVars, closeVars, sent, workil, control, workerVars,
                 replyq, history>>

ProxyForwardsStop ==
  /\ Proxying /\ ~Noreply /\ workil > 0
  /\ workil' = workil - 1
  /\ GiveToWorker(TERMINATE)
  /\ UNCHANGED <<startVars, closeVars, sent, waiting, control, workerVars,
                 replyq, history>>

ProxyForwardsReply(w) ==
  /\ Proxying /\ replyq[w] # <<>>
  /\ replyq' = [replyq EXCEPT ![w] = Tail(@)]
  /\ answered' = [answered EXCEPT ![Head(replyq[w]).id] = @ + 1]
  /\ UNCHANGED <<startVars, closeVars, frontVars, control, backVars,
                 workerVars, executed, dropped>>

(* The load balancer's pipes are an array: one that goes is overwritten    *)
(* with the last, and the turn starts over if it was the last one's.       *)
NoticeGone(w) ==
  /\ Proxying /\ wpc[w] = "gone"
  /\ \E k \in 1 .. Len(lb) :
       /\ lb[k] = w
       /\ lb' = [j \in 1 .. Len(lb) - 1 |-> IF j = k THEN lb[Len(lb)]
                                            ELSE lb[j]]
       /\ cur' = IF cur = Len(lb) - 1 THEN 0 ELSE cur
  /\ UNCHANGED <<startVars, closeVars, frontVars, control, pipe, workerVars,
                 replyq, history>>

-----------------------------------------------------------------------------
(* RpcWorker::operator()                                                   *)

Goto(w, l) == wpc' = [wpc EXCEPT ![w] = l]

WorkerConnects(w) ==
  /\ wpc[w] = "connecting" /\ sockets = "open"
  /\ Goto(w, "recv")
  /\ lb' = Append(lb, w)
  /\ UNCHANGED <<startVars, closeVars, frontVars, control, cur, pipe, job,
                 result, replyq, history>>

ReceivesAnything(w) ==
  /\ wpc[w] = "recv" /\ pipe[w] # <<>>
  /\ job' = [job EXCEPT ![w] = Head(pipe[w])]
  /\ pipe' = [pipe EXCEPT ![w] = Tail(@)]
  /\ Goto(w, "work")
  /\ UNCHANGED <<startVars, closeVars, frontVars, control, lb, cur, result,
                 replyq, history>>

WorkerReceives(w) ==
  /\ wpc[w] = "recv" /\ pipe[w] # <<>>
  /\ job' = [job EXCEPT ![w] = Head(pipe[w])]
  /\ pipe' = [pipe EXCEPT ![w] = Tail(@)]
  /\ Goto(w, IF Head(pipe[w]) = TERMINATE THEN "leaving" ELSE "work")
  /\ UNCHANGED <<startVars, closeVars, frontVars, control, lb, cur, result,
                 replyq, history>>

(* A message of other than five frames is discarded without an answer.     *)
WorkerDiscards(w) ==
  /\ wpc[w] = "work"
  /\ Goto(w, "recv") /\ dropped' = dropped \cup {job[w]}
  /\ UNCHANGED <<startVars, closeVars, frontVars, control, backVars, job,
                 result, replyq, executed, answered>>

(* throw ZError(code): the handler asks it for its code and replies.       *)
ZError(w, codes) ==
  /\ \E code \in codes : result' = [result EXCEPT ![w] = code]
  /\ Goto(w, "reply")

RejectsSilently(w) ==
  /\ wpc[w] = "work"
  /\ \E code \in {ZEC_NOSUCHMETHOD, ZEC_DATACORRUPTED} :
       result' = [result EXCEPT ![w] = code]
  /\ Goto(w, "recv")
  /\ UNCHANGED <<startVars, closeVars, frontVars, control, backVars, job,
                 replyq, history>>

(* No such method, or the request does not parse.                          *)
WorkerRejects(w) ==
  /\ wpc[w] = "work"
  /\ ZError(w, {ZEC_NOSUCHMETHOD, ZEC_DATACORRUPTED})
  /\ UNCHANGED <<startVars, closeVars, frontVars, control, backVars, job,
                 replyq, history>>

(* CallMethod runs; it succeeds, throws ZError (a method that is not       *)
(* implemented), or leaves a response that does not serialize.             *)
WorkerCalls(w) ==
  /\ wpc[w] = "work"
  /\ executed' = [executed EXCEPT ![job[w]] = @ + 1]
  /\ \/ result' = [result EXCEPT ![w] = ZEC_SUCCESS] /\ Goto(w, "reply")
     \/ ZError(w, {ZEC_METHODNOTIMPLEMENTED, ZEC_DATACORRUPTED})
  /\ UNCHANGED <<startVars, closeVars, frontVars, control, backVars, job,
                 replyq, answered, dropped>>

(* What the service throws that the worker's loop catches (zmq::error_t,   *)
(* RetryException, ExitException) ends the request without a reply ...     *)
CallAbandoned(w) ==
  /\ "service" \in Fault /\ wpc[w] = "work"
  /\ executed' = [executed EXCEPT ![job[w]] = @ + 1]
  /\ Goto(w, "recv") /\ dropped' = dropped \cup {job[w]}
  /\ UNCHANGED <<startVars, closeVars, frontVars, control, backVars, job,
                 result, replyq, answered>>

(* ... and any other exception ends the process.                           *)
ServiceThrows(w) ==
  /\ "fatal" \in Fault /\ wpc[w] = "work"
  /\ executed' = [executed EXCEPT ![job[w]] = @ + 1]
  /\ Crash
  /\ UNCHANGED <<started, threads, sockets, frontVars, control, backVars, job,
                 result, replyq, answered, dropped>>

(* The reply is sent ...                                                   *)
WorkerReplies(w) ==
  /\ wpc[w] = "reply"
  /\ Goto(w, "recv")
  /\ replyq' = IF Noreply THEN replyq
               ELSE [replyq EXCEPT ![w] = Append(@, [id |-> job[w],
                                                     code |-> result[w]])]
  /\ UNCHANGED <<startVars, closeVars, frontVars, control, backVars, job,
                 result, history>>

SendFailsRetries(w) ==
  /\ "signal" \in Fault /\ ~Noreply /\ wpc[w] = "reply"
  /\ Goto(w, "work")
  /\ UNCHANGED <<startVars, closeVars, frontVars, control, backVars, job,
                 result, replyq, history>>

(* ... or send throws zmq::error_t, after a signal, and the loop goes on.  *)
WorkerSendFails(w) ==
  /\ "signal" \in Fault /\ ~Noreply /\ wpc[w] = "reply"
  /\ Goto(w, "recv") /\ dropped' = dropped \cup {job[w]}
  /\ UNCHANGED <<startVars, closeVars, frontVars, control, backVars, job,
                 result, replyq, executed, answered>>

(* After TERMINATE: disconnect and close; what it has not read is gone.    *)
WorkerLeaves(w) ==
  /\ wpc[w] = "leaving"
  /\ Goto(w, "gone")
  /\ pipe' = [pipe EXCEPT ![w] = <<>>]
  /\ UNCHANGED <<startVars, closeVars, frontVars, control, lb, cur, job,
                 result, replyq, history>>

-----------------------------------------------------------------------------
(* Close, by the thread that stops the server or by the destructor.  It is *)
(* not called while Start is still spawning: threads_ is not protected.    *)

CloseGoto(p, l) == closePc' = [closePc EXCEPT ![p] = l]

MayClose(p) ==
  IF p = "dtor"
  THEN /\ startPc \in {"new", "ended"}
       /\ "wait" \in Caution => closePc["stop"] = "done"
  ELSE /\ startPc # "spawn" /\ closePc["dtor"] = "none"
       /\ "quiet" \in Caution => waiting = {}
       /\ "serving" \in Caution =>
            startPc = "proxy" /\ \A w \in threads : wpc[w] # "connecting"

CloseBegins(p) ==
  /\ closePc[p] = "none" /\ MayClose(p)
  /\ CloseGoto(p, IF started THEN "unbind" ELSE "sockets")
  /\ UNCHANGED <<startVars, sockets, frontVars, control, backVars, workerVars,
                 replyq, history>>

(* Inproc endpoints are not unbound: their clients can go on sending.      *)
CloseUnbinds(p) ==
  /\ closePc[p] = "unbind"
  /\ bound' = (bound /\ InprocClients) /\ started' = FALSE
  /\ CloseGoto(p, "wstop")
  /\ UNCHANGED <<startPc, threads, sockets, frontVars, control, backVars,
                 workerVars, replyq, history>>

(* unbind throws zmq::error_t and Close is left: nothing is stopped.  Out  *)
(* of the destructor the exception ends the process.                       *)
CloseUnbindThrows(p) ==
  /\ "unbind" \in Fault /\ closePc[p] = "unbind"
  /\ IF p = "dtor" THEN Crash
     ELSE CloseGoto(p, "threw") /\ UNCHANGED <<startPc, bound, wpc>>
  /\ UNCHANGED <<started, threads, sockets, frontVars, control, backVars, job,
                 result, replyq, history>>

WorkerStopOneShort(p) ==
  /\ closePc[p] = "wstop"
  /\ workil' = workil + Cardinality(threads) - 1
  /\ CloseGoto(p, "join")
  /\ UNCHANGED <<startVars, sockets, sent, waiting, control, backVars,
                 workerVars, replyq, history>>

WorkerStop(p) ==
  /\ closePc[p] = "wstop"
  /\ workil' = workil + Cardinality(threads)
  /\ CloseGoto(p, "join")
  /\ UNCHANGED <<startVars, sockets, sent, waiting, control, backVars,
                 workerVars, replyq, history>>

CloseSkipsJoin(p) ==
  /\ closePc[p] = "join"
  /\ CloseGoto(p, "pstop")
  /\ UNCHANGED <<startVars, sockets, frontVars, control, backVars, workerVars,
                 replyq, history>>

CloseJoins(p) ==
  /\ closePc[p] = "join" /\ \A w \in threads : wpc[w] = "gone"
  /\ CloseGoto(p, "pstop")
  /\ UNCHANGED <<startVars, sockets, frontVars, control, backVars, workerVars,
                 replyq, history>>

ProxyStop(p) ==
  /\ closePc[p] = "pstop"
  /\ control' = control + 1
  /\ CloseGoto(p, "sockets")
  /\ UNCHANGED <<startVars, sockets, frontVars, backVars, workerVars, replyq,
                 history>>

(* Closing sockets under a proxy that is still running is undefined: the   *)
(* proxy fails (ProxyFails) or the process crashes.                        *)
CloseSockets(p) ==
  /\ closePc[p] = "sockets"
  /\ sockets' = "closed"
  /\ \/ CloseGoto(p, "done") /\ bound' = FALSE /\ UNCHANGED <<startPc, wpc>>
     \/ startPc = "proxy" /\ Crash
  /\ UNCHANGED <<started, threads, frontVars, control, backVars, job, result,
                 replyq, history>>

-----------------------------------------------------------------------------
WorkerStep(w) ==
  \/ WorkerConnects(w) \/ WorkerReceives(w)
  \/ WorkerDiscards(w) \/ WorkerRejects(w) \/ WorkerCalls(w)
  \/ WorkerReplies(w) \/ WorkerLeaves(w)

CloseStep(p) ==
  \/ CloseUnbinds(p) \/ WorkerStop(p) \/ CloseJoins(p) \/ ProxyStop(p)
  \/ CloseSockets(p)

StartStep == StartBinds \/ (\E w \in Worker : StartSpawns(w)) \/ ProxyStart

Next ==
  \/ StartStep \/ StartBindFails
  \/ ProxyForwardsStop \/ ProxyTerminates \/ ProxyFails
  \/ \E i \in Request : ProxyForwardsRequest(i)
  \/ \E w \in Worker :
       \/ WorkerStep(w) \/ ProxyForwardsReply(w) \/ NoticeGone(w)
       \/ CallAbandoned(w) \/ ServiceThrows(w) \/ WorkerSendFails(w)
  \/ \E p \in Closer : CloseBegins(p) \/ CloseStep(p) \/ CloseUnbindThrows(p)
  \/ ClientSends

Spec == Init /\ [][Next]_vars

(* Every thread that can run runs: Start's, each worker (CallMethod        *)
(* returns), a caller of Close, and the proxy, which takes turns among its *)
(* sources.  Nobody is forced to send or to call Close.                    *)
FairSpec ==
  /\ Spec
  /\ WF_vars(StartStep)
  /\ WF_vars(ProxyTerminates)
  /\ WF_vars(ProxyForwardsStop)
  /\ \A i \in Request : WF_vars(ProxyForwardsRequest(i))
  /\ \A w \in Worker : /\ WF_vars(WorkerStep(w))
                       /\ WF_vars(ProxyForwardsReply(w))
                       /\ WF_vars(NoticeGone(w))
  /\ \A p \in Closer : WF_vars(CloseStep(p))

-----------------------------------------------------------------------------
(* Properties                                                              *)

InPipe(m, w)   == \E k \in 1 .. Len(pipe[w]) : pipe[w][k] = m
AtWorker(i, w) == wpc[w] \in {"work", "reply"} /\ job[w] = i
Replied(i, w)  == \E k \in 1 .. Len(replyq[w]) : replyq[w][k].id = i
Handled(i)     == \/ i \in dropped \/ answered[i] > 0
                  \/ \E w \in Worker : Replied(i, w)

(* No request disappears: until the server is stopped, and through a       *)
(* careful Close as well, every request sent waits at the frontend or in a *)
(* worker's pipe, is being worked on, or the worker was done with it: its  *)
(* reply waits for the proxy or was forwarded, or the worker's loop went   *)
(* on without one (not five frames, a send that failed, an exception of    *)
(* the service that the loop catches).  None is in a pipe whose worker     *)
(* leaves, and TERMINATEs do not overtake requests.  What becomes of the   *)
(* replies that wait when the proxy is stopped is not said here.           *)
NothingLost ==
  startPc # "crashed" /\ (started \/ {"serving", "quiet"} \subseteq Caution) =>
    \A i \in 1 .. sent :
      \/ i \in waiting \/ Handled(i)
      \/ \E w \in Worker : InPipe(i, w) \/ AtWorker(i, w)

(* A request is executed at most once and answered at most once, and a     *)
(* reply that reports success is to a request that was executed.           *)
AtMostOnce ==
  /\ \A i \in Request : executed[i] <= 1 /\ answered[i] <= 1
  /\ \A w \in Worker : \A k \in 1 .. Len(replyq[w]) :
       LET r == replyq[w][k] IN
         /\ answered[r.id] = 0
         /\ r.code = ZEC_SUCCESS => executed[r.id] = 1
         /\ r.code = ZEC_NOSUCHMETHOD => executed[r.id] = 0

StopOnItsWay(w) == wpc[w] \in {"leaving", "gone"} \/ InPipe(TERMINATE, w)

(* After WorkerStop there is a TERMINATE left for every worker that has    *)
(* not got its own: the load balancer gives none of them two.              *)
StopForEach ==
  \A p \in Closer : closePc[p] = "join" =>
    Cardinality({w \in threads : ~StopOnItsWay(w)}) <= workil

(* The sockets are closed only when every worker thread has ended, by      *)
(* whichever caller of Close closes them.                                  *)
ClosedAfterWorkers ==
  sockets = "closed" => \A w \in threads : wpc[w] \in {"gone", "crashed"}

(* Close comes to an end: the TERMINATEs reach all workers, which all      *)
(* leave, so that they can be joined.                                      *)
CloseReturns ==
  \A p \in Closer :
    closePc[p] = "unbind" ~> closePc[p] \in {"done", "threw", "crashed"}

(* Every request a client got through to the server is dealt with, also    *)
(* when Close comes in between.                                            *)
EventuallyHandled == \A i \in Request : sent >= i ~> Handled(i)

=============================================================================
