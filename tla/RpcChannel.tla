----------------------------- MODULE RpcChannel -----------------------------
(***************************************************************************)
(* The client side of zqrpc: one RpcChannel (src/RpcChannel.cc) used by    *)
(* one application thread, the ZControllers it hands to the channel, and   *)
(* the DEALER socket underneath.                                           *)
(*                                                                         *)
(* The application sends requests (ZSendMethod) and later collects their   *)
(* replies (ZRecvMethod) in any order; a ZRecvMethod for one controller    *)
(* also takes in the replies of the others.  The peer answers requests     *)
(* late, out of order, with an error, or not at all.                       *)
(*                                                                         *)
(* A request is known by the number the channel gives it (nextreply_), and *)
(* a reply's data by the number of the request it answers; 0 stands for    *)
(* data that answers no request.                                           *)
(***************************************************************************)
EXTENDS Integers, Sequences

CONSTANTS
  Controller,      \* places a ZController can live at (addresses)
  MaxRequests,     \* bound: largest value of nextreply_
  Timeout,         \* timeouts the application passes to ZRecvMethod
  DefaultTimeout,  \* what replaces a timeout <= 0 (60000 ms in the code)
  ClockStep,       \* by how much the wall clock may move in one unit of time
  MinElapsed,      \* bound: smallest and
  MaxElapsed,      \*   largest value of mstime() - start that is told apart
  RecvHWM,         \* replies queued for this client before the peer drops more
  PeerCode,        \* result codes the peer answers with
  Foreign,         \* TRUE: the peer may also send frames that answer nothing
  Failures,        \* TRUE: receiving may fail on an open socket (memory runs
                   \*   out, the context is terminated)
  AbandonPending   \* TRUE: the application may reuse or destroy a controller
                   \*   whose request is still outstanding

(* Result codes of a reply: ZEC_SUCCESS and the errors (ErrorCodeE).       *)
ZEC_SUCCESS         == 0
ZEC_INVALIDHEADER   == 1
ZEC_CONNECTIONERROR == 5
ZEC_CLIENTERROR     == 7
ErrorCodeE          == 0 .. 8

ASSUME ChannelAssumption ==
  /\ MaxRequests \in Nat
  /\ Timeout \subseteq Int
  /\ DefaultTimeout \in Nat \ {0}
  /\ ClockStep \subseteq Int
  /\ MinElapsed \in Int /\ MinElapsed <= 0
  /\ MaxElapsed \in Nat
  /\ RecvHWM \in Nat
  /\ PeerCode \subseteq ErrorCodeE
  /\ Foreign \in BOOLEAN /\ Failures \in BOOLEAN /\ AbandonPending \in BOOLEAN

(* Every timeout can expire within the range of elapsed that is told apart.*)
ASSUME ElapsedAssumption ==
  /\ DefaultTimeout < MaxElapsed
  /\ \A t \in Timeout : t < MaxElapsed

VARIABLES
  alive,      \* controllers that exist
  rcode,      \* ZController::rcode_
  zerror,     \* ZController::zerror_, its code
  payload,    \* ZController::payload_, the request it answers
  nextreply,  \* nextreply_, the number of the last request
  replylist,  \* replylist_, from request numbers to controllers
  socket,     \* "open" or "closed"
  wire,       \* requests sent and not answered
  inq,        \* replies that wait at the socket
  pc,         \* where the application thread is
  con,        \* the controller of the call in progress
  timeout,    \* ZRecvMethod: its timeout,
  elapsed,    \*   mstime() - start,
  toget,      \*   toget,
  pollLeft,   \*   and what is left of the time given to Poll
  issued      \* history: the last request ZSendMethod reported as sent with
              \*   each controller

conVars  == <<alive, rcode, zerror, payload, issued>>
netVars  == <<socket, wire, inq>>
callVars == <<pc, con, timeout, elapsed, toget, pollLeft>>
vars     == <<conVars, nextreply, replylist, netVars, callVars>>

(***************************************************************************)
(* A reply as ZRecvMethod sees it: BLANK ID ERRORCODE DATA, that is four   *)
(* frames.  id is -1 when the ID frame is not a number.                    *)
(***************************************************************************)
NotANumber == -1
Request    == 1 .. MaxRequests
Rogue      == MaxRequests + 1    \* a number the channel never gives out
Frames     == [size : {3, 4}, id : {NotANumber} \cup Request \cup {Rogue},
               code : ErrorCodeE, data : {0} \cup Request]

ReplyListT == UNION {[S -> Controller] : S \in SUBSET Request}

RespCodeE == {"UNSET", "WORKING", "READY", "ERROR"}
RecvLoop  == {"loop", "poll", "recv", "return"}

TypeOK ==
  /\ alive \subseteq Controller
  /\ rcode \in [Controller -> RespCodeE]
  /\ zerror \in [Controller -> ErrorCodeE]
  /\ payload \in [Controller -> {0} \cup Request]
  /\ issued \in [Controller -> {0} \cup Request]
  /\ nextreply \in {0} \cup Request
  /\ replylist \in ReplyListT
  /\ socket \in {"open", "closed"}
  /\ wire \subseteq Request
  /\ inq \in Seq(Frames)
  /\ pc \in {"idle", "send"} \cup RecvLoop
  /\ con \in Controller
  /\ timeout \in Nat \ {0}
  /\ elapsed \in MinElapsed .. MaxElapsed
  /\ toget \in BOOLEAN
  /\ pollLeft \in Nat

Init ==
  /\ alive = {}
  /\ rcode = [c \in Controller |-> "UNSET"]
  /\ zerror = [c \in Controller |-> ZEC_SUCCESS]
  /\ payload = [c \in Controller |-> 0]
  /\ issued = [c \in Controller |-> 0]
  /\ nextreply = 0
  /\ replylist = [i \in {} |-> 0]
  /\ socket = "open" /\ wire = {} /\ inq = <<>>
  /\ pc = "idle" /\ con \in Controller
  /\ timeout = DefaultTimeout /\ elapsed = 0 /\ toget = FALSE /\ pollLeft = 0

-----------------------------------------------------------------------------
(* The application and its controllers.                                    *)

Pending(c) == \E i \in DOMAIN replylist : replylist[i] = c

(* A careful application leaves a controller alone while it is WORKING.    *)
MayTouch(c) == AbandonPending \/ rcode[c] # "WORKING"

(* A ZController is constructed ...                                        *)
NewController(c) ==
  /\ pc = "idle" /\ c \notin alive
  /\ alive' = alive \cup {c}
  /\ rcode' = [rcode EXCEPT ![c] = "UNSET"]
  /\ zerror' = [zerror EXCEPT ![c] = ZEC_SUCCESS]
  /\ payload' = [payload EXCEPT ![c] = 0]
  /\ issued' = [issued EXCEPT ![c] = 0]
  /\ UNCHANGED <<nextreply, replylist, netVars, callVars>>

(* ... and destroyed; the channel is not told.                             *)
DestroyController(c) ==
  /\ pc = "idle" /\ c \in alive /\ MayTouch(c)
  /\ alive' = alive \ {c}
  /\ UNCHANGED <<rcode, zerror, payload, issued, nextreply, replylist,
                 netVars, callVars>>

-----------------------------------------------------------------------------
(* ZSendMethod                                                             *)

SetError(c, code) ==
  /\ zerror' = [zerror EXCEPT ![c] = code]
  /\ rcode' = [rcode EXCEPT ![c] = "ERROR"]

(* SerializeToString fails, or memory runs out before a number is taken:   *)
(* nothing is sent.                                                        *)
SerializeFails(c) ==
  /\ pc = "idle" /\ c \in alive /\ MayTouch(c)
  /\ \E code \in {ZEC_INVALIDHEADER, ZEC_CLIENTERROR} : SetError(c, code)
  /\ UNCHANGED <<alive, payload, issued, nextreply, replylist, netVars,
                 callVars>>

(* Otherwise the request gets the next number and goes to socket_.Send.    *)
ZSendMethod(c) ==
  /\ pc = "idle" /\ c \in alive /\ MayTouch(c)
  /\ nextreply < MaxRequests
  /\ nextreply' = nextreply + 1
  /\ pc' = "send" /\ con' = c
  /\ UNCHANGED <<conVars, replylist, netVars, timeout, elapsed, toget,
                 pollLeft>>

Bind(i, c) == [j \in DOMAIN replylist \cup {i} |->
                 IF j = i THEN c ELSE replylist[j]]

(* send() takes the message.  It blocks while the socket's queue is full;  *)
(* no fairness is assumed of it.                                           *)
SendAccepted ==
  /\ pc = "send" /\ socket = "open"
  /\ wire' = wire \cup {nextreply}
  /\ rcode' = [rcode EXCEPT ![con] = "WORKING"]
  /\ replylist' = Bind(nextreply, con)
  /\ issued' = [issued EXCEPT ![con] = nextreply]
  /\ pc' = "idle"
  /\ UNCHANGED <<alive, zerror, payload, nextreply, socket, inq, con, timeout,
                 elapsed, toget, pollLeft>>

(* send() throws zmq::error_t (the socket is closed, the context is gone,  *)
(* or a signal came) or memory runs out, the latter also in replylist_'s   *)
(* insert, when the request is already on its way.  The number stays used. *)
SendFails ==
  /\ pc = "send"
  /\ \E code \in {ZEC_CONNECTIONERROR, ZEC_CLIENTERROR} :
       /\ SetError(con, code)
       /\ \/ wire' = wire
          \/ /\ code = ZEC_CLIENTERROR /\ socket = "open"
             /\ wire' = wire \cup {nextreply}
  /\ pc' = "idle"
  /\ UNCHANGED <<alive, payload, issued, nextreply, replylist, socket, inq,
                 con, timeout, elapsed, toget, pollLeft>>

-----------------------------------------------------------------------------
(* ZRecvMethod.  Its loop is at "loop"; "poll" is inside Poll, "recv" at   *)
(* NonBlockingRecv, "return" behind the loop.  An exception leaves the     *)
(* call, back to "idle".                                                   *)

RawTimeout(t) == t
EffectiveTimeout(t) == IF t <= 0 THEN DefaultTimeout ELSE t

ZRecvMethod(c, t) ==
  /\ pc = "idle" /\ c \in alive
  /\ pc' = "loop" /\ con' = c
  /\ timeout' = EffectiveTimeout(t)
  /\ elapsed' = 0 /\ toget' = FALSE
  /\ UNCHANGED <<conVars, nextreply, replylist, netVars, pollLeft>>

HasResult == ~toget /\ rcode[con] # "WORKING"
ExpiresIdle == ~toget /\ elapsed > timeout
Expired == elapsed > timeout

LoopGivesUp ==
  /\ pc = "loop"
  /\ HasResult \/ Expired
  /\ pc' = "return"
  /\ rcode' = [rcode EXCEPT ![con] = IF HasResult THEN @ ELSE "ERROR"]
  /\ UNCHANGED <<alive, zerror, payload, issued, nextreply, replylist, netVars,
                 con, timeout, elapsed, toget, pollLeft>>

(* The loop ends: the controller has its result, or time is up.            *)
LoopEnds ==
  /\ pc = "loop"
  /\ HasResult \/ Expired
  /\ pc' = "return"
  /\ UNCHANGED <<conVars, nextreply, replylist, netVars, con, timeout,
                 elapsed, toget, pollLeft>>

LoopPollsAfresh ==
  /\ pc = "loop" /\ ~HasResult /\ ~Expired /\ ~toget
  /\ pc' = "poll" /\ pollLeft' = timeout
  /\ UNCHANGED <<conVars, nextreply, replylist, netVars, con, timeout,
                 elapsed, toget>>

(* Nothing known to be waiting: wait in Poll for the rest of the time.     *)
LoopPolls ==
  /\ pc = "loop" /\ ~HasResult /\ ~Expired /\ ~toget
  /\ pc' = "poll" /\ pollLeft' = timeout - elapsed
  /\ UNCHANGED <<conVars, nextreply, replylist, netVars, con, timeout,
                 elapsed, toget>>

(* More may be waiting: take it in, for whichever controller it is.        *)
LoopDrains ==
  /\ pc = "loop" /\ ~Expired /\ toget
  /\ pc' = "recv"
  /\ UNCHANGED <<conVars, nextreply, replylist, netVars, con, timeout,
                 elapsed, toget, pollLeft>>

(* A closed ZSocket polls file descriptor 0 instead of a socket.           *)
PollReadable ==
  /\ pc = "poll" /\ (inq # <<>> \/ socket = "closed")
  /\ toget' = TRUE /\ pc' = "recv"
  /\ UNCHANGED <<conVars, nextreply, replylist, netVars, con, timeout,
                 elapsed, pollLeft>>

PollExpires ==
  /\ pc = "poll" /\ inq = <<>> /\ pollLeft = 0
  /\ pc' = "return"
  /\ UNCHANGED <<conVars, nextreply, replylist, netVars, con, timeout,
                 elapsed, toget, pollLeft>>

(* zmq_poll is interrupted by a signal and zmq::error_t leaves the call.   *)
PollThrows ==
  /\ pc = "poll"
  /\ pc' = "idle"
  /\ UNCHANGED <<conVars, nextreply, replylist, netVars, con, timeout,
                 elapsed, toget, pollLeft>>

RecvGivesUp ==
  /\ pc = "recv" /\ socket = "open" /\ inq = <<>>
  /\ toget' = FALSE /\ pc' = "return"
  /\ UNCHANGED <<conVars, nextreply, replylist, netVars, con, timeout,
                 elapsed, pollLeft>>

(* NonBlockingRecv finds nothing (RetryException): poll again.             *)
RecvRetries ==
  /\ pc = "recv" /\ socket = "open" /\ inq = <<>>
  /\ toget' = FALSE /\ pc' = "loop"
  /\ UNCHANGED <<conVars, nextreply, replylist, netVars, con, timeout,
                 elapsed, pollLeft>>

(* On a closed socket it throws zmq::error_t.                              *)
RecvThrows ==
  /\ pc = "recv" /\ socket = "closed"
  /\ pc' = "idle"
  /\ UNCHANGED <<conVars, nextreply, replylist, netVars, con, timeout,
                 elapsed, toget, pollLeft>>

(* It may throw on an open one too.  After zmq::error_t (the context was   *)
(* terminated) nothing is lost; where memory runs out, here or while the   *)
(* reply is copied, the message is gone, or what is left of it is read as  *)
(* one with fewer frames.                                                  *)
Remainder == [size |-> 3, id |-> NotANumber, code |-> 0, data |-> 0]

RecvFails ==
  /\ Failures
  /\ pc = "recv" /\ socket = "open"
  /\ \/ inq' = inq
     \/ /\ inq # <<>>
        /\ inq' \in {Tail(inq), [inq EXCEPT ![1] = Remainder]}
  /\ pc' = "idle"
  /\ UNCHANGED <<conVars, nextreply, replylist, socket, wire, con, timeout,
                 elapsed, toget, pollLeft>>

(* Frames that are no reply to a request on the list are skipped.          *)
Ignored(f) ==
  \/ f.size # 4
  \/ /\ f.id # NotANumber
     /\ f.id > nextreply \/ f.id \notin DOMAIN replylist

RecvIgnores ==
  /\ pc = "recv" /\ inq # <<>> /\ Ignored(Head(inq))
  /\ inq' = Tail(inq)
  /\ pc' = "loop"
  /\ UNCHANGED <<conVars, nextreply, replylist, socket, wire, con, timeout,
                 elapsed, toget, pollLeft>>

(* lexical_cast throws on an ID that is not a number; frames.at(4) throws  *)
(* std::out_of_range on every error reply, which has four frames.  Both    *)
(* leave the call before the controller or replylist_ is touched.          *)
Throws(f) == f.size = 4 /\ (f.id = NotANumber \/ f.code # ZEC_SUCCESS)

RecvRejects ==
  /\ pc = "recv" /\ inq # <<>>
  /\ ~Ignored(Head(inq)) /\ Throws(Head(inq))
  /\ inq' = Tail(inq)
  /\ pc' = "idle"
  /\ UNCHANGED <<conVars, nextreply, replylist, socket, wire, con, timeout,
                 elapsed, toget, pollLeft>>

CallersController(i) == con
Othercon(i) == replylist[i]
KeepEntry(i) == replylist
Erase(i) == [j \in DOMAIN replylist \ {i} |-> replylist[j]]

(* A reply goes to the controller its number belongs to.                   *)
RecvDelivers ==
  /\ pc = "recv" /\ inq # <<>>
  /\ ~Ignored(Head(inq)) /\ ~Throws(Head(inq))
  /\ LET f == Head(inq) IN
       /\ payload' = [payload EXCEPT ![Othercon(f.id)] = f.data]
       /\ rcode' = [rcode EXCEPT ![Othercon(f.id)] = "READY"]
       /\ replylist' = Erase(f.id)
  /\ inq' = Tail(inq)
  /\ pc' = "loop"
  /\ UNCHANGED <<alive, zerror, issued, nextreply, socket, wire, con, timeout,
                 elapsed, toget, pollLeft>>

(* ZRecvMethod parses the payload of a READY controller and returns.       *)
RecvReturns ==
  /\ pc = "return"
  /\ pc' = "idle"
  /\ UNCHANGED <<conVars, nextreply, replylist, netVars, con, timeout,
                 elapsed, toget, pollLeft>>

(* Close() and the destructor: what has not been received is gone.  Where  *)
(* disconnect throws, Close() has changed nothing; from the destructor it  *)
(* ends the process.                                                       *)
Close ==
  /\ pc = "idle" /\ socket = "open"
  /\ socket' = "closed" /\ inq' = <<>> /\ wire' = {}
  /\ UNCHANGED <<conVars, nextreply, replylist, callVars>>

-----------------------------------------------------------------------------
(* The peer and the network.                                               *)

(* A request is answered, in any order.                                    *)
PeerReplies(i, code) ==
  /\ i \in wire /\ Len(inq) < RecvHWM
  /\ wire' = wire \ {i}
  /\ inq' = Append(inq, [size |-> 4, id |-> i, code |-> code, data |-> i])
  /\ UNCHANGED <<conVars, nextreply, replylist, socket, callVars>>

(* A request or its reply is lost.                                         *)
PeerLoses(i) ==
  /\ i \in wire
  /\ wire' = wire \ {i}
  /\ UNCHANGED <<conVars, nextreply, replylist, socket, inq, callVars>>

(* Frames that answer no outstanding request: too few frames, an ID that   *)
(* is no number or that was never given out, a second reply to a request   *)
(* that has been answered.                                                 *)
ForeignFrames ==
  {[size |-> 3, id |-> NotANumber, code |-> 0, data |-> 0],
   [size |-> 4, id |-> NotANumber, code |-> 0, data |-> 0],
   [size |-> 4, id |-> Rogue, code |-> 0, data |-> 0]}
  \cup {[size |-> 4, id |-> i, code |-> 0, data |-> 0] :
          i \in {j \in 1 .. nextreply : /\ j \notin DOMAIN replylist
                                        /\ ~(pc = "send" /\ j = nextreply)}}

ForeignArrives ==
  /\ Foreign /\ socket = "open" /\ Len(inq) < RecvHWM
  /\ \E f \in ForeignFrames : inq' = Append(inq, f)
  /\ UNCHANGED <<conVars, nextreply, replylist, socket, wire, callVars>>

(* Time passes during ZRecvMethod.  Poll measures it with a steady clock,  *)
(* mstime() with the wall clock, which may be set.                         *)
Clamp(n) == IF n < MinElapsed THEN MinElapsed
            ELSE IF n > MaxElapsed THEN MaxElapsed ELSE n

Tick ==
  /\ pc \in RecvLoop
  /\ \E d \in ClockStep : elapsed' = Clamp(elapsed + d)
  /\ pollLeft' = IF pollLeft > 0 THEN pollLeft - 1 ELSE 0
  /\ UNCHANGED <<conVars, nextreply, replylist, netVars, pc, con, timeout,
                 toget>>

-----------------------------------------------------------------------------
RecvStep ==
  \/ LoopEnds \/ LoopPolls \/ LoopDrains
  \/ PollReadable \/ PollExpires
  \/ RecvRetries \/ RecvThrows \/ RecvIgnores \/ RecvRejects \/ RecvDelivers
  \/ RecvReturns

Application ==
  \/ \E c \in Controller :
       \/ NewController(c) \/ DestroyController(c)
       \/ SerializeFails(c) \/ ZSendMethod(c)
       \/ \E t \in Timeout : ZRecvMethod(c, t)
  \/ SendAccepted \/ SendFails \/ PollThrows \/ RecvFails \/ Close

Network ==
  \/ \E i \in wire : PeerLoses(i) \/ \E code \in PeerCode : PeerReplies(i, code)
  \/ ForeignArrives

Next == Application \/ RecvStep \/ Network \/ Tick

Spec == Init /\ [][Next]_vars

(* The thread inside ZRecvMethod keeps running and time passes.  Nothing   *)
(* is assumed of the application or the peer.                              *)
FairSpec == Spec /\ WF_vars(RecvStep) /\ WF_vars(Tick)

-----------------------------------------------------------------------------
(* Properties                                                              *)

(* replylist_ lists exactly the requests that are outstanding: each entry  *)
(* belongs to a live controller that is WORKING, no controller has two     *)
(* entries, and every WORKING controller has one.  So no reply is written  *)
(* through a dangling pointer or to a controller that has its result.      *)
(* (ZSendMethod's insert against ZRecvMethod's erase and exceptions; needs *)
(* an application that leaves WORKING controllers alone.)                  *)
ReplylistExact ==
  /\ \A i \in DOMAIN replylist :
       replylist[i] \in alive /\ rcode[replylist[i]] = "WORKING"
  /\ \A i, j \in DOMAIN replylist : replylist[i] = replylist[j] => i = j
  /\ \A c \in alive : rcode[c] = "WORKING" => Pending(c)

(* ok() tells the truth: a READY controller holds the reply to the last    *)
(* request sent with it, however late and in whatever order replies came   *)
(* and whichever call took them in.                                        *)
FreshReply ==
  \A c \in alive : rcode[c] = "READY" => payload[c] = issued[c] /\ issued[c] # 0

(* A controller stops WORKING only when ZRecvMethod takes in the reply to  *)
(* its own request: no timeout, exception, other reply or other call ends  *)
(* a request.                                                              *)
CompletedByOwnReply ==
  [][\A c \in alive :
       rcode[c] = "WORKING" /\ rcode'[c] # "WORKING" =>
         /\ pc = "recv" /\ inq # <<>>
         /\ Head(inq).id = issued[c] /\ inq' = Tail(inq)]_vars

(* With a steady wall clock Poll waits for what is left of the timeout and *)
(* no longer: it ends no later than the deadline of the whole call, also   *)
(* after frames for other controllers, and never waits forever.            *)
NeverLate == pc = "poll" => pollLeft = 0 \/ elapsed + pollLeft = timeout

(* With a steady wall clock ZRecvMethod returns without a result only when *)
(* the whole timeout has passed.                                           *)
NeverEarly == pc = "return" /\ rcode[con] = "WORKING" => elapsed >= timeout

(* ZRecvMethod returns, even if the peer keeps the socket readable forever *)
(* with frames that are for nobody.                                        *)
RecvTerminates == pc \in RecvLoop ~> pc = "idle"

(* An error reply (BLANK ID ERRORCODE DATA) to an outstanding request is   *)
(* reported in its controller.  The code throws std::out_of_range instead. *)
ErrorReported ==
  [][pc = "recv" /\ inq # <<>> /\ inq' = Tail(inq) =>
       LET f == Head(inq) IN
         f.id \in DOMAIN replylist /\ f.code # ZEC_SUCCESS =>
           rcode'[replylist[f.id]] = "ERROR"]_vars

=============================================================================
