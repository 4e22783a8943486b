------------------------------ MODULE RpcSystem ------------------------------
(***************************************************************************)
(* Many channels and one server: what the envelope of a message, and the   *)
(* identity in it, do with requests and replies on their way from a        *)
(* channel (src/RpcChannel.cc) through the ROUTER, a worker                *)
(* (src/RpcWorker.cc) and the ROUTER back to a channel.                    *)
(*                                                                         *)
(* RpcChannel looks at one channel and takes PeerAssumption for granted,   *)
(* and RpcServer at the server alone; here both are coarser, and what is   *)
(* in the foreground is that a channel's identity is the id of the thread  *)
(* that creates it, that every channel counts its requests from one, and   *)
(* that connections come and go.                                           *)
(*                                                                         *)
(* A call is a request of a channel: <<channel, number>>.  The data of a   *)
(* message, request or reply, is the call it belongs to.                   *)
(***************************************************************************)
EXTENDS Integers

CONSTANTS
  Channel,     \* the RpcChannel objects of all clients
  Thread,      \* the threads' ids
  Worker,      \* the server's worker threads
  Nobody,      \* no channel, no request
  creator,     \* which thread creates a channel
  MaxCalls,    \* bound: the requests of each channel
  Reuse,       \* when a thread that has created channels creates the next:
               \*   at any time, after it closed them, or when none of their
               \*   requests and replies is on its way any more
  Fault        \* what may go wrong: a subset of Faults

(* A connection breaks, the server restarts, a service throws what the     *)
(* worker's loop catches.                                                  *)
Faults == {"break", "restart", "service"}

ASSUME SystemAssumption ==
  /\ creator \in [Channel -> Thread]
  /\ MaxCalls \in [Channel -> Nat]
  /\ Reuse \in {"any", "closed", "quiet"}
  /\ Fault \subseteq Faults

Number == UNION {1 .. MaxCalls[k] : k \in Channel}
Call   == {c \in Channel \X Number : c[2] <= MaxCalls[c[1]]}

(* boost::this_thread::get_id(), for the channel's ZMQ_IDENTITY.           *)
Identity(k) == creator[k]

ZEC_SUCCESS      == 0
ZEC_NOSUCHMETHOD == 3
Code             == {ZEC_SUCCESS, ZEC_NOSUCHMETHOD}

(* The frames IDENTITY BLANK ID OPCODE DATA, and the same with ERRORCODE   *)
(* DATA in the end.                                                        *)
Request == [identity : Thread, id : Number, data : Call]
Reply   == [identity : Thread, id : Number, code : Code, data : Call]

ASSUME NobodyAssumption == Nobody \notin Channel \cup Request \cup Call

VARIABLES
  chan,       \* a channel: "new", "open", "closed"
  nextreply,  \* nextreply_ of each channel
  replylist,  \* replylist_ of each channel, the numbers in it
  result,     \* what the controller of a call holds: the call whose result
              \*   it is, or Nobody
  route,      \* ROUTER: the channel that has an identity
  refused,    \* ROUTER: channels whose identity was in use
  up,         \* calls written by their channels, not read by the ROUTER
  work,       \* requests on their way to the workers
  job,        \* the request a worker has at hand
  back,       \* replies on their way to the ROUTER
  down,       \* replies at a channel's socket
  executed,   \* history: how often a call was executed
  ended       \* history: calls that were lost or ended in an exception

chanVars   == <<chan, nextreply, replylist, result>>
routerVars == <<route, refused>>
netVars    == <<up, work, back, down>>
vars == <<chanVars, routerVars, netVars, job, executed, ended>>

TypeOK ==
  /\ chan \in [Channel -> {"new", "open", "closed"}]
  /\ nextreply \in [Channel -> {0} \cup Number]
  /\ replylist \in [Channel -> SUBSET Number]
  /\ result \in [Call -> Call \cup {Nobody}]
  /\ route \in [Thread -> Channel \cup {Nobody}]
  /\ refused \subseteq Channel
  /\ up \subseteq Call /\ work \subseteq Request /\ back \subseteq Reply
  /\ down \in [Channel -> SUBSET Reply]
  /\ job \in [Worker -> Request \cup {Nobody}]
  /\ executed \in [Call -> Nat]
  /\ ended \subseteq Call

Init ==
  /\ chan = [k \in Channel |-> "new"]
  /\ nextreply = [k \in Channel |-> 0]
  /\ replylist = [k \in Channel |-> {}]
  /\ result = [c \in Call |-> Nobody]
  /\ route = [t \in Thread |-> Nobody] /\ refused = {}
  /\ up = {} /\ work = {} /\ back = {} /\ down = [k \in Channel |-> {}]
  /\ job = [w \in Worker |-> Nobody]
  /\ executed = [c \in Call |-> 0] /\ ended = {}

-----------------------------------------------------------------------------
(* The channels                                                            *)

(* The request of a call, or the reply to it, is somewhere.                *)
OnItsWay(c) ==
  \/ c \in up
  \/ \E m \in work \cup back : m.data = c
  \/ \E w \in Worker : job[w] # Nobody /\ job[w].data = c
  \/ \E k \in Channel : \E r \in down[k] : r.data = c

Quiet(k) == \A c \in Call : c[1] = k => ~OnItsWay(c)

OpenChannel(k) ==
  /\ chan[k] = "new"
  /\ \A j \in Channel \ {k} : creator[j] = creator[k] /\ chan[j] # "new" =>
       /\ Reuse # "any" => chan[j] = "closed"
       /\ Reuse = "quiet" => Quiet(j)
  /\ chan' = [chan EXCEPT ![k] = "open"]
  /\ UNCHANGED <<nextreply, replylist, result, routerVars, netVars, job,
                 executed, ended>>

ZSendMethod(k) ==
  /\ chan[k] = "open" /\ nextreply[k] < MaxCalls[k]
  /\ LET n == nextreply[k] + 1 IN
       /\ nextreply' = [nextreply EXCEPT ![k] = n]
       /\ replylist' = [replylist EXCEPT ![k] = @ \cup {n}]
       /\ up' = up \cup {<<k, n>>}
  /\ UNCHANGED <<chan, result, routerVars, work, back, down, job, executed,
                 ended>>

(* ZRecvMethod takes a reply in.  One with a number that is not on the     *)
(* list is skipped; an error reply throws and leaves the list as it is.    *)
TakesIn(k, r) == r.id \in replylist[k] /\ r.code = ZEC_SUCCESS

ZRecvMethod(k) ==
  /\ chan[k] = "open"
  /\ \E r \in down[k] :
       /\ down' = [down EXCEPT ![k] = @ \ {r}]
       /\ IF TakesIn(k, r)
          THEN /\ result' = [result EXCEPT ![<<k, r.id>>] = r.data]
               /\ replylist' = [replylist EXCEPT ![k] = @ \ {r.id}]
               /\ UNCHANGED ended
          ELSE /\ ended' = ended \cup {r.data}
               /\ UNCHANGED <<result, replylist>>
  /\ UNCHANGED <<chan, nextreply, routerVars, up, work, back, job, executed>>

(* Close: requests that were sent are still delivered (no linger is set),  *)
(* replies are not.                                                        *)
CloseChannel(k) ==
  /\ chan[k] = "open"
  /\ chan' = [chan EXCEPT ![k] = "closed"]
  /\ down' = [down EXCEPT ![k] = {}]
  /\ ended' = ended \cup {<<k, n>> : n \in replylist[k]}
  /\ UNCHANGED <<nextreply, replylist, result, routerVars, up, work, back, job,
                 executed>>

-----------------------------------------------------------------------------
(* The ROUTER (libzmq).  A peer whose identity is in use is not taken.     *)

Unread(k) == \E n \in Number : <<k, n>> \in up

Attach(k) ==
  /\ chan[k] = "open" \/ (chan[k] = "closed" /\ Unread(k))
  /\ k \notin refused /\ route[Identity(k)] # k
  /\ IF route[Identity(k)] = Nobody
     THEN route' = [route EXCEPT ![Identity(k)] = k] /\ UNCHANGED refused
     ELSE refused' = refused \cup {k} /\ UNCHANGED route
  /\ UNCHANGED <<chanVars, netVars, job, executed, ended>>

Detach(k) ==
  /\ chan[k] = "closed" /\ route[Identity(k)] = k /\ ~Unread(k)
  /\ route' = [route EXCEPT ![Identity(k)] = Nobody]
  /\ UNCHANGED <<chanVars, refused, netVars, job, executed, ended>>

(* The identity of the peer is put in front of its message.                *)
ForwardRequest(c) ==
  /\ c \in up /\ route[Identity(c[1])] = c[1]
  /\ up' = up \ {c}
  /\ work' = work \cup {[identity |-> Identity(c[1]), id |-> c[2], data |-> c]}
  /\ UNCHANGED <<chanVars, routerVars, back, down, job, executed, ended>>

(* A reply goes to whoever has the identity now, or is dropped.            *)
ForwardReply(r) ==
  /\ r \in back
  /\ back' = back \ {r}
  /\ LET k == route[r.identity] IN
       IF k # Nobody /\ chan[k] = "open"
       THEN down' = [down EXCEPT ![k] = @ \cup {r}] /\ UNCHANGED ended
       ELSE ended' = ended \cup {r.data} /\ UNCHANGED down
  /\ UNCHANGED <<chanVars, routerVars, up, work, job, executed>>

-----------------------------------------------------------------------------
(* The workers                                                             *)

PeeksAtRequest(w) ==
  /\ job[w] = Nobody
  /\ \E m \in work : job' = [job EXCEPT ![w] = m]
  /\ UNCHANGED <<chanVars, routerVars, netVars, executed, ended>>

WorkerTakes(w) ==
  /\ job[w] = Nobody
  /\ \E m \in work : job' = [job EXCEPT ![w] = m] /\ work' = work \ {m}
  /\ UNCHANGED <<chanVars, routerVars, up, back, down, executed, ended>>

SwapsFrames(m, code) ==
  [identity |-> m.identity, id |-> code, code |-> m.id, data |-> m.data]

DefaultsId(m, code) ==
  [identity |-> m.identity, id |-> 1, code |-> code, data |-> m.data]

(* The last two frames are replaced by the code and the result.            *)
ReplyTo(m, code) ==
  [identity |-> m.identity, id |-> m.id, code |-> code, data |-> m.data]

AnswersAgain(w) ==
  /\ job[w] # Nobody
  /\ executed' = [executed EXCEPT ![job[w].data] = @ + 1]
  /\ back' = back \cup {ReplyTo(job[w], ZEC_SUCCESS)}
  /\ UNCHANGED <<chanVars, routerVars, up, work, down, job, ended>>

WorkerAnswers(w) ==
  /\ job[w] # Nobody
  /\ executed' = [executed EXCEPT ![job[w].data] = @ + 1]
  /\ back' = back \cup {ReplyTo(job[w], ZEC_SUCCESS)}
  /\ job' = [job EXCEPT ![w] = Nobody]
  /\ UNCHANGED <<chanVars, routerVars, up, work, down, ended>>

RejectsSilently(w) ==
  /\ job[w] # Nobody
  /\ job' = [job EXCEPT ![w] = Nobody]
  /\ UNCHANGED <<chanVars, routerVars, netVars, executed, ended>>

(* A ZError, whichever its code: the worker's own, before the service is   *)
(* called, or the service's, or one for a response that does not serialize.*)
WorkerRejects(w) ==
  /\ job[w] # Nobody
  /\ executed' \in {executed, [executed EXCEPT ![job[w].data] = @ + 1]}
  /\ back' = back \cup {ReplyTo(job[w], ZEC_NOSUCHMETHOD)}
  /\ job' = [job EXCEPT ![w] = Nobody]
  /\ UNCHANGED <<chanVars, routerVars, up, work, down, ended>>

(* The service is called and throws, the worker's loop catches it and goes *)
(* on without a reply.                                                     *)
WorkerAbandons(w) ==
  /\ "service" \in Fault /\ job[w] # Nobody
  /\ executed' = [executed EXCEPT ![job[w].data] = @ + 1]
  /\ ended' = ended \cup {job[w].data}
  /\ job' = [job EXCEPT ![w] = Nobody]
  /\ UNCHANGED <<chanVars, routerVars, netVars>>

-----------------------------------------------------------------------------
(* Faults                                                                  *)

(* A connection breaks; what is in it may be lost, and the channel's       *)
(* socket connects again.                                                  *)
ConnectionBreaks(k) ==
  /\ "break" \in Fault /\ route[Identity(k)] = k
  /\ route' = [route EXCEPT ![Identity(k)] = Nobody]
  /\ \E lost \in SUBSET {c \in up : c[1] = k} :
       up' = up \ lost /\ ended' = ended \cup lost
  /\ UNCHANGED <<chanVars, refused, work, back, down, job, executed>>

(* The server's process ends and is started anew.                          *)
ServerRestarts ==
  /\ "restart" \in Fault
  /\ ended' = ended \cup {m.data : m \in work \cup back}
                    \cup {job[w].data : w \in {v \in Worker : job[v] # Nobody}}
  /\ route' = [t \in Thread |-> Nobody] /\ refused' = {}
  /\ work' = {} /\ back' = {} /\ job' = [w \in Worker |-> Nobody]
  /\ UNCHANGED <<chanVars, up, down, executed>>

-----------------------------------------------------------------------------
ForwardsRequest == \E c \in up : ForwardRequest(c)
ForwardsReply   == \E r \in back : ForwardReply(r)
WorkerStep(w)   == \/ WorkerTakes(w) \/ WorkerAnswers(w) \/ WorkerRejects(w)
                   \/ WorkerAbandons(w)

Next ==
  \/ \E k \in Channel :
       \/ OpenChannel(k) \/ ZSendMethod(k) \/ ZRecvMethod(k) \/ CloseChannel(k)
       \/ Attach(k) \/ Detach(k) \/ ConnectionBreaks(k)
  \/ \E w \in Worker : WorkerStep(w)
  \/ ForwardsRequest \/ ForwardsReply \/ ServerRestarts

Spec == Init /\ [][Next]_vars

(* Connections are made, the ROUTER goes on with both sides and the        *)
(* workers with what they have at hand, and a client takes in what has     *)
(* arrived.                                                                *)
FairSpec ==
  /\ Spec
  /\ \A k \in Channel : WF_vars(Attach(k)) /\ WF_vars(ZRecvMethod(k))
  /\ WF_vars(ForwardsRequest) /\ WF_vars(ForwardsReply)
  /\ \A w \in Worker : WF_vars(WorkerStep(w))

-----------------------------------------------------------------------------
(* Properties                                                              *)

(* A controller gets the result of its own call, and of no other channel's *)
(* call with the same number, although identities are used again.  This    *)
(* takes Reuse = "quiet": what an earlier channel of the thread sent has   *)
(* been answered, lost or dropped before the next channel is there.  A     *)
(* late reply to a channel that is closed goes to the next one otherwise.  *)
OwnResult == \A c \in Call : result[c] \in {Nobody, c}

(* What RpcChannel takes for granted of its peer: a frame at a channel's   *)
(* socket with a number that is on its list is the one answer to that      *)
(* request, and that request is nowhere else any more.                     *)
PeerAssumption ==
  \A k \in Channel : \A r \in down[k] :
    r.id \in replylist[k] =>
      /\ r.data = <<k, r.id>>
      /\ \A q \in down[k] \ {r} : q.id # r.id
      /\ r.data \notin up
      /\ \A m \in work \cup back : m.data # r.data

(* The calls of the whole system are calls as RpcCall has them.            *)
Calls == INSTANCE RpcCall WITH
  runs  <- executed,
  phase <- [c \in Call |-> IF result[c] = c THEN "answered"
                           ELSE IF nextreply[c[1]] >= c[2] THEN "called"
                           ELSE "none"]

CallsRefined == Calls!Spec

(* Every request of a channel the ROUTER knows comes to an end: its        *)
(* controller holds the result, or it was lost in a fault, in Close, in an *)
(* exception or as a reply that nobody is there for.  It is never          *)
(* forgotten in between.                                                   *)
EveryCallEnds ==
  \A c \in Call :
    nextreply[c[1]] >= c[2] /\ route[Identity(c[1])] = c[1]
      ~> result[c] = c \/ c \in ended \/ route[Identity(c[1])] # c[1]

=============================================================================
