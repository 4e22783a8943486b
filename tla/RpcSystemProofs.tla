--------------------------- MODULE RpcSystemProofs ---------------------------
(***************************************************************************)
(* Proofs about RpcSystem, for every number of channels, threads, workers  *)
(* and requests, with and without faults: its type, that a caller gets the *)
(* result of its own call and that the system implements RpcCall.          *)
(***************************************************************************)
EXTENDS RpcSystem, TLAPS

-----------------------------------------------------------------------------
(* Facts about the data.                                                   *)

(* A channel and a number up to its bound are a call, and all calls are    *)
(* made like that.                                                         *)
LEMMA CallIntro ==
  ASSUME NEW k \in Channel, NEW n \in 1 .. MaxCalls[k]
  PROVE  n \in Number /\ <<k, n>> \in Call
<1>1. n \in Number
  BY DEF Number
<1>2. MaxCalls[k] \in Nat /\ n <= MaxCalls[k]
  BY SystemAssumption
<1> QED
  BY <1>1, <1>2 DEF Call

LEMMA CallElim ==
  ASSUME NEW c \in Call
  PROVE  /\ c[1] \in Channel
         /\ c[2] \in Number /\ c[2] \in 1 .. MaxCalls[c[1]]
         /\ c = <<c[1], c[2]>>
<1>1. c[1] \in Channel /\ c[2] \in Number /\ c = <<c[1], c[2]>>
      /\ c[2] <= MaxCalls[c[1]]
  BY DEF Call
<1>2. PICK k \in Channel : c[2] \in 1 .. MaxCalls[k]
  BY <1>1 DEF Number
<1>3. MaxCalls[k] \in Nat /\ MaxCalls[c[1]] \in Nat
  BY <1>1, SystemAssumption
<1> QED
  BY <1>1, <1>2, <1>3

(* Numbers are positive.                                                   *)
LEMMA NumberPositive == Number \subseteq Nat \ {0}
<1> SUFFICES ASSUME NEW n \in Number
             PROVE  n \in Nat \ {0}
  OBVIOUS
<1>1. PICK k \in Channel : n \in 1 .. MaxCalls[k]
  BY DEF Number
<1> QED
  BY <1>1, SystemAssumption

(* A worker that has a request has one of type Request.                    *)
LEMMA JobType ==
  ASSUME TypeOK, NEW w \in Worker, job[w] # Nobody
  PROVE  job[w] \in Request /\ job[w].data \in Call
<1>1. job[w] \in Request
  BY DEF TypeOK
<1> QED
  BY <1>1 DEF Request

-----------------------------------------------------------------------------
(* Type correctness.                                                       *)

(* A channel counts its requests from one up to its bound, and has on its  *)
(* list only numbers it has given out.                                     *)
Numbered ==
  \A k \in Channel :
    /\ nextreply[k] \in 0 .. MaxCalls[k]
    /\ replylist[k] \subseteq 1 .. nextreply[k]
    /\ chan[k] = "new" => nextreply[k] = 0

(* TypeOK alone is not inductive: the calls that Close gives up on are     *)
(* calls only because their numbers are below the bound.                   *)
TypeInv == TypeOK /\ Numbered

LEMMA TypeInit == Init => TypeInv
BY SystemAssumption DEF Init, TypeInv, TypeOK, Numbered

(* A number on a channel's list makes a call.                              *)
LEMMA Listed ==
  ASSUME TypeInv, NEW k \in Channel, NEW n \in replylist[k]
  PROVE  n \in Number /\ <<k, n>> \in Call /\ n <= nextreply[k]
<1>1. n \in 1 .. nextreply[k] /\ nextreply[k] \in 0 .. MaxCalls[k]
  BY DEF TypeInv, Numbered
<1>2. n \in 1 .. MaxCalls[k]
  BY <1>1, SystemAssumption
<1> QED
  BY <1>1, <1>2, CallIntro

(* Every step of a channel keeps TypeInv.                                  *)
LEMMA TypeChannelStep ==
  ASSUME TypeInv, NEW k \in Channel,
         \/ OpenChannel(k) \/ ZSendMethod(k) \/ ZRecvMethod(k)
         \/ CloseChannel(k)
  PROVE  TypeInv'
<1>1. CASE OpenChannel(k)
  BY <1>1 DEF OpenChannel, TypeInv, TypeOK, Numbered, routerVars, netVars
<1>2. CASE ZSendMethod(k)
  <2> DEFINE n == nextreply[k] + 1
  <2>1. n \in 1 .. MaxCalls[k]
    BY <1>2, SystemAssumption DEF ZSendMethod, TypeInv, Numbered
  <2>2. n \in Number /\ <<k, n>> \in Call
    BY <2>1, CallIntro
  <2>3. /\ nextreply' = [nextreply EXCEPT ![k] = n]
        /\ replylist' = [replylist EXCEPT ![k] = @ \cup {n}]
        /\ up' = up \cup {<<k, n>>}
        /\ chan[k] = "open"
    BY <1>2 DEF ZSendMethod
  <2>4. n = nextreply[k] + 1
    OBVIOUS
  <2> HIDE DEF n
  <2>5. Numbered'
    BY <1>2, <2>1, <2>3, <2>4, SystemAssumption
    DEF ZSendMethod, TypeInv, TypeOK, Numbered
  <2>6. TypeOK'
    BY <1>2, <2>2, <2>3 DEF ZSendMethod, TypeInv, TypeOK, routerVars
  <2> QED
    BY <2>5, <2>6 DEF TypeInv
<1>3. CASE ZRecvMethod(k)
  <2>1. PICK r \in down[k] :
          /\ down' = [down EXCEPT ![k] = @ \ {r}]
          /\ IF TakesIn(k, r)
             THEN /\ result' = [result EXCEPT ![<<k, r.id>>] = r.data]
                  /\ replylist' = [replylist EXCEPT ![k] = @ \ {r.id}]
                  /\ UNCHANGED ended
             ELSE /\ ended' = ended \cup {r.data}
                  /\ UNCHANGED <<result, replylist>>
    BY <1>3 DEF ZRecvMethod
  <2>2. r.data \in Call
    BY <2>1 DEF TypeInv, TypeOK, Reply
  <2>3. result' \in [Call -> Call \cup {Nobody}]
    BY <2>1, <2>2 DEF TypeInv, TypeOK
  <2>4. /\ down' \in [Channel -> SUBSET Reply]
        /\ replylist' \in [Channel -> SUBSET Number]
        /\ ended' \subseteq Call
    BY <2>1, <2>2 DEF TypeInv, TypeOK
  <2>5. Numbered'
    BY <1>3, <2>1 DEF ZRecvMethod, TypeInv, TypeOK, Numbered
  <2>6. TypeOK'
    BY <1>3, <2>3, <2>4 DEF ZRecvMethod, TypeInv, TypeOK, routerVars
  <2> QED
    BY <2>5, <2>6 DEF TypeInv
<1>4. CASE CloseChannel(k)
  <2>1. {<<k, n>> : n \in replylist[k]} \subseteq Call
    BY Listed
  <2>2. Numbered'
    BY <1>4 DEF CloseChannel, TypeInv, TypeOK, Numbered
  <2>3. TypeOK'
    BY <1>4, <2>1 DEF CloseChannel, TypeInv, TypeOK, routerVars
  <2> QED
    BY <2>2, <2>3 DEF TypeInv
<1> QED
  BY <1>1, <1>2, <1>3, <1>4

(* The frames of requests and replies are of their types.                  *)
LEMMA Frames ==
  /\ \A c \in Call :
       [identity |-> Identity(c[1]), id |-> c[2], data |-> c] \in Request
  /\ \A m \in Request, code \in Code :
       /\ ReplyTo(m, code) \in Reply
       /\ ReplyTo(m, code).identity = m.identity
       /\ ReplyTo(m, code).id = m.id
       /\ ReplyTo(m, code).data = m.data
       /\ ReplyTo(m, code).code = code
BY CallElim, SystemAssumption DEF Request, Reply, ReplyTo, Identity

(* Every other step keeps TypeInv: those of the ROUTER, ...                *)
LEMMA TypeRouterStep ==
  ASSUME TypeInv,
         \/ \E k \in Channel : Attach(k) \/ Detach(k) \/ ConnectionBreaks(k)
         \/ ForwardsRequest \/ ForwardsReply \/ ServerRestarts
  PROVE  TypeInv'
<1>n. ASSUME UNCHANGED <<nextreply, replylist, chan>>
      PROVE  Numbered'
  BY <1>n DEF TypeInv, Numbered
<1>1. ASSUME NEW k \in Channel, Attach(k) \/ Detach(k)
      PROVE  TypeInv'
  BY <1>1, <1>n, SystemAssumption
  DEF Attach, Detach, TypeInv, TypeOK, chanVars, netVars, Identity
<1>2. ASSUME NEW k \in Channel, ConnectionBreaks(k)
      PROVE  TypeInv'
  BY <1>2, <1>n, SystemAssumption
  DEF ConnectionBreaks, TypeInv, TypeOK, chanVars, Identity
<1>3. ASSUME NEW c \in up, ForwardRequest(c)
      PROVE  TypeInv'
  <2>1. c \in Call
    BY DEF TypeInv, TypeOK
  <2>2. work' \subseteq Request
    BY <1>3, <2>1, Frames DEF ForwardRequest, TypeInv, TypeOK
  <2> QED
    BY <1>3, <1>n, <2>2
    DEF ForwardRequest, TypeInv, TypeOK, chanVars, routerVars
<1>4. ASSUME NEW r \in back, ForwardReply(r)
      PROVE  TypeInv'
  <2>1. r \in Reply /\ r.data \in Call
    BY DEF TypeInv, TypeOK, Reply
  <2>2. down' \in [Channel -> SUBSET Reply] /\ ended' \subseteq Call
    BY <1>4, <2>1 DEF ForwardReply, TypeInv, TypeOK
  <2> QED
    BY <1>4, <1>n, <2>2
    DEF ForwardReply, TypeInv, TypeOK, chanVars, routerVars
<1>5. CASE ServerRestarts
  <2>1. /\ {m.data : m \in work \cup back} \subseteq Call
        /\ {job[w].data : w \in {v \in Worker : job[v] # Nobody}} \subseteq Call
    BY DEF TypeInv, TypeOK, Request, Reply
  <2> QED
    BY <1>5, <1>n, <2>1 DEF ServerRestarts, TypeInv, TypeOK, chanVars
<1> QED
  BY <1>1, <1>2, <1>3, <1>4, <1>5 DEF ForwardsRequest, ForwardsReply

(* ... and those of the workers.                                           *)
LEMMA TypeWorkerStep ==
  ASSUME TypeInv, NEW w \in Worker, WorkerStep(w)
  PROVE  TypeInv'
<1>n. ASSUME UNCHANGED <<nextreply, replylist, chan>>
      PROVE  Numbered'
  BY <1>n DEF TypeInv, Numbered
<1>1. CASE WorkerTakes(w)
  BY <1>1, <1>n DEF WorkerTakes, TypeInv, TypeOK, chanVars, routerVars
<1>2. CASE WorkerAbandons(w)
  <2>1. job[w].data \in Call
    BY <1>2, JobType DEF TypeInv, WorkerAbandons
  <2>2. executed' \in [Call -> Nat]
    BY <1>2, <2>1 DEF WorkerAbandons, TypeInv, TypeOK
  <2> QED
    BY <1>2, <1>n, <2>1, <2>2
    DEF WorkerAbandons, TypeInv, TypeOK, chanVars, routerVars, netVars
<1>3. CASE WorkerAnswers(w) \/ WorkerRejects(w)
  <2>1. job[w] \in Request /\ job[w].data \in Call
    BY <1>3, JobType DEF TypeInv, WorkerAnswers, WorkerRejects
  <2>2. back' \subseteq Reply
    BY <1>3, <2>1, Frames
    DEF WorkerAnswers, WorkerRejects, TypeInv, TypeOK, Code
  <2>3. executed' \in [Call -> Nat]
    BY <1>3, <2>1 DEF WorkerAnswers, WorkerRejects, TypeInv, TypeOK
  <2> QED
    BY <1>3, <1>n, <2>2, <2>3
    DEF WorkerAnswers, WorkerRejects, TypeInv, TypeOK, chanVars, routerVars
<1> QED
  BY <1>1, <1>2, <1>3 DEF WorkerStep

LEMMA TypeStep == TypeInv /\ [Next]_vars => TypeInv'
<1> SUFFICES ASSUME TypeInv, [Next]_vars
             PROVE  TypeInv'
  OBVIOUS
<1>1. CASE UNCHANGED vars
  BY <1>1
  DEF vars, chanVars, routerVars, netVars, TypeInv, TypeOK, Numbered
<1> QED
  BY <1>1, TypeChannelStep, TypeRouterStep, TypeWorkerStep DEF Next

(* The system's state keeps its type, for every instance: the frames that  *)
(* arrive are of requests that were made, and no channel counts beyond its *)
(* last request.                                                           *)
THEOREM TypeCorrect == Spec => [](TypeOK /\ Numbered)
BY TypeInit, TypeStep, PTL DEF Spec, TypeInv


-----------------------------------------------------------------------------
(* Whose result a controller gets.                                         *)

(* The condition: of the channels with one identity only one has messages  *)
(* on their way.                                                           *)
Exclusive ==
  Reuse = "quiet" \/ \A j, k \in Channel : Identity(j) = Identity(k) => j = k

Gone(k) == chan[k] = "closed" /\ Quiet(k)

Alone ==
  \A j, k \in Channel :
    j # k /\ Identity(j) = Identity(k) =>
      chan[j] = "new" \/ chan[k] = "new" \/ Gone(j) \/ Gone(k)

(* What the frames of a message say belongs to the same request, and its   *)
(* channel still waits for the reply to it.                                *)
Envelope(m)    == m.identity = Identity(m.data[1]) /\ m.id = m.data[2]
Outstanding(c) == c[2] \in replylist[c[1]]
AtHand(w)      == w \in Worker /\ job[w] # Nobody

Enveloped ==
  /\ \A c \in up : Outstanding(c)
  /\ \A m \in work \cup back : Envelope(m) /\ Outstanding(m.data)
  /\ \A w \in Worker :
       AtHand(w) => Envelope(job[w]) /\ Outstanding(job[w].data)
  /\ \A k \in Channel : \A r \in down[k] : Envelope(r) /\ Outstanding(r.data)

(* The ROUTER and the replies have the right address.                      *)
Addressed ==
  /\ \A t \in Thread : route[t] # Nobody => Identity(route[t]) = t
  /\ \A k \in Channel : \A r \in down[k] :
       r.identity = Identity(k) /\ chan[k] = "open"

(* A request, and later its reply, is in one place only.                   *)
InOnePlace ==
  /\ \A c \in up :
       /\ \A m \in work \cup back : m.data # c
       /\ \A w \in Worker : AtHand(w) => job[w].data # c
       /\ \A k \in Channel : \A r \in down[k] : r.data # c
  /\ \A m \in work :
       /\ \A r \in back : r.data # m.data
       /\ \A w \in Worker : AtHand(w) => job[w].data # m.data
       /\ \A k \in Channel : \A r \in down[k] : r.data # m.data
  /\ \A w \in Worker : AtHand(w) =>
       /\ \A v \in Worker \ {w} : AtHand(v) => job[v].data # job[w].data
       /\ \A r \in back : r.data # job[w].data
       /\ \A k \in Channel : \A r \in down[k] : r.data # job[w].data
  /\ \A r \in back :
       /\ \A q \in back \ {r} : q.data # r.data
       /\ \A k \in Channel : \A q \in down[k] : q.data # r.data
  /\ \A j, k \in Channel : \A r \in down[j], q \in down[k] :
       r.data = q.data => j = k /\ r = q

(* A call is executed only on its way through a worker.                    *)
ExecutedOnce ==
  /\ \A c \in Call : executed[c] \in {0, 1}
  /\ \A c \in Call : c[2] > nextreply[c[1]] => executed[c] = 0
  /\ \A c \in up : executed[c] = 0
  /\ \A m \in work : executed[m.data] = 0
  /\ \A w \in Worker : AtHand(w) => executed[job[w].data] = 0
  /\ \A r \in back : r.code = ZEC_SUCCESS => executed[r.data] = 1
  /\ \A k \in Channel : \A r \in down[k] :
       r.code = ZEC_SUCCESS => executed[r.data] = 1

(* A result is there once the call has been executed, and its number is    *)
(* off the list.                                                           *)
ResultsRight ==
  /\ OwnResult
  /\ \A c \in Call : result[c] = c => executed[c] = 1 /\ c[2] <= nextreply[c[1]]
  /\ \A k \in Channel : \A n \in replylist[k] : result[<<k, n>>] = Nobody

IInv ==
  /\ TypeInv /\ Alone /\ Enveloped /\ Addressed /\ InOnePlace
  /\ ExecutedOnce /\ ResultsRight

LEMMA InvInit == Init => IInv
<1> SUFFICES ASSUME Init
             PROVE  IInv
  OBVIOUS
<1>1. TypeInv
  BY TypeInit
<1>2. Alone /\ Enveloped /\ Addressed /\ InOnePlace
  BY DEF Init, Alone, Enveloped, Addressed, InOnePlace, AtHand
<1>3. ExecutedOnce /\ ResultsRight
  <2>1. \A c \in Call : c # Nobody
    BY NobodyAssumption
  <2> QED
    BY <2>1 DEF Init, ExecutedOnce, ResultsRight, OwnResult, AtHand
<1> QED
  BY <1>1, <1>2, <1>3 DEF IInv

(* A reply at a channel's socket is the reply to that channel's own        *)
(* request: the other channels with its identity have none on their way.   *)
LEMMA OwnReply ==
  ASSUME IInv, NEW k \in Channel, NEW r \in down[k]
  PROVE  /\ r.data \in Call
         /\ r.data = <<k, r.id>>
         /\ r.id \in replylist[k]
<1>1. r \in Reply /\ r.data \in Call
  BY DEF IInv, TypeInv, TypeOK, Reply
<1> DEFINE j == r.data[1]
<1>2. j \in Channel /\ r.data = <<j, r.data[2]>>
  BY <1>1, CallElim
<1>3. Identity(j) = Identity(k) /\ r.id = r.data[2]
  BY DEF IInv, Enveloped, Envelope, Addressed
<1>4. r.id \in replylist[j]
  BY <1>3 DEF IInv, Enveloped, Outstanding
<1>5. chan[j] # "new" /\ ~Gone(j)
  <2>1. nextreply[j] # 0
    BY <1>2, <1>4 DEF IInv, TypeInv, Numbered
  <2>2. OnItsWay(r.data)
    BY DEF OnItsWay
  <2> QED
    BY <1>1, <1>2, <2>1, <2>2 DEF IInv, TypeInv, Numbered, Gone, Quiet
<1>6. chan[k] # "new" /\ ~Gone(k)
  BY DEF IInv, Addressed, Gone
<1>7. j = k
  BY <1>2, <1>3, <1>5, <1>6 DEF IInv, Alone
<1> QED
  BY <1>1, <1>2, <1>3, <1>4, <1>7

-----------------------------------------------------------------------------
(* The steps, one by one.                                                  *)

(* A channel that is gone stays gone: nothing puts a message of a closed   *)
(* channel on its way.                                                     *)
LEMMA AloneStays ==
  ASSUME IInv,
         \A j \in Channel : chan[j] # "open" => chan'[j] = chan[j],
         \A c \in Call : chan[c[1]] = "closed" /\ OnItsWay(c)' => OnItsWay(c)
  PROVE  Alone'
<1>1. ASSUME NEW j \in Channel, Gone(j)
      PROVE  Gone(j)'
  BY <1>1 DEF Gone, Quiet
<1> QED
  BY <1>1 DEF IInv, Alone

(* What only the channels' variables and the history decide stays as it    *)
(* is when they do.                                                        *)
LEMMA ChannelsUnchanged ==
  ASSUME IInv, UNCHANGED chanVars
  PROVE  /\ \A c \in Call : Outstanding(c)' <=> Outstanding(c)
         /\ (\A c \in Call : OnItsWay(c)' => OnItsWay(c)) => Alone'
         /\ UNCHANGED executed => ResultsRight'
<1>1. (\A c \in Call : OnItsWay(c)' => OnItsWay(c)) => Alone'
  BY AloneStays DEF chanVars
<1> QED
  BY <1>1 DEF IInv, chanVars, Outstanding, ResultsRight, OwnResult

LEMMA InvOpenChannel ==
  ASSUME Exclusive, IInv, NEW k \in Channel, OpenChannel(k), TypeInv'
  PROVE  IInv'
<1>1. Alone'
  <2>1. /\ chan' = [chan EXCEPT ![k] = "open"] /\ chan \in [Channel -> {"new", "open", "closed"}]
        /\ chan[k] = "new"
    BY DEF OpenChannel, IInv, TypeInv, TypeOK
  <2>2. \A j \in Channel : Quiet(j)' <=> Quiet(j)
    BY DEF OpenChannel, netVars, Quiet, OnItsWay
  <2>3. \A j \in Channel : j # k => (Gone(j)' <=> Gone(j))
    BY <2>1, <2>2 DEF Gone
  <2>4. \A j \in Channel \ {k} : Identity(j) = Identity(k) /\ chan[j] # "new" => Gone(j)
    BY DEF OpenChannel, Exclusive, Identity, Gone
  <2> QED
    BY <2>1, <2>3, <2>4 DEF IInv, Alone
<1>2. Enveloped' /\ InOnePlace'
  BY DEF OpenChannel, IInv, Enveloped, InOnePlace, netVars, Envelope,
         Outstanding, AtHand
<1>3. Addressed'
  BY DEF OpenChannel, IInv, TypeInv, TypeOK, Addressed, netVars, routerVars
<1>4. ExecutedOnce' /\ ResultsRight'
  BY DEF OpenChannel, IInv, ExecutedOnce, ResultsRight, OwnResult, AtHand,
         netVars
<1> QED
  BY <1>1, <1>2, <1>3, <1>4 DEF IInv

LEMMA InvZSendMethod ==
  ASSUME IInv, NEW k \in Channel, ZSendMethod(k), TypeInv'
  PROVE  IInv'
<1> DEFINE n == nextreply[k] + 1
           c == <<k, n>>
<1>1. /\ chan[k] = "open" /\ n <= MaxCalls[k]
      /\ nextreply' = [nextreply EXCEPT ![k] = n]
      /\ replylist' = [replylist EXCEPT ![k] = @ \cup {n}]
      /\ up' = up \cup {c}
      /\ UNCHANGED <<chan, result, routerVars, work, back, down, job, executed,
                     ended>>
  BY SystemAssumption DEF ZSendMethod, IInv, TypeInv, Numbered
<1>2. n \in 1 .. MaxCalls[k] /\ n > nextreply[k] /\ n \notin replylist[k]
  BY <1>1, SystemAssumption DEF IInv, TypeInv, Numbered
<1>3. c \in Call /\ c[1] = k /\ c[2] = n /\ ~Outstanding(c)
  BY <1>2, CallIntro DEF Outstanding
<1> HIDE DEF n, c
<1>4. \A d \in Call : Outstanding(d)' <=> Outstanding(d) \/ d = c
  BY <1>1, <1>3, CallElim DEF Outstanding, IInv, TypeInv, TypeOK
<1>5. Alone'
  <2>1. \A d \in Call : OnItsWay(d)' => OnItsWay(d) \/ d = c
    BY <1>1 DEF OnItsWay
  <2> QED
    BY <1>1, <1>3, <2>1, AloneStays
<1>6. Enveloped'
  BY <1>1, <1>3, <1>4
  DEF IInv, TypeInv, TypeOK, Enveloped, Request, Reply, AtHand, Envelope
<1>7. Addressed'
  BY <1>1 DEF IInv, Addressed, routerVars
<1>8. InOnePlace'
  BY <1>1, <1>3 DEF IInv, Enveloped, InOnePlace, AtHand
<1>9. ExecutedOnce'
  BY <1>1, <1>2, <1>3, CallElim
  DEF IInv, TypeInv, TypeOK, Numbered, ExecutedOnce, AtHand
<1>10. ResultsRight'
  <2>1. result[c] = Nobody
    BY <1>2, <1>3, NobodyAssumption
    DEF IInv, TypeInv, Numbered, ResultsRight, OwnResult
  <2> QED
    BY <1>1, <1>2, <1>3, <2>1, CallElim
    DEF IInv, TypeInv, TypeOK, Numbered, ResultsRight, OwnResult, c
<1> QED
  BY <1>5, <1>6, <1>7, <1>8, <1>9, <1>10 DEF IInv

(* The channel takes in its own reply: its call was executed, and the      *)
(* reply is nowhere else any more.                                         *)
LEMMA InvZRecvMethod ==
  ASSUME IInv, NEW k \in Channel, ZRecvMethod(k), TypeInv'
  PROVE  IInv'
<1>1. PICK r \in down[k] :
        /\ down' = [down EXCEPT ![k] = @ \ {r}]
        /\ IF TakesIn(k, r)
           THEN /\ result' = [result EXCEPT ![<<k, r.id>>] = r.data]
                /\ replylist' = [replylist EXCEPT ![k] = @ \ {r.id}]
                /\ UNCHANGED ended
           ELSE /\ ended' = ended \cup {r.data}
                /\ UNCHANGED <<result, replylist>>
  BY DEF ZRecvMethod
<1>2. /\ chan[k] = "open"
      /\ UNCHANGED <<chan, nextreply, routerVars, up, work, back, job, executed>>
  BY DEF ZRecvMethod
<1>3. r.data \in Call /\ r.data = <<k, r.id>> /\ r.id \in replylist[k]
  BY OwnReply
<1>4. \A d \in Call : Outstanding(d) /\ d # r.data => Outstanding(d)'
  BY <1>1, <1>3, CallElim DEF Outstanding, IInv, TypeInv, TypeOK
<1>5. Alone'
  <2>1. \A j \in Channel : down'[j] \subseteq down[j]
    BY <1>1 DEF IInv, TypeInv, TypeOK
  <2>2. \A d \in Call : OnItsWay(d)' => OnItsWay(d)
    BY <1>2, <2>1 DEF OnItsWay
  <2> QED
    BY <1>2, <2>2, AloneStays
<1>6. Enveloped'
  <2>1. \A c \in up : c \in Call /\ c # r.data
    BY <1>1 DEF IInv, TypeInv, TypeOK, InOnePlace
  <2>2. \A m \in work \cup back : m.data \in Call /\ m.data # r.data
    BY <1>1 DEF IInv, TypeInv, TypeOK, InOnePlace, Request, Reply
  <2>3. \A w \in Worker : AtHand(w) => job[w].data \in Call /\ job[w].data # r.data
    BY <1>1, JobType DEF IInv, TypeInv, InOnePlace, AtHand
  <2>4. \A j \in Channel : \A q \in down'[j] :
          q \in down[j] /\ q.data \in Call /\ q.data # r.data
    BY <1>1 DEF IInv, TypeInv, TypeOK, InOnePlace, Reply
  <2> QED
    BY <1>2, <1>4, <2>1, <2>2, <2>3, <2>4 DEF IInv, Enveloped, Envelope, AtHand
<1>7. \A j \in Channel : down'[j] \subseteq down[j]
  BY <1>1 DEF IInv, TypeInv, TypeOK
<1>8. Addressed' /\ InOnePlace'
  BY <1>2, <1>7 DEF IInv, Addressed, InOnePlace, AtHand, routerVars
<1>9. ExecutedOnce'
  BY <1>2, <1>7 DEF IInv, ExecutedOnce, AtHand
<1>10. ResultsRight'
  <2>1. CASE ~TakesIn(k, r)
    BY <1>1, <1>2, <2>1 DEF IInv, ResultsRight, OwnResult
  <2>2. CASE TakesIn(k, r)
    <3>1. executed[r.data] = 1 /\ r.id <= nextreply[k]
      BY <1>1, <1>3, <2>2
      DEF TakesIn, IInv, TypeInv, Numbered, ExecutedOnce
    <3>2. result' = [result EXCEPT ![r.data] = r.data]
      BY <1>1, <1>3, <2>2
    <3>3. \A j \in Channel : \A n \in replylist'[j] :
            n \in replylist[j] /\ <<j, n>> # <<k, r.id>>
      BY <1>1, <2>2 DEF IInv, TypeInv, TypeOK
    <3>4. \A j \in Channel : \A n \in replylist'[j] :
            /\ <<j, n>> \in Call /\ <<j, n>> # r.data
            /\ result[<<j, n>>] = Nobody
      BY <1>3, <3>3, Listed DEF IInv, ResultsRight
    <3>5. \A c \in Call : result'[c] = IF c = r.data THEN c ELSE result[c]
      BY <1>3, <3>2 DEF IInv, TypeInv, TypeOK
    <3>6. OwnResult'
      BY <3>5 DEF IInv, ResultsRight, OwnResult
    <3>7. r.data[1] = k /\ r.data[2] = r.id
      BY <1>3
    <3>8. \A c \in Call :
            result'[c] = c => executed'[c] = 1 /\ c[2] <= nextreply'[c[1]]
      BY <1>2, <3>1, <3>5, <3>7 DEF IInv, ResultsRight
    <3> QED
      BY <3>4, <3>5, <3>6, <3>8 DEF ResultsRight
  <2> QED
    BY <2>1, <2>2
<1> QED
  BY <1>5, <1>6, <1>8, <1>9, <1>10 DEF IInv

LEMMA InvCloseChannel ==
  ASSUME IInv, NEW k \in Channel, CloseChannel(k), TypeInv'
  PROVE  IInv'
<1>1. \A j \in Channel : down'[j] \subseteq down[j] /\ (j = k => down'[j] = {})
  BY DEF CloseChannel, IInv, TypeInv, TypeOK
<1>2. Alone'
  <2>1. \A d \in Call : OnItsWay(d)' => OnItsWay(d)
    BY <1>1 DEF CloseChannel, OnItsWay
  <2>2. \A j \in Channel : chan[j] # "open" => chan'[j] = chan[j]
    BY DEF CloseChannel, IInv, TypeInv, TypeOK
  <2> QED
    BY <2>1, <2>2, AloneStays
<1>3. Enveloped' /\ InOnePlace'
  BY <1>1 DEF CloseChannel, IInv, Enveloped, InOnePlace, Envelope, Outstanding,
              AtHand
<1>4. Addressed'
  BY <1>1 DEF CloseChannel, IInv, TypeInv, TypeOK, Addressed, routerVars
<1>5. ExecutedOnce' /\ ResultsRight'
  BY <1>1 DEF CloseChannel, IInv, ExecutedOnce, ResultsRight, OwnResult, AtHand
<1> QED
  BY <1>2, <1>3, <1>4, <1>5 DEF IInv

(* Connections come and go without a change to what is on its way, except  *)
(* that some of it is lost.                                                *)
LEMMA InvRoutes ==
  ASSUME IInv, NEW k \in Channel,
         Attach(k) \/ Detach(k) \/ ConnectionBreaks(k), TypeInv'
  PROVE  IInv'
<1>1. /\ up' \subseteq up
      /\ UNCHANGED <<chanVars, work, back, down, job, executed>>
  BY DEF Attach, Detach, ConnectionBreaks, netVars
<1>2. Alone' /\ ResultsRight'
  <2>1. \A d \in Call : OnItsWay(d)' => OnItsWay(d)
    BY <1>1 DEF OnItsWay
  <2> QED
    BY <1>1, <2>1, ChannelsUnchanged
<1>3. Enveloped' /\ InOnePlace' /\ ExecutedOnce'
  BY <1>1 DEF IInv, Enveloped, InOnePlace, ExecutedOnce, Envelope, Outstanding,
              AtHand, chanVars
<1>4. \A t \in Thread : \/ route'[t] = route[t]
                        \/ route'[t] = Nobody
                        \/ route'[t] = k /\ t = Identity(k)
  BY DEF Attach, Detach, ConnectionBreaks, IInv, TypeInv, TypeOK
<1>5. Addressed'
  BY <1>1, <1>4 DEF IInv, Addressed, chanVars
<1> QED
  BY <1>2, <1>3, <1>5 DEF IInv

LEMMA InvForwardRequest ==
  ASSUME IInv, NEW c \in up, ForwardRequest(c), TypeInv'
  PROVE  IInv'
<1> DEFINE m == [identity |-> Identity(c[1]), id |-> c[2], data |-> c]
<1>1. /\ up' = up \ {c} /\ work' = work \cup {m}
      /\ UNCHANGED <<chanVars, routerVars, back, down, job, executed, ended>>
  BY DEF ForwardRequest
<1>2. Envelope(m) /\ m.data = c
  BY DEF Envelope
<1> HIDE DEF m
<1>3. Alone' /\ ResultsRight'
  <2>1. \A d \in Call : OnItsWay(d)' => OnItsWay(d)
    BY <1>1, <1>2 DEF OnItsWay
  <2> QED
    BY <1>1, <2>1, ChannelsUnchanged
<1>4. Enveloped'
  BY <1>1, <1>2 DEF IInv, Enveloped, Envelope, Outstanding, AtHand, chanVars
<1>5. InOnePlace' /\ ExecutedOnce'
  BY <1>1, <1>2 DEF IInv, InOnePlace, ExecutedOnce, AtHand, chanVars
<1>6. Addressed'
  BY <1>1 DEF IInv, Addressed, chanVars, routerVars
<1> QED
  BY <1>3, <1>4, <1>5, <1>6 DEF IInv

LEMMA InvForwardReply ==
  ASSUME IInv, NEW r \in back, ForwardReply(r), TypeInv'
  PROVE  IInv'
<1> DEFINE k == route[r.identity]
<1>1. /\ back' = back \ {r}
      /\ UNCHANGED <<chanVars, routerVars, up, work, job, executed>>
  BY DEF ForwardReply
<1>2. r.identity \in Thread
  BY DEF IInv, TypeInv, TypeOK, Reply
<1>3. CASE k # Nobody /\ chan[k] = "open"
  <2>1. down' = [down EXCEPT ![k] = @ \cup {r}] /\ k \in Channel
    BY <1>2, <1>3 DEF ForwardReply, IInv, TypeInv, TypeOK
  <2>2. Identity(k) = r.identity
    BY <1>2, <1>3 DEF IInv, Addressed
  <2> HIDE DEF k
  <2>3. \A j \in Channel : \A q \in down'[j] : q \in down[j] \/ (j = k /\ q = r)
    BY <2>1 DEF IInv, TypeInv, TypeOK
  <2>4. Alone' /\ ResultsRight'
    <3>1. \A d \in Call : OnItsWay(d)' => OnItsWay(d)
      BY <1>1, <2>3 DEF OnItsWay
    <3> QED
      BY <1>1, <3>1, ChannelsUnchanged
  <2>5. Enveloped'
    BY <1>1, <2>3 DEF IInv, Enveloped, Envelope, Outstanding, AtHand, chanVars
  <2>6. InOnePlace'
    BY <1>1, <2>3 DEF IInv, InOnePlace, AtHand
  <2>7. ExecutedOnce'
    BY <1>1, <2>3 DEF IInv, ExecutedOnce, AtHand, chanVars
  <2>8. Addressed'
    BY <1>1, <1>3, <2>2, <2>3 DEF IInv, Addressed, chanVars, routerVars, k
  <2> QED
    BY <2>4, <2>5, <2>6, <2>7, <2>8 DEF IInv
<1>4. CASE ~(k # Nobody /\ chan[k] = "open")
  <2>1. down' = down
    BY <1>4 DEF ForwardReply
  <2>2. Alone' /\ ResultsRight'
    <3>1. \A d \in Call : OnItsWay(d)' => OnItsWay(d)
      BY <1>1, <2>1 DEF OnItsWay
    <3> QED
      BY <1>1, <3>1, ChannelsUnchanged
  <2>3. Enveloped' /\ InOnePlace' /\ ExecutedOnce' /\ Addressed'
    BY <1>1, <2>1 DEF IInv, Enveloped, InOnePlace, ExecutedOnce, Addressed,
       Envelope, Outstanding, AtHand, chanVars, routerVars
  <2> QED
    BY <2>2, <2>3 DEF IInv
<1> QED
  BY <1>3, <1>4

LEMMA InvWorkerTakes ==
  ASSUME IInv, NEW w \in Worker, WorkerTakes(w), TypeInv'
  PROVE  IInv'
<1>1. PICK m \in work : job' = [job EXCEPT ![w] = m] /\ work' = work \ {m}
  BY DEF WorkerTakes
<1>2. /\ job[w] = Nobody
      /\ UNCHANGED <<chanVars, routerVars, up, back, down, executed, ended>>
  BY DEF WorkerTakes
<1>3. \A v \in Worker : \/ job'[v] = job[v] /\ v # w
                        \/ job'[v] = m /\ v = w
  BY <1>1 DEF IInv, TypeInv, TypeOK
<1>4. Alone' /\ ResultsRight'
  <2>1. \A d \in Call : OnItsWay(d)' => OnItsWay(d)
    BY <1>1, <1>2, <1>3 DEF OnItsWay
  <2> QED
    BY <1>2, <2>1, ChannelsUnchanged
<1>5. Enveloped'
  BY <1>1, <1>2, <1>3
  DEF IInv, Enveloped, Envelope, Outstanding, AtHand, chanVars
<1>6. InOnePlace'
  <2>1. \A q \in work \ {m} : q.data # m.data
    BY DEF IInv, TypeInv, TypeOK, Enveloped, Envelope, Request
  <2> QED
    BY <1>1, <1>2, <1>3, <2>1 DEF IInv, InOnePlace, AtHand
<1>7. ExecutedOnce' /\ Addressed'
  BY <1>1, <1>2, <1>3
  DEF IInv, ExecutedOnce, Addressed, AtHand, chanVars, routerVars
<1> QED
  BY <1>4, <1>5, <1>6, <1>7 DEF IInv

(* The worker's reply takes the request's place.                           *)
LEMMA InvWorkerReplies ==
  ASSUME IInv, NEW w \in Worker, WorkerAnswers(w) \/ WorkerRejects(w), TypeInv'
  PROVE  IInv'
<1> DEFINE m == job[w]
<1>1. AtHand(w) /\ m \in Request /\ m.data \in Call
  BY JobType DEF WorkerAnswers, WorkerRejects, AtHand, IInv, TypeInv
<1>2. PICK code \in Code :
        /\ back' = back \cup {ReplyTo(m, code)}
        /\ \/ executed' = [executed EXCEPT ![m.data] = @ + 1]
           \/ executed' = executed /\ code # ZEC_SUCCESS
  BY DEF WorkerAnswers, WorkerRejects, Code, ZEC_SUCCESS, ZEC_NOSUCHMETHOD
<1>3. /\ job' = [job EXCEPT ![w] = Nobody]
      /\ UNCHANGED <<chanVars, routerVars, up, work, down, ended>>
  BY DEF WorkerAnswers, WorkerRejects
<1>4. PICK r \in Reply : /\ r = ReplyTo(m, code)
                         /\ r.identity = m.identity /\ r.id = m.id
                         /\ r.data = m.data /\ r.code = code
  BY <1>1, Frames
<1>5. back' = back \cup {r}
  BY <1>2, <1>4
<1>6. executed[m.data] = 0 /\ Envelope(m) /\ Outstanding(m.data)
  BY <1>1 DEF IInv, ExecutedOnce, Enveloped
<1>7. \A v \in Worker : AtHand(v)' => v # w /\ AtHand(v) /\ job'[v] = job[v]
  BY <1>3 DEF IInv, TypeInv, TypeOK, AtHand
<1>8. /\ \A c \in Call : c # m.data => executed'[c] = executed[c]
      /\ executed'[m.data] \in {0, 1}
      /\ code = ZEC_SUCCESS => executed'[m.data] = 1
      /\ \A c \in Call : executed[c] = 1 => executed'[c] = 1
  BY <1>1, <1>2, <1>6 DEF IInv, TypeInv, TypeOK
<1> HIDE DEF m
<1>9. Enveloped'
  BY <1>3, <1>4, <1>5, <1>6, <1>7
  DEF IInv, Enveloped, Envelope, Outstanding, chanVars
<1>10. InOnePlace'
  BY <1>1, <1>3, <1>4, <1>5, <1>7 DEF IInv, InOnePlace, m
<1>11. ExecutedOnce'
  <2>1. \A c \in up : c \in Call /\ c # m.data
    BY <1>1 DEF IInv, TypeInv, TypeOK, InOnePlace, m
  <2>2. \A q \in work : q.data \in Call /\ q.data # m.data
    BY <1>1 DEF IInv, TypeInv, TypeOK, InOnePlace, Request, m
  <2>3. \A v \in Worker : AtHand(v)' => job[v].data \in Call /\ job[v].data # m.data
    BY <1>1, <1>7, JobType DEF IInv, TypeInv, InOnePlace, AtHand, m
  <2>4. \A q \in back : q.data \in Call /\ q.data # m.data
    BY <1>1 DEF IInv, TypeInv, TypeOK, InOnePlace, Reply, m
  <2>5. \A k \in Channel : \A q \in down[k] : q.data \in Call /\ q.data # m.data
    BY <1>1 DEF IInv, TypeInv, TypeOK, InOnePlace, Reply, m
  <2>6. m.data[2] <= nextreply[m.data[1]]
    BY <1>1, <1>6, CallElim DEF IInv, TypeInv, Numbered, Outstanding
  <2>7. m.data[1] \in Channel /\ nextreply[m.data[1]] \in Nat /\ m.data[2] \in Nat
    BY <1>1, CallElim, SystemAssumption DEF IInv, TypeInv, Numbered
  <2>8. \A c \in Call : c[2] > nextreply'[c[1]] => executed'[c] = 0
    BY <1>3, <1>8, <2>6, <2>7 DEF IInv, ExecutedOnce, chanVars
  <2> QED
    BY <1>1, <1>3, <1>4, <1>5, <1>7, <1>8, <2>1, <2>2, <2>3, <2>4, <2>5, <2>8
    DEF IInv, ExecutedOnce
<1>12. ResultsRight'
  BY <1>3, <1>8 DEF IInv, ResultsRight, OwnResult, chanVars
<1>13. Alone' /\ Addressed'
  <2>1. \A d \in Call : OnItsWay(d)' => OnItsWay(d)
    BY <1>1, <1>3, <1>4, <1>5, <1>7 DEF OnItsWay, AtHand, m
  <2> QED
    BY <1>3, <2>1, ChannelsUnchanged DEF IInv, Addressed, chanVars, routerVars
<1> QED
  BY <1>9, <1>10, <1>11, <1>12, <1>13 DEF IInv

(* Without a reply the request is nowhere any more.                        *)
LEMMA InvWorkerAbandons ==
  ASSUME IInv, NEW w \in Worker, WorkerAbandons(w), TypeInv'
  PROVE  IInv'
<1>1. PICK c \in Call : /\ c = job[w].data /\ AtHand(w)
                        /\ executed' = [executed EXCEPT ![c] = @ + 1]
  BY JobType DEF WorkerAbandons, AtHand, IInv, TypeInv
<1>2. /\ job' = [job EXCEPT ![w] = Nobody]
      /\ UNCHANGED <<chanVars, routerVars, netVars>>
  BY DEF WorkerAbandons
<1>3. \A v \in Worker : AtHand(v)' => v # w /\ AtHand(v) /\ job'[v] = job[v]
  BY <1>2 DEF IInv, TypeInv, TypeOK, AtHand
<1>4. executed[c] = 0 /\ Outstanding(c)
  BY <1>1 DEF IInv, ExecutedOnce, Enveloped
<1>5. \A d \in Call : executed'[d] = IF d = c THEN 1 ELSE executed[d]
  BY <1>1, <1>4 DEF IInv, TypeInv, TypeOK
<1>6. Enveloped' /\ InOnePlace' /\ Addressed'
  BY <1>2, <1>3 DEF IInv, Enveloped, InOnePlace, Addressed, Envelope, Outstanding,
                    chanVars, routerVars, netVars
<1>7. ExecutedOnce'
  <2>1. \A d \in up : d \in Call /\ d # c
    BY <1>1 DEF IInv, TypeInv, TypeOK, InOnePlace
  <2>2. \A q \in work \cup back : q.data \in Call /\ q.data # c
    BY <1>1 DEF IInv, TypeInv, TypeOK, InOnePlace, Request, Reply
  <2>3. \A v \in Worker : AtHand(v)' => job[v].data \in Call /\ job[v].data # c
    BY <1>1, <1>3, JobType DEF IInv, TypeInv, InOnePlace, AtHand
  <2>4. \A k \in Channel : \A q \in down[k] : q.data \in Call /\ q.data # c
    BY <1>1 DEF IInv, TypeInv, TypeOK, InOnePlace, Reply
  <2>5. c[1] \in Channel /\ c[2] \in Nat /\ nextreply[c[1]] \in Nat /\ c[2] <= nextreply[c[1]]
    BY <1>4, CallElim, SystemAssumption DEF IInv, TypeInv, Numbered, Outstanding
  <2>6. \A d \in Call : d[2] > nextreply'[d[1]] => executed'[d] = 0
    BY <1>2, <1>5, <2>5 DEF IInv, ExecutedOnce, chanVars
  <2> QED
    BY <1>2, <1>3, <1>5, <2>1, <2>2, <2>3, <2>4, <2>6
    DEF IInv, ExecutedOnce, chanVars, netVars
<1>8. ResultsRight'
  BY <1>2, <1>5 DEF IInv, ResultsRight, OwnResult, chanVars
<1>9. Alone'
  <2>1. \A d \in Call : OnItsWay(d)' => OnItsWay(d)
    BY <1>2, <1>3 DEF OnItsWay, AtHand, netVars
  <2> QED
    BY <1>2, <2>1, ChannelsUnchanged
<1> QED
  BY <1>6, <1>7, <1>8, <1>9 DEF IInv

LEMMA InvServerRestarts ==
  ASSUME IInv, ServerRestarts, TypeInv'
  PROVE  IInv'
<1>1. Alone' /\ ResultsRight'
  <2>1. \A d \in Call : OnItsWay(d)' => OnItsWay(d)
    BY DEF ServerRestarts, OnItsWay
  <2> QED
    BY <2>1, ChannelsUnchanged DEF ServerRestarts
<1>2. \A w \in Worker : ~AtHand(w)'
  BY DEF ServerRestarts, AtHand
<1>3. Enveloped' /\ InOnePlace'
  BY <1>2 DEF ServerRestarts, IInv, Enveloped, InOnePlace, Envelope,
              Outstanding, chanVars
<1>4. ExecutedOnce' /\ Addressed'
  BY <1>2 DEF ServerRestarts, IInv, ExecutedOnce, Addressed, chanVars
<1> QED
  BY <1>1, <1>3, <1>4 DEF IInv

(* Every step keeps the invariant.                                         *)
LEMMA InvStep == Exclusive /\ IInv /\ [Next]_vars => IInv'
<1> SUFFICES ASSUME Exclusive, IInv, [Next]_vars
             PROVE  IInv'
  OBVIOUS
<1>1. TypeInv'
  BY TypeStep DEF IInv
<1>2. CASE UNCHANGED vars
  <2>1. Alone' /\ ResultsRight'
    <3>1. \A d \in Call : OnItsWay(d)' => OnItsWay(d)
      BY <1>2 DEF vars, netVars, OnItsWay
    <3> QED
      BY <1>2, <3>1, ChannelsUnchanged DEF vars
  <2> QED
    BY <1>1, <1>2, <2>1
    DEF vars, chanVars, routerVars, netVars, IInv, Enveloped, Addressed,
        InOnePlace, ExecutedOnce, Envelope, Outstanding, AtHand
<1>3. ASSUME NEW k \in Channel,
             \/ OpenChannel(k) \/ ZSendMethod(k) \/ ZRecvMethod(k)
             \/ CloseChannel(k) \/ Attach(k) \/ Detach(k)
             \/ ConnectionBreaks(k)
      PROVE  IInv'
  BY <1>1, <1>3, InvOpenChannel, InvZSendMethod, InvZRecvMethod,
     InvCloseChannel, InvRoutes
<1>4. ASSUME NEW w \in Worker, WorkerStep(w)
      PROVE  IInv'
  BY <1>1, <1>4, InvWorkerTakes, InvWorkerReplies, InvWorkerAbandons DEF WorkerStep
<1>5. CASE ForwardsRequest \/ ForwardsReply \/ ServerRestarts
  BY <1>1, <1>5, InvForwardRequest, InvForwardReply, InvServerRestarts
  DEF ForwardsRequest, ForwardsReply
<1> QED
  BY <1>2, <1>3, <1>4, <1>5 DEF Next

(* A controller gets the result of its own call, whatever connections and  *)
(* servers go through meanwhile, provided that the channels of a thread    *)
(* are its only one each, or that nothing an earlier one sent is on its    *)
(* way any more when the next is created: its requests answered, with a    *)
(* result or an error, or lost.  (ZRecvMethod looks only at the number.)   *)
THEOREM OwnResults ==
  ASSUME Exclusive
  PROVE  Spec => []OwnResult
<1>1. Init => IInv
  BY InvInit
<1>2. IInv /\ [Next]_vars => IInv'
  BY InvStep
<1>3. IInv => OwnResult
  BY DEF IInv, ResultsRight
<1> QED
  BY <1>1, <1>2, <1>3, PTL DEF Spec

(* What RpcChannel assumes of its peer holds in the whole system: a reply  *)
(* with a number on the list is the only answer to that request, and the   *)
(* request is nowhere else.                                                *)
THEOREM PeerAssured ==
  ASSUME Exclusive
  PROVE  Spec => []PeerAssumption
<1>1. Init => IInv
  BY InvInit
<1>2. IInv /\ [Next]_vars => IInv'
  BY InvStep
<1>3. ASSUME IInv, NEW k \in Channel, NEW r \in down[k]
      PROVE  /\ r.data = <<k, r.id>>
             /\ \A q \in down[k] \ {r} : q.id # r.id
             /\ r.data \notin up
             /\ \A m \in work \cup back : m.data # r.data
  <2>1. \A q \in down[k] : q.data = <<k, q.id>>
    BY <1>3, OwnReply
  <2>2. \A q \in down[k] \ {r} : q.data # r.data
    BY <1>3 DEF IInv, InOnePlace
  <2>3. r.data \notin up /\ \A m \in work \cup back : m.data # r.data
    BY <1>3 DEF IInv, InOnePlace
  <2> QED
    BY <2>1, <2>2, <2>3
<1>4. IInv => PeerAssumption
  BY <1>3 DEF PeerAssumption
<1> QED
  BY <1>1, <1>2, <1>4, PTL DEF Spec

-----------------------------------------------------------------------------
(* The system implements RpcCall.                                          *)

Phase(c) == IF result[c] = c THEN "answered"
            ELSE IF nextreply[c[1]] >= c[2] THEN "called"
            ELSE "none"

(* A call that is outstanding has been made and not been answered.         *)
LEMMA OutstandingCalled ==
  ASSUME IInv, NEW c \in Call, Outstanding(c)
  PROVE  Phase(c) = "called"
<1>1. c[1] \in Channel /\ c = <<c[1], c[2]>> /\ c[2] \in replylist[c[1]]
  BY CallElim DEF Outstanding
<1>2. result[c] = Nobody /\ c # Nobody
  BY <1>1, NobodyAssumption DEF IInv, ResultsRight
<1>3. nextreply[c[1]] >= c[2]
  <2>1. nextreply[c[1]] \in Int /\ c[2] \in 1 .. nextreply[c[1]]
    BY <1>1, SystemAssumption DEF IInv, TypeInv, Numbered
  <2> QED
    BY <2>1
<1> QED
  BY <1>2, <1>3 DEF Phase

LEMMA RefinesSend ==
  ASSUME IInv, NEW k \in Channel, ZSendMethod(k)
  PROVE  \E c \in Call : Calls!MakeCall(c)
<1>0. /\ nextreply[k] + 1 \in 1 .. MaxCalls[k] /\ nextreply[k] \in Nat
      /\ nextreply' = [nextreply EXCEPT ![k] = nextreply[k] + 1]
      /\ UNCHANGED <<result, executed>>
  BY SystemAssumption DEF ZSendMethod, IInv, TypeInv, Numbered
<1>1. PICK n \in Nat : /\ n \in 1 .. MaxCalls[k] /\ n = nextreply[k] + 1
                       /\ nextreply' = [nextreply EXCEPT ![k] = n]
  <2>1. nextreply[k] + 1 \in Nat
    BY <1>0
  <2> QED
    BY <1>0, <2>1
<1>2. PICK c \in Call : c[1] = k /\ c[2] = n
  BY <1>1, CallIntro
<1>3. result[c] # c
  <2>1. ~(c[2] <= nextreply[c[1]])
    BY <1>0, <1>1, <1>2
  <2> QED
    BY <2>1 DEF IInv, ResultsRight
<1>4. Phase(c) = "none" /\ Phase(c)' = "called"
  <2>1. nextreply'[k] = n /\ ~(nextreply[k] >= n)
    BY <1>0, <1>1 DEF IInv, TypeInv, TypeOK
  <2> QED
    BY <1>0, <1>1, <1>2, <1>3, <2>1 DEF Phase
<1>5. \A d \in Call : d # c => Phase(d)' = Phase(d)
  <2> SUFFICES ASSUME NEW d \in Call, d # c
               PROVE  nextreply'[d[1]] >= d[2] <=> nextreply[d[1]] >= d[2]
    BY <1>0 DEF Phase
  <2>1. CASE d[1] # k
    BY <1>1, <2>1, CallElim DEF IInv, TypeInv, TypeOK
  <2>2. CASE d[1] = k
    <3>1. d[2] # n /\ d[2] \in Nat
      BY <1>2, <2>2, CallElim, NumberPositive
    <3> QED
      BY <1>0, <1>1, <2>2, <3>1 DEF IInv, TypeInv, TypeOK
  <2> QED
    BY <2>1, <2>2
<1> QED
  BY <1>0, <1>2, <1>4, <1>5 DEF Calls!MakeCall, Phase

LEMMA RefinesReceive ==
  ASSUME IInv, NEW k \in Channel, ZRecvMethod(k)
  PROVE  \/ \E c \in Call : Calls!GetResult(c)
         \/ UNCHANGED <<result, nextreply, executed>>
<1>1. PICK r \in down[k] :
        IF TakesIn(k, r)
        THEN result' = [result EXCEPT ![<<k, r.id>>] = r.data]
        ELSE UNCHANGED result
  BY DEF ZRecvMethod
<1>2. UNCHANGED <<nextreply, executed>>
  BY DEF ZRecvMethod
<1>3. r.data \in Call /\ r.data = <<k, r.id>> /\ r.id \in replylist[k]
  BY OwnReply
<1>4. CASE TakesIn(k, r)
  <2>1. result' = [result EXCEPT ![r.data] = r.data]
    BY <1>1, <1>3, <1>4
  <2>2. executed[r.data] = 1 /\ Phase(r.data) = "called"
    BY <1>3, <1>4, OutstandingCalled
    DEF TakesIn, IInv, ExecutedOnce, Enveloped
  <2>3. Phase(r.data)' = "answered"
    BY <1>3, <2>1 DEF Phase, IInv, TypeInv, TypeOK
  <2>4. \A d \in Call : d # r.data => Phase(d)' = Phase(d)
    BY <1>2, <2>1 DEF Phase, IInv, TypeInv, TypeOK
  <2> QED
    BY <1>2, <1>3, <2>2, <2>3, <2>4 DEF Calls!GetResult, Phase
<1> QED
  BY <1>1, <1>2, <1>4

LEMMA RefinesAnswer ==
  ASSUME IInv, NEW w \in Worker,
         WorkerAnswers(w) \/ WorkerRejects(w) \/ WorkerAbandons(w)
  PROVE  \/ \E c \in Call : Calls!Execute(c)
         \/ UNCHANGED <<result, nextreply, executed>>
<1> DEFINE c == job[w].data
<1>1. AtHand(w) /\ c \in Call
  BY JobType DEF WorkerAnswers, WorkerRejects, WorkerAbandons, AtHand, IInv, TypeInv
<1>2. executed[c] = 0 /\ Phase(c) = "called"
  BY <1>1, OutstandingCalled DEF IInv, ExecutedOnce, Enveloped
<1>3. /\ executed' \in {executed, [executed EXCEPT ![c] = 1]}
      /\ UNCHANGED chanVars
  BY <1>1, <1>2 DEF WorkerAnswers, WorkerRejects, WorkerAbandons, IInv, TypeInv, TypeOK
<1> HIDE DEF c
<1> QED
  BY <1>1, <1>2, <1>3 DEF Calls!Execute, Phase, chanVars

(* A call is executed at most once and its controller gets at most one     *)
(* result, its own and only after the execution: all steps of channels,    *)
(* ROUTER and workers are steps of RpcCall or leave its state alone.       *)
THEOREM Implements ==
  ASSUME Exclusive
  PROVE  Spec => CallsRefined
<1>1. Init => IInv
  BY InvInit
<1>2. IInv /\ [Next]_vars => IInv'
  BY InvStep
<1>3. Init => Calls!Init
  <2> SUFFICES ASSUME Init
               PROVE  Calls!Init
    OBVIOUS
  <2>1. \A c \in Call : c # Nobody
    BY NobodyAssumption
  <2>2. \A c \in Call : c[1] \in Channel /\ c[2] \in Nat \ {0}
    BY CallElim, NumberPositive
  <2> QED
    BY <2>1, <2>2 DEF Init, Calls!Init
<1>4. ASSUME IInv, [Next]_vars
      PROVE  \/ Calls!Next
             \/ UNCHANGED <<result, nextreply, executed>>
  <2>1. ASSUME NEW k \in Channel, ZSendMethod(k) \/ ZRecvMethod(k)
        PROVE  \/ Calls!Next
               \/ UNCHANGED <<result, nextreply, executed>>
    BY <1>4, <2>1, RefinesSend, RefinesReceive DEF Calls!Next
  <2>2. ASSUME NEW w \in Worker,
               WorkerAnswers(w) \/ WorkerRejects(w) \/ WorkerAbandons(w)
        PROVE  \/ Calls!Next
               \/ UNCHANGED <<result, nextreply, executed>>
    BY <1>4, <2>2, RefinesAnswer DEF Calls!Next
  <2>3. ASSUME NEW k \in Channel,
               \/ OpenChannel(k) \/ CloseChannel(k) \/ Attach(k) \/ Detach(k)
               \/ ConnectionBreaks(k)
        PROVE  UNCHANGED <<result, nextreply, executed>>
    BY <2>3 DEF OpenChannel, CloseChannel, Attach, Detach, ConnectionBreaks,
       chanVars
  <2>4. ASSUME NEW w \in Worker, WorkerTakes(w)
        PROVE  UNCHANGED <<result, nextreply, executed>>
    BY <2>4 DEF WorkerTakes, chanVars
  <2>5. CASE ForwardsRequest \/ ForwardsReply \/ ServerRestarts
             \/ UNCHANGED vars
    BY <2>5 DEF ForwardsRequest, ForwardsReply, ForwardRequest, ForwardReply,
       ServerRestarts, vars, chanVars
  <2> QED
    BY <1>4, <2>1, <2>2, <2>3, <2>4, <2>5 DEF Next, WorkerStep
<1>5. IInv /\ [Next]_vars =>
        [Calls!Next]_<<[c \in Call |-> IF result[c] = c THEN "answered"
                          ELSE IF nextreply[c[1]] >= c[2] THEN "called"
                          ELSE "none"], executed>>
  BY <1>4
<1> QED
  BY <1>1, <1>2, <1>3, <1>5, PTL DEF Spec, CallsRefined, Calls!Spec

=============================================================================
