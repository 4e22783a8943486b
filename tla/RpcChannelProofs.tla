-------------------------- MODULE RpcChannelProofs --------------------------
(***************************************************************************)
(* Proofs about RpcChannel, for every number of controllers and requests,  *)
(* every timeout, clock and peer.                                          *)
(***************************************************************************)
EXTENDS RpcChannel, SequenceTheorems, TLAPS

-----------------------------------------------------------------------------
(* Facts about the data.                                                   *)

(* A reply list is a function from some requests to controllers.           *)
LEMMA ReplyListIntro ==
  ASSUME NEW S \in SUBSET Request, NEW r \in [S -> Controller]
  PROVE  r \in ReplyListT
BY DEF ReplyListT

(* What a reply list is made of.                                           *)
LEMMA ReplyListElim ==
  ASSUME NEW r \in ReplyListT
  PROVE  /\ DOMAIN r \subseteq Request
         /\ \A i \in DOMAIN r : r[i] \in Controller
         /\ r \in [DOMAIN r -> Controller]
<1>1. PICK S \in SUBSET Request : r \in [S -> Controller]
  BY DEF ReplyListT
<1>2. DOMAIN r = S
  BY <1>1
<1> QED
  BY <1>1, <1>2

(* Inserting an entry (Bind) and erasing one keep the type.                *)
LEMMA BindErase ==
  ASSUME replylist \in ReplyListT
  PROVE  /\ \A i \in Request, c \in Controller :
              /\ Bind(i, c) \in ReplyListT
              /\ DOMAIN Bind(i, c) = DOMAIN replylist \cup {i}
              /\ \A j \in DOMAIN replylist \cup {i} :
                   Bind(i, c)[j] = IF j = i THEN c ELSE replylist[j]
         /\ \A i : /\ Erase(i) \in ReplyListT
                   /\ DOMAIN Erase(i) = DOMAIN replylist \ {i}
                   /\ \A j \in DOMAIN replylist \ {i} :
                        Erase(i)[j] = replylist[j]
<1>0. /\ DOMAIN replylist \subseteq Request
      /\ \A i \in DOMAIN replylist : replylist[i] \in Controller
  BY ReplyListElim
<1>1. ASSUME NEW i \in Request, NEW c \in Controller
      PROVE  /\ Bind(i, c) \in ReplyListT
             /\ DOMAIN Bind(i, c) = DOMAIN replylist \cup {i}
             /\ \A j \in DOMAIN replylist \cup {i} :
                  Bind(i, c)[j] = IF j = i THEN c ELSE replylist[j]
  <2>1. DOMAIN replylist \cup {i} \in SUBSET Request
    BY <1>0
  <2>2. Bind(i, c) \in [DOMAIN replylist \cup {i} -> Controller]
    BY <1>0 DEF Bind
  <2> QED
    BY <2>1, <2>2, ReplyListIntro DEF Bind
<1>2. ASSUME NEW i
      PROVE  /\ Erase(i) \in ReplyListT
             /\ DOMAIN Erase(i) = DOMAIN replylist \ {i}
             /\ \A j \in DOMAIN replylist \ {i} : Erase(i)[j] = replylist[j]
  <2>1. DOMAIN replylist \ {i} \in SUBSET Request
    BY <1>0
  <2>2. Erase(i) \in [DOMAIN replylist \ {i} -> Controller]
    BY <1>0 DEF Erase
  <2> QED
    BY <2>1, <2>2, ReplyListIntro DEF Erase
<1> QED
  BY <1>1, <1>2

(* Taking the first frame and appending one.                               *)
LEMMA Queue ==
  ASSUME inq \in Seq(Frames)
  PROVE  /\ inq # <<>> => /\ Head(inq) \in Frames
                          /\ Tail(inq) \in Seq(Frames)
                          /\ Head(inq) = inq[1]
                          /\ \A k \in 1 .. Len(Tail(inq)) :
                               /\ k + 1 \in 1 .. Len(inq)
                               /\ Tail(inq)[k] = inq[k + 1]
         /\ \A f \in Frames :
              /\ Append(inq, f) \in Seq(Frames)
              /\ \A k \in 1 .. Len(Append(inq, f)) :
                   \/ k \in 1 .. Len(inq) /\ Append(inq, f)[k] = inq[k]
                   \/ Append(inq, f)[k] = f
<1>1. ASSUME inq # <<>>
      PROVE  /\ Head(inq) \in Frames
             /\ Tail(inq) \in Seq(Frames)
             /\ Head(inq) = inq[1]
             /\ Len(inq) \in Nat
             /\ Len(Tail(inq)) = Len(inq) - 1
             /\ \A k \in 1 .. Len(Tail(inq)) : Tail(inq)[k] = inq[k + 1]
  BY <1>1, HeadTailProperties, LenProperties
<1>2. ASSUME NEW f \in Frames
      PROVE  /\ Append(inq, f) \in Seq(Frames)
             /\ Len(inq) \in Nat
             /\ Len(Append(inq, f)) = Len(inq) + 1
             /\ \A k \in 1 .. Len(inq) : Append(inq, f)[k] = inq[k]
             /\ Append(inq, f)[Len(inq) + 1] = f
  BY AppendProperties, LenProperties
<1> QED
  BY <1>1, <1>2

(* What a failing receive leaves: the queue, its tail, or a first message  *)
(* that has been cut short.                                                *)
LEMMA FailedQueue ==
  ASSUME inq \in Seq(Frames), inq # <<>>
  PROVE  LET q == [inq EXCEPT ![1] = Remainder] IN
           /\ q \in Seq(Frames)
           /\ Len(q) = Len(inq)
           /\ \A k \in 1 .. Len(inq) : q[k] = inq[k] \/ q[k].size = 3
<1>1. Remainder \in Frames /\ Remainder.size = 3
  BY DEF Remainder, Frames, ErrorCodeE
<1>2. 1 \in 1 .. Len(inq) /\ Len(inq) \in Nat
  BY EmptySeq, LenProperties
<1> QED
  BY <1>1, <1>2, ExceptSeq

-----------------------------------------------------------------------------
(* Type correctness.                                                       *)

(* With the fact that a request being sent has a number TypeOK is          *)
(* inductive.                                                              *)
TypeInv == TypeOK /\ (pc = "send" => nextreply # 0)

(* Every step keeps TypeInv.                                               *)
LEMMA TypeStep == TypeInv /\ [Next]_vars => TypeInv'
<1> SUFFICES ASSUME TypeInv, [Next]_vars
             PROVE  TypeInv'
  OBVIOUS
<1> USE ChannelAssumption
<1>q. /\ inq # <<>> => Head(inq) \in Frames /\ Tail(inq) \in Seq(Frames)
      /\ \A f \in Frames : Append(inq, f) \in Seq(Frames)
  BY Queue DEF TypeInv, TypeOK
<1>1. ASSUME NEW c \in Controller, NewController(c)
      PROVE  TypeInv'
  BY <1>1 DEF TypeInv, TypeOK, NewController, netVars, callVars, RespCodeE, ErrorCodeE,
              ZEC_SUCCESS
<1>2. ASSUME NEW c \in Controller, DestroyController(c)
      PROVE  TypeInv'
  BY <1>2 DEF TypeInv, TypeOK, DestroyController, netVars, callVars
<1>3. ASSUME NEW c \in Controller, SerializeFails(c)
      PROVE  TypeInv'
  BY <1>3 DEF TypeInv, TypeOK, SerializeFails, SetError, netVars, callVars, RespCodeE,
              ErrorCodeE, ZEC_INVALIDHEADER, ZEC_CLIENTERROR
<1>4. ASSUME NEW c \in Controller, ZSendMethod(c)
      PROVE  TypeInv'
  BY <1>4 DEF TypeInv, TypeOK, ZSendMethod, conVars, netVars, Request
<1>5. ASSUME NEW c \in Controller, NEW t \in Timeout, ZRecvMethod(c, t)
      PROVE  TypeInv'
  <2>1. EffectiveTimeout(t) \in Nat \ {0} /\ 0 \in MinElapsed .. MaxElapsed
    BY DEF EffectiveTimeout
  <2> QED
    BY <1>5, <2>1 DEF TypeInv, TypeOK, ZRecvMethod, conVars, netVars, RecvLoop
<1>6. CASE SendAccepted
  <2>1. nextreply \in Request
    BY <1>6 DEF TypeInv, TypeOK, SendAccepted
  <2> QED
    BY <1>6, <2>1, BindErase DEF TypeInv, TypeOK, SendAccepted, RespCodeE
<1>7. CASE SendFails
  <2>1. nextreply \in Request
    BY <1>7 DEF TypeInv, TypeOK, SendFails
  <2>2. PICK code \in ErrorCodeE : SetError(con, code)
    BY <1>7 DEF SendFails, ErrorCodeE, ZEC_CONNECTIONERROR, ZEC_CLIENTERROR
  <2>3. wire' \subseteq Request
    BY <1>7, <2>1 DEF SendFails, TypeInv, TypeOK
  <2> QED
    BY <1>7, <2>2, <2>3 DEF TypeInv, TypeOK, SendFails, SetError, RespCodeE
<1>8. CASE PollThrows
  BY <1>8 DEF TypeInv, TypeOK, PollThrows, conVars, netVars
<1>9. CASE Close
  BY <1>9 DEF TypeInv, TypeOK, Close, conVars, callVars
<1>10. CASE LoopEnds \/ PollExpires \/ RecvThrows \/ RecvReturns
  BY <1>10 DEF TypeInv, TypeOK, LoopEnds, PollExpires, RecvThrows, RecvReturns, conVars,
               netVars, RecvLoop
<1>11. CASE LoopPolls
  BY <1>11 DEF TypeInv, TypeOK, LoopPolls, Expired, conVars, netVars, RecvLoop
<1>12. CASE LoopDrains \/ PollReadable \/ RecvRetries
  BY <1>12 DEF TypeInv, TypeOK, LoopDrains, PollReadable, RecvRetries, conVars, netVars,
               RecvLoop
<1>13. CASE RecvIgnores \/ RecvRejects
  BY <1>13, <1>q DEF TypeInv, TypeOK, RecvIgnores, RecvRejects, conVars, RecvLoop
<1>14. CASE RecvDelivers
  <2> DEFINE f == Head(inq)
  <2>1. f \in Frames /\ f.id \in DOMAIN replylist
    BY <1>14, <1>q DEF RecvDelivers, Ignored, Throws
  <2>2. Othercon(f.id) \in Controller /\ f.data \in {0} \cup Request
    BY <2>1, ReplyListElim DEF Othercon, TypeInv, TypeOK, Frames
  <2>3. Erase(f.id) \in ReplyListT
    BY BindErase DEF TypeInv, TypeOK
  <2>4. payload' \in [Controller -> {0} \cup Request]
    BY <1>14, <2>2 DEF RecvDelivers, TypeInv, TypeOK
  <2>5. rcode' \in [Controller -> RespCodeE]
    BY <1>14, <2>2 DEF RecvDelivers, TypeInv, TypeOK, RespCodeE
  <2> QED
    BY <1>14, <1>q, <2>3, <2>4, <2>5 DEF RecvDelivers, TypeInv, TypeOK, RecvLoop
<1>15. ASSUME NEW i \in wire, NEW code \in PeerCode, PeerReplies(i, code)
       PROVE  TypeInv'
  <2>1. [size |-> 4, id |-> i, code |-> code, data |-> i] \in Frames
    BY DEF TypeInv, TypeOK, Frames
  <2> QED
    BY <1>15, <1>q, <2>1 DEF TypeInv, TypeOK, PeerReplies, conVars, callVars
<1>16. ASSUME NEW i \in wire, PeerLoses(i)
       PROVE  TypeInv'
  BY <1>16 DEF TypeInv, TypeOK, PeerLoses, conVars, callVars
<1>17. CASE ForeignArrives
  <2>1. ForeignFrames \subseteq Frames
    BY DEF TypeInv, TypeOK, ForeignFrames, Frames, ErrorCodeE, Request
  <2> QED
    BY <1>17, <1>q, <2>1 DEF TypeInv, TypeOK, ForeignArrives, conVars, callVars
<1>18. CASE Tick
  BY <1>18 DEF TypeInv, TypeOK, Tick, Clamp, conVars, netVars
<1>19. CASE RecvFails
  <2>1. inq' \in Seq(Frames)
    BY <1>19, <1>q, FailedQueue DEF RecvFails, TypeInv, TypeOK
  <2> QED
    BY <1>19, <2>1 DEF RecvFails, TypeInv, TypeOK, conVars
<1>20. CASE UNCHANGED vars
  BY <1>20 DEF TypeInv, TypeOK, vars, conVars, netVars, callVars
<1> QED
  BY <1>1, <1>2, <1>3, <1>4, <1>5, <1>6, <1>7, <1>8, <1>9, <1>10, <1>11, <1>12,
     <1>13, <1>14, <1>15, <1>16, <1>17, <1>18, <1>19, <1>20
  DEF Next, Application, RecvStep, Network

(* Init satisfies it.                                                      *)
LEMMA TypeInit == Init => TypeInv
<1> SUFFICES ASSUME Init
             PROVE  TypeInv
  OBVIOUS
<1> USE ChannelAssumption
<1>1. replylist \in ReplyListT
  <2>1. [i \in {} |-> 0] \in [{} -> Controller] /\ {} \in SUBSET Request
    OBVIOUS
  <2> QED
    BY <2>1, ReplyListIntro DEF Init
<1>2. inq \in Seq(Frames)
  BY DEF Init
<1>3. /\ rcode \in [Controller -> RespCodeE]
      /\ zerror \in [Controller -> ErrorCodeE]
      /\ payload \in [Controller -> {0} \cup Request]
      /\ issued \in [Controller -> {0} \cup Request]
  BY DEF Init, RespCodeE, ErrorCodeE, ZEC_SUCCESS
<1>4. /\ nextreply \in {0} \cup Request
      /\ timeout \in Nat \ {0} /\ pollLeft \in Nat
      /\ elapsed \in MinElapsed .. MaxElapsed
  BY DEF Init
<1>5. /\ alive \subseteq Controller /\ wire \subseteq Request
      /\ socket \in {"open", "closed"} /\ con \in Controller
      /\ pc \in {"idle", "send"} \cup RecvLoop /\ pc # "send"
      /\ toget \in BOOLEAN
  BY DEF Init
<1> QED
  BY <1>1, <1>2, <1>3, <1>4, <1>5 DEF TypeInv, TypeOK

(* Type correctness: whatever the application and the peer do, timeouts    *)
(* stay positive, what is left for Poll never gets negative, and the reply *)
(* list maps request numbers to controllers.                               *)
THEOREM TypeCorrect == Spec => []TypeOK
<1>1. TypeInv => TypeOK
  BY DEF TypeInv
<1> QED
  BY <1>1, TypeInit, TypeStep, PTL DEF Spec

-----------------------------------------------------------------------------
(* Replies and results, for an application that leaves WORKING controllers *)
(* alone.                                                                  *)

(* Every entry is the last request of its controller, which is alive and   *)
(* WORKING.                                                                *)
Entries ==
  \A i \in DOMAIN replylist :
    /\ i <= nextreply
    /\ replylist[i] \in alive
    /\ rcode[replylist[i]] = "WORKING"
    /\ issued[replylist[i]] = i

(* Every WORKING controller has an entry: its last request.                *)
Working ==
  \A c \in alive : rcode[c] = "WORKING" =>
    issued[c] \in DOMAIN replylist /\ replylist[issued[c]] = c

(* Only numbers that were given out are on the way.                        *)
Numbers ==
  /\ \A i \in wire : i <= nextreply
  /\ \A k \in 1 .. Len(inq) :
       inq[k].size = 4 => inq[k].id <= nextreply \/ inq[k].id = Rogue

(* A waiting frame that will be accepted carries its request's answer.     *)
Answers ==
  \A k \in 1 .. Len(inq) :
    inq[k].size = 4 /\ inq[k].id \in DOMAIN replylist =>
      inq[k].data = inq[k].id

(* The number of a request that is being sent is nowhere in use yet.       *)
Sending ==
  pc = "send" =>
    /\ con \in alive /\ rcode[con] # "WORKING"
    /\ nextreply \notin DOMAIN replylist /\ nextreply \notin wire
    /\ \A k \in 1 .. Len(inq) : inq[k].size = 4 => inq[k].id # nextreply

ChannelInv ==
  TypeInv /\ Entries /\ Working /\ Numbers /\ Answers /\ Sending /\ FreshReply

RestInv == Entries /\ Working /\ Numbers /\ Answers /\ Sending /\ FreshReply

(* A step that only moves the thread keeps the invariant, unless the move  *)
(* is into Send.                                                           *)
LEMMA QuietStep ==
  ASSUME ChannelInv, UNCHANGED <<conVars, nextreply, replylist, netVars>>,
         pc' = "send" => pc = "send" /\ con' = con
  PROVE  RestInv'
BY DEF ChannelInv, RestInv, Entries, Working, Numbers, Answers, Sending,
       FreshReply, conVars, netVars, Rogue

(* A frame that is taken off the queue, with everything else but the place *)
(* of the thread unchanged.                                                *)
LEMMA SkipStep ==
  ASSUME ChannelInv, UNCHANGED <<conVars, nextreply, replylist, socket, wire>>,
         inq # <<>>, inq' = Tail(inq), pc' # "send"
  PROVE  RestInv'
<1>1. /\ Len(inq') \in Nat
      /\ \A k \in 1 .. Len(inq') : k + 1 \in 1 .. Len(inq) /\ inq'[k] = inq[k + 1]
  BY Queue, LenProperties DEF ChannelInv, TypeInv, TypeOK
<1>2. Numbers' /\ Answers'
  BY <1>1 DEF ChannelInv, Numbers, Answers, Rogue
<1> QED
  BY <1>2 DEF ChannelInv, RestInv, Entries, Working, Sending, FreshReply, conVars

(* A frame that is put on the queue.                                       *)
LEMMA ArriveStep ==
  ASSUME ChannelInv, UNCHANGED <<conVars, nextreply, replylist, callVars>>,
         wire' \subseteq wire, NEW f \in Frames, inq' = Append(inq, f),
         f.size = 4 => /\ f.id <= nextreply \/ f.id = Rogue
                       /\ f.id \in DOMAIN replylist => f.data = f.id
                       /\ pc = "send" => f.id # nextreply
  PROVE  RestInv'
<1>1. \A k \in 1 .. Len(inq') :
        (k \in 1 .. Len(inq) /\ inq'[k] = inq[k]) \/ inq'[k] = f
  BY Queue DEF ChannelInv, TypeInv, TypeOK
<1>2. Numbers' /\ Answers'
  BY <1>1 DEF ChannelInv, Numbers, Answers, Rogue
<1>3. Sending'
  BY <1>1 DEF ChannelInv, Sending, conVars, callVars
<1> QED
  BY <1>2, <1>3 DEF ChannelInv, RestInv, Entries, Working, FreshReply, conVars

(* Every step of the channel, the application and the peer keeps the       *)
(* invariant.                                                              *)
LEMMA ChannelStep ==
  ASSUME ~AbandonPending, ChannelInv, [Next]_vars
  PROVE  ChannelInv'
<1> USE ChannelAssumption
<1>t. TypeInv'
  BY TypeStep DEF ChannelInv
<1> SUFFICES RestInv'
  BY <1>t DEF ChannelInv, RestInv
<1>r. TypeOK /\ replylist \in [DOMAIN replylist -> Controller]
           /\ DOMAIN replylist \subseteq Request
  BY ReplyListElim DEF ChannelInv, TypeInv, TypeOK
<1>1. ASSUME NEW c \in Controller, NewController(c)
      PROVE  RestInv'
  BY <1>1, <1>r DEF NewController, ChannelInv, TypeOK, RestInv, Entries,
       Working, Numbers, Answers, Sending, FreshReply, netVars, callVars, Rogue
<1>2. ASSUME NEW c \in Controller, DestroyController(c)
      PROVE  RestInv'
  BY <1>2, <1>r DEF DestroyController, MayTouch, ChannelInv, TypeOK, RestInv,
       Entries, Working, Numbers, Answers, Sending, FreshReply, netVars,
       callVars, Rogue
<1>3. ASSUME NEW c \in Controller, SerializeFails(c)
      PROVE  RestInv'
  BY <1>3, <1>r DEF SerializeFails, SetError, MayTouch, ChannelInv, TypeOK,
       RestInv, Entries, Working, Numbers, Answers, Sending, FreshReply,
       netVars, callVars, Rogue
<1>4. ASSUME NEW c \in Controller, ZSendMethod(c)
      PROVE  RestInv'
  <2>1. nextreply \in Nat /\ nextreply' = nextreply + 1 /\ nextreply' < Rogue
    BY <1>4, <1>r DEF ZSendMethod, TypeOK, Request, Rogue
  <2>2. \A k \in 1 .. Len(inq) : inq[k].id \in Int
    <3>1. \A k \in 1 .. Len(inq) : inq[k] \in Frames
      BY <1>r, LenProperties DEF TypeOK
    <3> QED
      BY <3>1 DEF Frames, NotANumber, Request, Rogue
  <2>3. Entries' /\ Working' /\ Answers' /\ FreshReply'
    BY <1>4, <1>r, <2>1 DEF ZSendMethod, ChannelInv, Entries, Working, Answers,
         FreshReply, conVars, netVars, Request
  <2>4. Numbers'
    <3>1. \A i \in wire : i <= nextreply'
      BY <1>r, <2>1 DEF ChannelInv, Numbers, TypeOK, Request
    <3>2. \A k \in 1 .. Len(inq) :
            inq[k].size = 4 => inq[k].id <= nextreply' \/ inq[k].id = Rogue
      BY <2>1, <2>2 DEF ChannelInv, Numbers
    <3> QED
      BY <1>4, <3>1, <3>2 DEF ZSendMethod, Numbers, netVars, Rogue
  <2>5. Sending'
    BY <1>4, <1>r, <2>1, <2>2 DEF ZSendMethod, MayTouch, ChannelInv, Sending,
         Numbers, Entries, conVars, netVars, TypeOK, Request
  <2> QED
    BY <2>3, <2>4, <2>5 DEF RestInv
<1>5. ASSUME NEW c \in Controller, NEW t \in Timeout, ZRecvMethod(c, t)
      PROVE  RestInv'
  BY <1>5, QuietStep DEF ZRecvMethod
<1>6. CASE SendAccepted
  <2> DEFINE i == nextreply
  <2>1. i \in Request /\ con \in Controller /\ con \in alive
    BY <1>6 DEF SendAccepted, ChannelInv, TypeInv, TypeOK, Sending
  <2>2. /\ DOMAIN replylist' = DOMAIN replylist \cup {i}
        /\ \A j \in DOMAIN replylist' :
             replylist'[j] = IF j = i THEN con ELSE replylist[j]
    <3>1. replylist' = Bind(i, con)
      BY <1>6 DEF SendAccepted
    <3>2. /\ DOMAIN Bind(i, con) = DOMAIN replylist \cup {i}
          /\ \A j \in DOMAIN replylist \cup {i} :
               Bind(i, con)[j] = IF j = i THEN con ELSE replylist[j]
      BY <1>r, <2>1, BindErase DEF TypeOK
    <3> QED
      BY <3>1, <3>2
  <2>3. \A j \in DOMAIN replylist : replylist[j] # con /\ j # i
    BY <1>6 DEF SendAccepted, ChannelInv, Entries, Sending
  <2>4. Entries'
    BY <1>6, <1>r, <2>1, <2>2, <2>3 DEF SendAccepted, ChannelInv, TypeOK,
         Entries, Request
  <2>5. Working'
    BY <1>6, <1>r, <2>1, <2>2, <2>3 DEF SendAccepted, ChannelInv, TypeOK,
         Working
  <2>6. Answers'
    BY <1>6, <2>2 DEF SendAccepted, ChannelInv, Answers, Sending
  <2>7. Numbers'
    BY <1>6, <2>1 DEF SendAccepted, ChannelInv, Numbers, Request, Rogue
  <2>8. FreshReply' /\ Sending'
    BY <1>6, <1>r, <2>1 DEF SendAccepted, ChannelInv, TypeOK, FreshReply,
         Sending
  <2> QED
    BY <2>4, <2>5, <2>6, <2>7, <2>8 DEF RestInv
<1>7. CASE SendFails
  <2>1. con \in Controller /\ con \in alive /\ rcode[con] # "WORKING"
    BY <1>7, <1>r DEF SendFails, ChannelInv, Sending, TypeOK
  <2>2. /\ rcode' = [rcode EXCEPT ![con] = "ERROR"]
        /\ UNCHANGED <<alive, issued, payload, nextreply, replylist, inq>>
        /\ wire' \subseteq wire \cup {nextreply}
        /\ pc' # "send"
    BY <1>7 DEF SendFails, SetError
  <2>3. Entries' /\ Working' /\ FreshReply'
    BY <1>r, <2>1, <2>2 DEF ChannelInv, TypeOK, Entries, Working, FreshReply
  <2>4. Numbers'
    BY <1>r, <2>2 DEF ChannelInv, Numbers, TypeOK, Request, Rogue
  <2>5. Answers' /\ Sending'
    BY <2>2 DEF ChannelInv, Answers, Sending
  <2> QED
    BY <2>3, <2>4, <2>5 DEF RestInv
<1>8. CASE Close
  <2>1. Len(<<>>) = 0
    OBVIOUS
  <2> QED
    BY <1>8, <2>1 DEF Close, ChannelInv, RestInv, Entries, Working, Numbers,
         Answers, Sending, FreshReply, conVars, callVars, Rogue
<1>9. CASE \/ PollThrows \/ LoopEnds \/ LoopPolls \/ LoopDrains \/ PollReadable
           \/ PollExpires \/ RecvRetries \/ RecvThrows \/ RecvReturns \/ Tick
  BY <1>9, QuietStep DEF PollThrows, LoopEnds, LoopPolls, LoopDrains,
       PollReadable, PollExpires, RecvRetries, RecvThrows, RecvReturns, Tick
<1>10. CASE RecvIgnores \/ RecvRejects
  BY <1>10, SkipStep DEF RecvIgnores, RecvRejects
<1>11. CASE RecvDelivers
  <2> DEFINE f == Head(inq)
             c == replylist[f.id]
  <2>1. /\ f \in Frames /\ f = inq[1] /\ 1 \in 1 .. Len(inq)
        /\ f.size = 4 /\ f.id \in DOMAIN replylist
    BY <1>11, <1>r, Queue, HeadTailProperties, LenProperties
    DEF RecvDelivers, Ignored, Throws, TypeOK
  <2>2. /\ f.data = f.id /\ f.id # 0 /\ c \in Controller
        /\ c \in alive /\ rcode[c] = "WORKING" /\ issued[c] = f.id
    BY <2>1, <1>r DEF ChannelInv, Answers, Entries, Request
  <2>3. /\ DOMAIN replylist' = DOMAIN replylist \ {f.id}
        /\ \A j \in DOMAIN replylist' : replylist'[j] = replylist[j]
    BY <1>11, <1>r, BindErase DEF RecvDelivers, TypeOK
  <2>4. /\ payload' = [payload EXCEPT ![c] = f.data]
        /\ rcode' = [rcode EXCEPT ![c] = "READY"]
        /\ inq' = Tail(inq) /\ inq # <<>> /\ pc' # "send"
        /\ UNCHANGED <<alive, issued, nextreply, wire>>
    BY <1>11 DEF RecvDelivers, Othercon
  <2>5. \A j \in DOMAIN replylist' : replylist[j] # c
    BY <2>2, <2>3 DEF ChannelInv, Entries
  <2>6. Entries' /\ Working'
    BY <1>r, <2>2, <2>3, <2>4, <2>5 DEF ChannelInv, TypeOK, Entries, Working
  <2>7. FreshReply' /\ Sending'
    BY <1>r, <2>2, <2>4 DEF ChannelInv, TypeOK, FreshReply, Sending
  <2>8. \A k \in 1 .. Len(inq') : k + 1 \in 1 .. Len(inq) /\ inq'[k] = inq[k + 1]
    BY <1>r, <2>4, Queue DEF TypeOK
  <2>9. Numbers'
    BY <2>4, <2>8 DEF ChannelInv, Numbers, Rogue
  <2>10. Answers'
    BY <2>3, <2>8 DEF ChannelInv, Answers
  <2> QED
    BY <2>6, <2>7, <2>9, <2>10 DEF RestInv
<1>12. ASSUME NEW i \in wire, NEW code \in PeerCode, PeerReplies(i, code)
       PROVE  RestInv'
  <2> DEFINE f == [size |-> 4, id |-> i, code |-> code, data |-> i]
  <2>1. f \in Frames
    BY <1>r DEF TypeOK, Frames
  <2>2. i <= nextreply /\ (pc = "send" => i # nextreply)
    BY DEF ChannelInv, Numbers, Sending
  <2> QED
    BY <1>12, <2>1, <2>2, ArriveStep DEF PeerReplies
<1>13. ASSUME NEW i \in wire, PeerLoses(i)
       PROVE  RestInv'
  BY <1>13 DEF PeerLoses, ChannelInv, RestInv, Entries, Working, Numbers,
       Answers, Sending, FreshReply, conVars, callVars, Rogue
<1>14. CASE ForeignArrives
  <2>1. PICK f \in ForeignFrames : inq' = Append(inq, f)
    BY <1>14 DEF ForeignArrives
  <2>2. f \in Frames
    BY <1>r DEF TypeOK, ForeignFrames, Frames, ErrorCodeE, Request
  <2>3. nextreply \in Nat /\ nextreply < Rogue
    BY <1>r DEF TypeOK, Request, Rogue
  <2>4. f.size = 4 => /\ f.id <= nextreply \/ f.id = Rogue
                      /\ f.id \in DOMAIN replylist => f.data = f.id
                      /\ pc = "send" => f.id # nextreply
    BY <1>r, <2>3 DEF ForeignFrames, NotANumber, Rogue, Request
  <2> QED
    BY <1>14, <2>1, <2>2, <2>4, ArriveStep DEF ForeignArrives
<1>15. CASE RecvFails
  <2>1. CASE inq' = inq
    BY <1>15, <2>1, QuietStep DEF RecvFails, netVars
  <2>2. CASE inq # <<>> /\ inq' = Tail(inq)
    BY <1>15, <2>2, SkipStep DEF RecvFails
  <2>3. CASE inq # <<>> /\ inq' = [inq EXCEPT ![1] = Remainder]
    <3>1. /\ Len(inq') = Len(inq)
          /\ \A k \in 1 .. Len(inq) : inq'[k] = inq[k] \/ inq'[k].size = 3
      BY <1>r, <2>3, FailedQueue DEF TypeOK
    <3>2. Numbers' /\ Answers'
      BY <1>15, <3>1 DEF RecvFails, ChannelInv, Numbers, Answers, Rogue
    <3> QED
      BY <1>15, <3>2 DEF RecvFails, ChannelInv, RestInv, Entries, Working,
           Sending, FreshReply, conVars
  <2> QED
    BY <1>15, <2>1, <2>2, <2>3 DEF RecvFails
<1>16. CASE UNCHANGED vars
  BY <1>16, QuietStep DEF vars, callVars
<1> QED
  BY <1>1, <1>2, <1>3, <1>4, <1>5, <1>6, <1>7, <1>8, <1>9, <1>10, <1>11,
     <1>12, <1>13, <1>14, <1>15, <1>16
  DEF Next, Application, RecvStep, Network

(* The invariant holds at the start and says what is to be shown.          *)
LEMMA ChannelInit == Init => ChannelInv
<1> SUFFICES ASSUME Init
             PROVE  ChannelInv
  OBVIOUS
<1>1. TypeInv
  BY TypeInit
<1>2. Len(inq) = 0 /\ DOMAIN replylist = {} /\ alive = {} /\ wire = {}
  BY DEF Init
<1>3. pc # "send"
  BY DEF Init
<1> QED
  BY <1>1, <1>2, <1>3 DEF ChannelInv, Entries, Working, Numbers, Answers,
       Sending, FreshReply

(* The invariant implies that the reply list is exact.                     *)
LEMMA ChannelExact == ChannelInv => ReplylistExact
BY DEF ChannelInv, Entries, Working, ReplylistExact, Pending

(* However replies are delayed, lost, reordered, repeated or malformed,    *)
(* whatever calls fail and whatever the clock does: replylist_ lists       *)
(* exactly the outstanding requests of live controllers, and a controller  *)
(* that is ok() holds the reply to its last request.                       *)
THEOREM RepliesRight ==
  ASSUME ~AbandonPending
  PROVE  Spec => [](ReplylistExact /\ FreshReply)
<1>1. ChannelInv /\ [Next]_vars => ChannelInv'
  BY ChannelStep
<1>2. ChannelInv => ReplylistExact /\ FreshReply
  BY ChannelExact DEF ChannelInv
<1> QED
  BY <1>1, <1>2, ChannelInit, PTL DEF Spec

(* A request ends only by its own reply: a controller that stops WORKING   *)
(* does so in the step in which ZRecvMethod takes in the reply to the last *)
(* request sent with it.                                                   *)
THEOREM RequestsEndByReply ==
  ASSUME ~AbandonPending
  PROVE  Spec => CompletedByOwnReply
<1> DEFINE Own == \A c \in alive :
                    rcode[c] = "WORKING" /\ rcode'[c] # "WORKING" =>
                      /\ pc = "recv" /\ inq # <<>>
                      /\ Head(inq).id = issued[c] /\ inq' = Tail(inq)
<1>1. ChannelInv /\ [Next]_vars => ChannelInv'
  BY ChannelStep
<1>2. ChannelInv /\ [Next]_vars => [Own]_vars
  <2> SUFFICES ASSUME ChannelInv, [Next]_vars, NEW c \in alive,
                      rcode[c] = "WORKING", rcode'[c] # "WORKING"
               PROVE  /\ pc = "recv" /\ inq # <<>>
                      /\ Head(inq).id = issued[c] /\ inq' = Tail(inq)
    OBVIOUS
  <2>1. /\ rcode \in [Controller -> RespCodeE] /\ c \in Controller
        /\ alive \subseteq Controller
    BY DEF ChannelInv, TypeInv, TypeOK
  <2>2. CASE RecvDelivers
    <3>1. Head(inq).id \in DOMAIN replylist
      BY <2>2 DEF RecvDelivers, Ignored, Throws
    <3>2. c = replylist[Head(inq).id]
      BY <2>1, <2>2 DEF RecvDelivers, Othercon
    <3> QED
      BY <2>2, <3>1, <3>2 DEF RecvDelivers, ChannelInv, Entries
  <2>3. ASSUME NEW d \in Controller,
               \/ NewController(d) \/ DestroyController(d)
               \/ SerializeFails(d) \/ ZSendMethod(d)
               \/ \E t \in Timeout : ZRecvMethod(d, t)
        PROVE  FALSE
    BY <2>1, <2>3 DEF NewController, DestroyController, SerializeFails, SetError,
         MayTouch, ZSendMethod, ZRecvMethod, conVars
  <2>4. CASE SendAccepted \/ SendFails
    BY <2>1, <2>4 DEF SendAccepted, SendFails, SetError, ChannelInv, Sending
  <2>5. CASE UNCHANGED rcode
    BY <2>5
  <2>6. \/ RecvDelivers \/ SendAccepted \/ SendFails \/ UNCHANGED rcode
        \/ \E d \in Controller :
             \/ NewController(d) \/ DestroyController(d)
             \/ SerializeFails(d) \/ ZSendMethod(d)
             \/ \E t \in Timeout : ZRecvMethod(d, t)
    BY DEF Next, Application, RecvStep, Network, vars, conVars, PollThrows, RecvFails,
         Close, LoopEnds, LoopPolls, LoopDrains, PollReadable, PollExpires,
         RecvRetries, RecvThrows, RecvIgnores, RecvRejects, RecvReturns,
         PeerLoses, PeerReplies, ForeignArrives, Tick
  <2> QED
    BY <2>2, <2>3, <2>4, <2>5, <2>6
<1> QED
  BY <1>1, <1>2, ChannelInit, PTL DEF Spec, CompletedByOwnReply

-----------------------------------------------------------------------------
(* Deadlines, with a steady wall clock.                                    *)

(* In Poll the time passed and the time left make up the timeout.          *)
DeadlineInv ==
  /\ TypeInv
  /\ timeout < MaxElapsed
  /\ pc = "poll" => \/ pollLeft = 0 /\ elapsed >= timeout
                    \/ elapsed + pollLeft = timeout
  /\ NeverEarly

(* Every step keeps DeadlineInv.                                           *)
LEMMA DeadlineStep ==
  ASSUME ClockStep = {1}, DeadlineInv, [Next]_vars
  PROVE  DeadlineInv'
<1> USE ChannelAssumption
<1>t. TypeInv'
  BY TypeStep DEF DeadlineInv
<1>r. /\ timeout \in Nat /\ elapsed \in Int /\ pollLeft \in Nat
      /\ MinElapsed <= elapsed /\ elapsed <= MaxElapsed
  BY DEF DeadlineInv, TypeInv, TypeOK
<1>1. ASSUME NEW c \in Controller, NEW t \in Timeout, ZRecvMethod(c, t)
      PROVE  DeadlineInv'
  BY <1>1, <1>t, ElapsedAssumption
  DEF ZRecvMethod, EffectiveTimeout, DeadlineInv, NeverEarly
<1>2. CASE LoopEnds
  BY <1>2, <1>t, <1>r DEF LoopEnds, HasResult, Expired, DeadlineInv, NeverEarly,
                          conVars
<1>3. CASE LoopPolls
  BY <1>3, <1>t, <1>r DEF LoopPolls, DeadlineInv, NeverEarly
<1>4. CASE PollExpires
  BY <1>4, <1>t, <1>r DEF PollExpires, DeadlineInv, NeverEarly, conVars
<1>5. CASE Tick
  <2>1. elapsed' = Clamp(elapsed + 1)
    BY <1>5 DEF Tick
  <2>2. /\ elapsed < MaxElapsed => elapsed' = elapsed + 1
        /\ elapsed' >= elapsed
    BY <1>r, <2>1 DEF Clamp
  <2>3. /\ pollLeft' = IF pollLeft > 0 THEN pollLeft - 1 ELSE 0
        /\ elapsed' \in Int /\ MaxElapsed \in Int
        /\ UNCHANGED <<pc, con, rcode, timeout>>
    BY <1>5, <1>r, <2>1 DEF Tick, Clamp, conVars
  <2>4. (pc = "poll" => \/ pollLeft = 0 /\ elapsed >= timeout
                        \/ elapsed + pollLeft = timeout)'
    <3> SUFFICES ASSUME pc = "poll"
                 PROVE  \/ pollLeft' = 0 /\ elapsed' >= timeout
                        \/ elapsed' + pollLeft' = timeout
      BY <2>3
    <3>1. CASE pollLeft = 0
      <4>1. elapsed >= timeout
        BY <1>r, <3>1 DEF DeadlineInv
      <4>2. pollLeft' = 0
        BY <2>3, <3>1
      <4>3. elapsed' >= timeout
        BY <1>r, <2>2, <2>3, <4>1
      <4> QED
        BY <4>2, <4>3
    <3>2. CASE pollLeft > 0
      <4>1. elapsed + pollLeft = timeout /\ timeout < MaxElapsed
        BY <1>r, <3>2 DEF DeadlineInv
      <4>2. pollLeft' = pollLeft - 1
        BY <2>3, <3>2
      <4>3. elapsed' = elapsed + 1
        BY <1>r, <2>2, <2>3, <3>2, <4>1
      <4> QED
        BY <1>r, <4>1, <4>2, <4>3
    <3> QED
      BY <1>r, <3>1, <3>2
  <2>5. NeverEarly'
    BY <1>r, <2>2, <2>3 DEF DeadlineInv, NeverEarly
  <2> QED
    BY <1>t, <2>3, <2>4, <2>5 DEF DeadlineInv
<1>6. CASE LoopDrains \/ PollReadable \/ PollThrows \/ RecvRetries \/ RecvThrows
           \/ RecvIgnores \/ RecvRejects \/ RecvDelivers \/ RecvReturns
           \/ SendAccepted \/ SendFails \/ RecvFails
  BY <1>6, <1>t DEF RecvFails, LoopDrains, PollReadable, PollThrows, RecvRetries,
       RecvThrows, RecvIgnores, RecvRejects, RecvDelivers, RecvReturns,
       SendAccepted, SendFails, DeadlineInv, NeverEarly
<1>7. ASSUME NEW c \in Controller,
             \/ NewController(c) \/ DestroyController(c)
             \/ SerializeFails(c) \/ ZSendMethod(c)
      PROVE  DeadlineInv'
  BY <1>7, <1>t DEF NewController, DestroyController, SerializeFails,
       ZSendMethod, DeadlineInv, NeverEarly, callVars
<1>8. CASE Close \/ ForeignArrives \/ UNCHANGED vars
  BY <1>8, <1>t DEF Close, ForeignArrives, vars, DeadlineInv, NeverEarly,
       callVars, conVars
<1>9. ASSUME NEW i \in wire,
             PeerLoses(i) \/ \E code \in PeerCode : PeerReplies(i, code)
      PROVE  DeadlineInv'
  BY <1>9, <1>t DEF PeerLoses, PeerReplies, DeadlineInv, NeverEarly, callVars,
       conVars
<1> QED
  BY <1>1, <1>2, <1>3, <1>4, <1>5, <1>6, <1>7, <1>8, <1>9
  DEF Next, Application, RecvStep, Network

(* With a steady clock a call of ZRecvMethod keeps its deadline whatever   *)
(* arrives meanwhile: no wait in Poll reaches beyond it, and the call does *)
(* not return without a result before it.                                  *)
THEOREM DeadlinesKept ==
  ASSUME ClockStep = {1}
  PROVE  Spec => [](NeverLate /\ NeverEarly)
<1>1. Init => DeadlineInv
  BY TypeInit, ElapsedAssumption DEF Init, DeadlineInv, NeverEarly
<1>2. DeadlineInv /\ [Next]_vars => DeadlineInv'
  BY DeadlineStep
<1>3. DeadlineInv => NeverLate /\ NeverEarly
  BY DEF DeadlineInv, NeverLate
<1> QED
  BY <1>1, <1>2, <1>3, PTL DEF Spec

=============================================================================
