--------------------------- MODULE ZmqHandlesProofs ---------------------------
(***************************************************************************)
(* Theorems about ZmqHandles, for any number of contexts, sockets,         *)
(* messages and events: types, the counts in the blocks of the messages,   *)
(* who owns an open socket and an open context, and the frames that a      *)
(* monitor reads.                                                          *)
(***************************************************************************)
EXTENDS ZmqHandles, ZmqMessageProofs

(* The frames of q from one of parity b on: one that begins an event is    *)
(* followed by the address of the same event.                              *)
Pairs(q, b) == \A i \in DOMAIN q :
  i % 2 = b => /\ i + 1 \in DOMAIN q /\ q[i][1] # "address"
               /\ q[i + 1] = <<"address", q[i][2]>>

-----------------------------------------------------------------------------
(* The inductive invariant                                                 *)

(* Only a socket that was made is open or monitored.                       *)
HandleTypes ==
  /\ TypeOK
  /\ \A p \in open : within[p] # Absent
  /\ mpc # "idle" => socketPtr \in SockPtr /\ within[socketPtr] # Absent

(* A socket is open exactly while one socket_t or the monitor has it.      *)
Possessed(p) ==
  Count(SockObject, socket, p) + Hit(own, p) = (IF p \in open THEN 1 ELSE 0)

ContextOwned(p) ==
  /\ ctxstate[p] = "alive" => Count(CtxObject, context, p) = 1
  /\ ctxstate[p] = "closing" =>
       \/ Count(CtxObject, context, p) = 1
       \/ Count(CtxObject, context, p) = 0 /\ Signals
  /\ ctxstate[p] \in {"new", "gone"} => Count(CtxObject, context, p) = 0

(* A context_t that has a pointer has one to a context that is alive, or   *)
(* that it is closing itself.                                              *)
Closes(c) ==
  /\ closing[c] # "no" => context[c] \in CtxPtr
  /\ context[c] \in CtxPtr =>
       ctxstate[context[c]] = IF closing[c] = "no" THEN "alive" ELSE "closing"

(* The monitor's thread has a socket of its own only in its loop, and      *)
(* while no read was interrupted it takes the frames two by two.           *)
Monitoring ==
  /\ mpc \in {"idle", "start"} => own = NULL
  /\ mpc = "idle" => socketPtr = NULL /\ stream = <<>>
  /\ ~disturbed /\ mpc \in {"start", "event"} =>
       Pairs(stream, 1) /\ Len(stream) % 2 = 0
  /\ ~disturbed /\ mpc = "address" =>
       /\ Pairs(stream, 0) /\ Len(stream) % 2 = 1
       /\ eventMsg[1] # "address" /\ stream[1] = <<"address", eventMsg[2]>>

HandleInv ==
  /\ MessageInv /\ HandleTypes
  /\ \A p \in SockPtr : Possessed(p)
  /\ \A p \in CtxPtr : ContextOwned(p)
  /\ \A c \in CtxObject : Closes(c)
  /\ Monitoring

LEMMA OnlyHolder ==
  ASSUME NEW D, IsFiniteSet(D), NEW f, NEW o \in D, NEW v, f[o] = v, Count(D, f, v) = 1
  PROVE  \A p \in D \ {o} : f[p] # v
<1> DEFINE S == {p \in D : f[p] = v}
<1>1. IsFiniteSet(S)
  BY FS_Subset
<1>2. PICK x : S = {x}
  BY <1>1, FS_Singleton DEF Count
<1> QED
  BY <1>2

LEMMA Initially == Init => HandleInv
<1> SUFFICES ASSUME Init
             PROVE  HandleInv
  OBVIOUS
<1>1. MessageInv
  BY MessageInitInv DEF Init
<1>2. HandleTypes
  <2>1. stream \in Seq(Frames)
    BY DEF Init
  <2>2. eventMsg \in Frames
    BY DEF Init, Frames, NoFrame
  <2>3. count \in 0 .. MaxEvents
    BY HandleAssumption DEF Init
  <2> QED
    BY <1>1, <2>1, <2>2, <2>3 DEF Init, HandleTypes, TypeOK, MessageInv
<1>3. ASSUME NEW p \in SockPtr
      PROVE  Possessed(p)
  <2>1. Count(SockObject, socket, p) = 0
    BY CountType, HandleAssumption DEF Init
  <2> QED
    BY <2>1, HandleAssumption DEF Possessed, Hit, Init
<1>4. ASSUME NEW p \in CtxPtr
      PROVE  ContextOwned(p)
  <2>1. Count(CtxObject, context, p) = 0
    BY CountType, HandleAssumption DEF Init
  <2> QED
    BY <2>1 DEF ContextOwned, Init
<1>5. \A c \in CtxObject : Closes(c)
  BY HandleAssumption DEF Closes, Init
<1>6. Monitoring
  BY DEF Monitoring, Init
<1> QED
  BY <1>1, <1>2, <1>3, <1>4, <1>5, <1>6 DEF HandleInv

-----------------------------------------------------------------------------
(* What does not change is kept.                                           *)

ContextsHeld ==
  /\ \A p \in CtxPtr : ContextOwned(p)
  /\ \A c \in CtxObject : Closes(c)

SocketsHeld == \A p \in SockPtr : Possessed(p)

LEMMA MessagesSame ==
  ASSUME HandleInv, UNCHANGED messageVars
  PROVE  MessageInv'
BY MessageKeeps DEF HandleInv

LEMMA ContextsSame ==
  ASSUME HandleInv, UNCHANGED contextVars
  PROVE  ContextsHeld'
<1>1. ctxstate' = ctxstate /\ context' = context /\ closing' = closing
  BY DEF contextVars
<1>2. ASSUME NEW p \in CtxPtr
      PROVE  ContextOwned(p)'
  BY <1>1, <1>2 DEF HandleInv, ContextOwned
<1>3. ASSUME NEW c \in CtxObject
      PROVE  Closes(c)'
  BY <1>1, <1>3 DEF HandleInv, Closes
<1> QED
  BY <1>2, <1>3 DEF ContextsHeld

LEMMA SocketsSame ==
  ASSUME HandleInv, UNCHANGED <<socket, open, own>>
  PROVE  SocketsHeld'
<1>1. ASSUME NEW p \in SockPtr
      PROVE  Possessed(p)'
  BY <1>1 DEF HandleInv, Possessed, Hit
<1> QED
  BY <1>1 DEF SocketsHeld

LEMMA MonitorSame ==
  ASSUME HandleInv, UNCHANGED monitorVars
  PROVE  Monitoring'
BY DEF HandleInv, monitorVars, Monitoring, Pairs

LEMMA Together ==
  ASSUME MessageInv', HandleTypes', SocketsHeld', ContextsHeld', Monitoring'
  PROVE  HandleInv'
BY DEF HandleInv, SocketsHeld, ContextsHeld

(* A step of one component leaves the types of the others.                 *)
LEMMA TypesOfContexts ==
  ASSUME HandleInv, UNCHANGED <<messageVars, socketVars, monitorVars>>,
         context' \in [CtxObject -> CtxPtr \cup {NULL, Absent}],
         ctxstate' \in [CtxPtr -> {"new", "alive", "closing", "gone"}],
         closing' \in [CtxObject -> {"no", "close", "destructor"}]
  PROVE  HandleTypes'
BY DEF HandleInv, HandleTypes, TypeOK, MessageTypeOK, messageVars, socketVars, monitorVars

LEMMA TypesOfSockets ==
  ASSUME HandleInv, UNCHANGED <<messageVars, contextVars, mpc, socketPtr, own, count,
                                eventMsg, disturbed>>,
         stream' \in Seq(Frames),
         socket' \in [SockObject -> SockPtr \cup {NULL, Absent}],
         ctxptr' \in [SockObject -> CtxPtr \cup {Garbage}],
         within' \in [SockPtr -> CtxPtr \cup {Absent}], open' \subseteq SockPtr,
         \A p \in open' : within'[p] # Absent,
         \A p \in SockPtr : within[p] # Absent => within'[p] # Absent
  PROVE  HandleTypes'
BY DEF HandleInv, HandleTypes, TypeOK, MessageTypeOK, messageVars, contextVars

LEMMA TypesOfMonitors ==
  ASSUME HandleInv, UNCHANGED <<messageVars, contextVars, socket, ctxptr>>,
         within' \in [SockPtr -> CtxPtr \cup {Absent}], open' \subseteq SockPtr,
         \A p \in open' : within'[p] # Absent,
         mpc' # "idle" => socketPtr' \in SockPtr /\ within'[socketPtr'] # Absent,
         mpc' \in {"idle", "start", "event", "address", "leave"},
         socketPtr' \in SockPtr \cup {NULL}, own' \in SockPtr \cup {NULL},
         stream' \in Seq(Frames), count' \in 0 .. MaxEvents, eventMsg' \in Frames,
         disturbed' \in BOOLEAN
  PROVE  HandleTypes'
BY DEF HandleInv, HandleTypes, TypeOK, MessageTypeOK, messageVars, contextVars

-----------------------------------------------------------------------------
(* Contexts                                                                *)

(* A step of contexts alone: what is left to show.                         *)
LEMMA ContextStep ==
  ASSUME HandleInv, UNCHANGED <<messageVars, socketVars, monitorVars>>,
         context' \in [CtxObject -> CtxPtr \cup {NULL, Absent}],
         ctxstate' \in [CtxPtr -> {"new", "alive", "closing", "gone"}],
         closing' \in [CtxObject -> {"no", "close", "destructor"}],
         \A p \in CtxPtr : ContextOwned(p)', \A c \in CtxObject : Closes(c)'
  PROVE  HandleInv'
<1>1. SocketsHeld'
  BY SocketsSame DEF socketVars, monitorVars
<1> QED
  BY <1>1, MessagesSame, TypesOfContexts, MonitorSame, Together DEF ContextsHeld

LEMMA ContextTypes ==
  ASSUME HandleInv
  PROVE  /\ context \in [CtxObject -> CtxPtr \cup {NULL, Absent}]
         /\ ctxstate \in [CtxPtr -> {"new", "alive", "closing", "gone"}]
         /\ closing \in [CtxObject -> {"no", "close", "destructor"}]
         /\ NULL \notin CtxPtr /\ Absent \notin CtxPtr /\ NULL # Absent
         /\ \A c \in CtxObject : context[c] \notin CtxPtr => closing[c] = "no"
         /\ \A c \in CtxObject : context[c] \in CtxPtr =>
              /\ Count(CtxObject, context, context[c]) = 1
              /\ \A d \in CtxObject \ {c} : context[d] # context[c]
<1>1. /\ context \in [CtxObject -> CtxPtr \cup {NULL, Absent}]
      /\ ctxstate \in [CtxPtr -> {"new", "alive", "closing", "gone"}]
      /\ closing \in [CtxObject -> {"no", "close", "destructor"}]
  BY DEF HandleInv, HandleTypes, TypeOK
<1>2. ASSUME NEW c \in CtxObject
      PROVE  context[c] \notin CtxPtr => closing[c] = "no"
  BY DEF HandleInv, Closes
<1>3. ASSUME NEW c \in CtxObject, context[c] \in CtxPtr
      PROVE  Count(CtxObject, context, context[c]) = 1
  <2>1. Count(CtxObject, context, context[c]) # 0
    BY CountType, HandleAssumption
  <2>2. ctxstate[context[c]] \in {"alive", "closing"}
    BY <1>3 DEF HandleInv, Closes
  <2> QED
    BY <1>3, <2>1, <2>2 DEF HandleInv, ContextOwned
<1>4. ASSUME NEW c \in CtxObject, context[c] \in CtxPtr
      PROVE  \A d \in CtxObject \ {c} : context[d] # context[c]
  BY <1>3, <1>4, OnlyHolder, HandleAssumption
<1> QED
  BY <1>1, <1>2, <1>3, <1>4, HandleAssumption

LEMMA OneContextObject ==
  ASSUME NEW c \in CtxObject, \A d \in CtxObject \ {c} : context'[d] = context[d], NEW p
  PROVE  Count(CtxObject, context', p)
           = Count(CtxObject, context, p) - Hit(context[c], p) + Hit(context'[c], p)
BY CountOne, HandleAssumption

LEMMA MakesContext ==
  ASSUME HandleInv, NEW c \in CtxObject, ContextMade(c)
  PROVE  HandleInv'
<1>0. PICK new \in CtxPtr : /\ ctxstate[new] = "new"
                            /\ ctxstate' = [ctxstate EXCEPT ![new] = "alive"]
                            /\ context' = [context EXCEPT ![c] = new]
  BY DEF ContextMade
<1>1. /\ context[c] = Absent /\ closing[c] = "no" /\ context'[c] = new
      /\ UNCHANGED <<closing, messageVars, socketVars, monitorVars>>
      /\ \A d \in CtxObject \ {c} : context'[d] = context[d]
      /\ ctxstate'[new] = "alive" /\ \A p \in CtxPtr \ {new} : ctxstate'[p] = ctxstate[p]
  BY <1>0, ContextTypes DEF ContextMade
<1>2. ASSUME NEW p \in CtxPtr
      PROVE  ContextOwned(p)'
  <2>1. Count(CtxObject, context', p)
          = Count(CtxObject, context, p) - Hit(Absent, p) + Hit(new, p)
    BY <1>1, OneContextObject
  <2>2. PICK n \in Nat : n = Count(CtxObject, context, p)
    BY CountType, HandleAssumption
  <2>3. ContextOwned(p) /\ Absent # p
    BY ContextTypes DEF HandleInv
  <2>4. Count(CtxObject, context', p) = IF p = new THEN n + 1 ELSE n
    BY <2>1, <2>2, <2>3 DEF Hit
  <2> QED
    BY <1>0, <1>1, <2>2, <2>3, <2>4 DEF ContextOwned
<1>3. ASSUME NEW d \in CtxObject
      PROVE  Closes(d)'
  <2>1. Closes(d)
    BY DEF HandleInv
  <2>2. context[d] # new
    BY <1>0, <2>1 DEF Closes
  <2> QED
    BY <1>1, <2>1, <2>2 DEF Closes
<1>4. /\ context' \in [CtxObject -> CtxPtr \cup {NULL, Absent}]
      /\ ctxstate' \in [CtxPtr -> {"new", "alive", "closing", "gone"}]
      /\ closing' \in [CtxObject -> {"no", "close", "destructor"}]
  BY <1>0, <1>1, ContextTypes
<1> QED
  BY <1>1, <1>2, <1>3, <1>4, ContextStep

(* Moves leave every context with as many owners.                          *)
LEMMA MovesContext ==
  ASSUME HandleInv, NEW c \in CtxObject, NEW r \in CtxObject,
         ContextMoved(c, r) \/ ContextAssigned(c, r)
  PROVE  HandleInv'
<1>1. /\ c # r /\ Usable(r) /\ closing[c] = "no"
      /\ UNCHANGED <<ctxstate, closing, messageVars, socketVars, monitorVars>>
  BY ContextTypes DEF ContextMoved, ContextAssigned, Usable
<1>2. /\ context'[c] = context[r]
      /\ \/ context'[r] = context[c]
         \/ context[c] = Absent /\ context'[r] = NULL
      /\ \A d \in CtxObject \ {c, r} : context'[d] = context[d]
      /\ context' \in [CtxObject -> CtxPtr \cup {NULL, Absent}]
  <2>1. CASE ContextMoved(c, r)
    BY <1>1, <2>1, ContextTypes DEF ContextMoved
  <2>2. CASE ContextAssigned(c, r)
    BY <1>1, <2>2, ContextTypes DEF ContextAssigned
  <2> QED
    BY <2>1, <2>2
<1>3. ASSUME NEW p \in CtxPtr
      PROVE  ContextOwned(p)'
  <2>1. Count(CtxObject, context', p)
          = Count(CtxObject, context, p) - Hit(context[c], p) - Hit(context[r], p)
              + Hit(context'[c], p) + Hit(context'[r], p)
    <3>1. SameBut(CtxObject, c, r, context, context')
      BY <1>2 DEF SameBut
    <3>2. c # r
      BY <1>1
    <3> QED
      BY <3>1, <3>2, CountTwo, HandleAssumption
  <2>2. PICK n \in Nat : n = Count(CtxObject, context, p)
    BY CountType, HandleAssumption
  <2>3. Hit(context'[c], p) = Hit(context[r], p) /\ Hit(context'[r], p) = Hit(context[c], p)
    BY <1>2, ContextTypes DEF Hit
  <2>4. Count(CtxObject, context', p) = n
    BY <2>1, <2>2, <2>3 DEF Hit
  <2> QED
    BY <1>1, <2>2, <2>4 DEF HandleInv, ContextOwned
<1>4. ASSUME NEW d \in CtxObject
      PROVE  Closes(d)'
  <2>1. Closes(d) /\ Closes(c) /\ Closes(r)
    BY DEF HandleInv
  <2>2. closing[r] = "no"
    BY <1>1 DEF Usable
  <2> QED
    BY <1>1, <1>2, <2>1, <2>2, ContextTypes DEF Closes
<1> QED
  BY <1>1, <1>2, <1>3, <1>4, ContextTypes, ContextStep

LEMMA ClosesContext ==
  ASSUME HandleInv, NEW c \in CtxObject, NEW how \in {"close", "destructor"},
         ContextCloses(c, how)
  PROVE  HandleInv'
<1>1. /\ Usable(c) /\ closing[c] = "no" /\ context[c] # Absent
      /\ UNCHANGED <<messageVars, socketVars, monitorVars>>
  BY DEF ContextCloses, Usable
<1>2. CASE context[c] = NULL
  <2>1. PICK x \in {NULL, Absent} : context' = [context EXCEPT ![c] = x]
    BY <1>2 DEF ContextCloses
  <2>2. UNCHANGED <<ctxstate, closing>>
    BY <1>2 DEF ContextCloses
  <2>3. /\ \A d \in CtxObject \ {c} : context'[d] = context[d]
        /\ context'[c] = x /\ context' \in [CtxObject -> CtxPtr \cup {NULL, Absent}]
    BY <2>1, ContextTypes
  <2>4. ASSUME NEW p \in CtxPtr
        PROVE  ContextOwned(p)'
    <3>1. Count(CtxObject, context', p)
            = Count(CtxObject, context, p) - Hit(NULL, p) + Hit(x, p)
      BY <1>2, <2>3, OneContextObject
    <3>2. PICK n \in Nat : n = Count(CtxObject, context, p)
      BY CountType, HandleAssumption
    <3>3. Count(CtxObject, context', p) = n
      BY <3>1, <3>2, ContextTypes DEF Hit
    <3> QED
      BY <2>2, <3>2, <3>3 DEF HandleInv, ContextOwned
  <2>5. ASSUME NEW d \in CtxObject
        PROVE  Closes(d)'
    <3>1. Closes(d)
      BY DEF HandleInv
    <3> QED
      BY <1>1, <2>2, <2>3, <3>1, ContextTypes DEF Closes
  <2> QED
    BY <1>1, <2>2, <2>3, <2>4, <2>5, ContextTypes, ContextStep
<1>3. CASE context[c] # NULL
  <2>1. /\ context[c] \in CtxPtr /\ UNCHANGED context
        /\ ctxstate' = [ctxstate EXCEPT ![context[c]] = "closing"]
        /\ closing' = [closing EXCEPT ![c] = how]
    BY <1>1, <1>3, ContextTypes DEF ContextCloses
  <2>2. /\ closing' \in [CtxObject -> {"no", "close", "destructor"}]
        /\ ctxstate' \in [CtxPtr -> {"new", "alive", "closing", "gone"}]
        /\ closing'[c] # "no" /\ ctxstate'[context[c]] = "closing"
        /\ \A d \in CtxObject \ {c} : closing'[d] = closing[d]
        /\ \A p \in CtxPtr \ {context[c]} : ctxstate'[p] = ctxstate[p]
    BY <2>1, ContextTypes
  <2>3. ASSUME NEW p \in CtxPtr
        PROVE  ContextOwned(p)'
    <3>1. Count(CtxObject, context', p) = Count(CtxObject, context, p)
      BY <2>1
    <3>2. p = context[c] => Count(CtxObject, context, p) = 1
      BY <2>1, ContextTypes
    <3> QED
      BY <2>1, <2>2, <3>1, <3>2 DEF HandleInv, ContextOwned
  <2>4. ASSUME NEW d \in CtxObject
        PROVE  Closes(d)'
    <3>1. Closes(d) /\ (d # c => context[d] # context[c])
      BY <2>1, ContextTypes DEF HandleInv
    <3> QED
      BY <2>1, <2>2, <3>1 DEF Closes
  <2> QED
    BY <1>1, <2>1, <2>2, <2>3, <2>4, ContextTypes, ContextStep
<1> QED
  BY <1>2, <1>3

(* A context that was closed loses its only owner, whether it is gone or   *)
(* left to its sockets.                                                    *)
LEMMA ReturnsContext ==
  ASSUME HandleInv, NEW c \in CtxObject, ContextClosed(c) \/ ContextInterrupted(c)
  PROVE  HandleInv'
<1>1. PICK x \in {NULL, Absent} : context' = [context EXCEPT ![c] = x]
  BY DEF ContextClosed, ContextInterrupted, Returns
<1>2. /\ closing[c] # "no" /\ closing' = [closing EXCEPT ![c] = "no"]
      /\ UNCHANGED <<messageVars, socketVars, monitorVars>>
  BY DEF ContextClosed, ContextInterrupted, Returns
<1>3. PICK old \in CtxPtr : old = context[c]
  BY <1>2, ContextTypes
<1>4. /\ ctxstate[old] = "closing"
      /\ Count(CtxObject, context, old) = 1
      /\ \A d \in CtxObject \ {c} : context[d] # old
  BY <1>2, <1>3, ContextTypes DEF HandleInv, Closes
<1>5. /\ ctxstate' \in [CtxPtr -> {"new", "alive", "closing", "gone"}]
      /\ ctxstate'[old] = "gone" \/ (ctxstate'[old] = "closing" /\ Signals)
      /\ \A p \in CtxPtr \ {old} : ctxstate'[p] = ctxstate[p]
  <2>1. CASE ContextClosed(c)
    BY <1>3, <2>1, ContextTypes DEF ContextClosed
  <2>2. CASE ContextInterrupted(c)
    BY <1>3, <1>4, <2>2, ContextTypes DEF ContextInterrupted
  <2> QED
    BY <2>1, <2>2
<1>6. /\ context' \in [CtxObject -> CtxPtr \cup {NULL, Absent}]
      /\ closing' \in [CtxObject -> {"no", "close", "destructor"}]
      /\ context'[c] = x /\ closing'[c] = "no"
      /\ \A d \in CtxObject \ {c} : context'[d] = context[d] /\ closing'[d] = closing[d]
  BY <1>1, <1>2, ContextTypes
<1>7. ASSUME NEW p \in CtxPtr
      PROVE  ContextOwned(p)'
  <2>1. Count(CtxObject, context', p)
          = Count(CtxObject, context, p) - Hit(old, p) + Hit(x, p)
    BY <1>3, <1>6, OneContextObject
  <2>2. PICK n \in Nat : n = Count(CtxObject, context, p)
    BY CountType, HandleAssumption
  <2>3. Count(CtxObject, context', p) = IF p = old THEN n - 1 ELSE n
    BY <2>1, <2>2, ContextTypes DEF Hit
  <2>4. CASE p = old
    <3>1. Count(CtxObject, context', p) = 0
      BY <1>4, <2>2, <2>3, <2>4
    <3>2. Signals' = Signals
      OBVIOUS
    <3> QED
      BY <1>5, <2>4, <3>1 DEF ContextOwned
  <2>5. CASE p # old
    BY <1>5, <2>2, <2>3, <2>5 DEF HandleInv, ContextOwned
  <2> QED
    BY <2>4, <2>5
<1>8. ASSUME NEW d \in CtxObject
      PROVE  Closes(d)'
  <2>1. Closes(d)
    BY DEF HandleInv
  <2> QED
    BY <1>4, <1>5, <1>6, <2>1, ContextTypes DEF Closes
<1> QED
  BY <1>2, <1>5, <1>6, <1>7, <1>8, ContextStep

-----------------------------------------------------------------------------
(* Sockets                                                                 *)

LEMMA SocketTypes ==
  ASSUME HandleInv
  PROVE  /\ socket \in [SockObject -> SockPtr \cup {NULL, Absent}]
         /\ ctxptr \in [SockObject -> CtxPtr \cup {Garbage}]
         /\ within \in [SockPtr -> CtxPtr \cup {Absent}]
         /\ open \subseteq SockPtr /\ (\A p \in open : within[p] # Absent)
         /\ NULL \notin SockPtr /\ Absent \notin SockPtr /\ NULL # Absent
         /\ own \in SockPtr \cup {NULL} /\ socketPtr \in SockPtr \cup {NULL}
         /\ stream \in Seq(Frames)
         /\ own \in SockPtr => own \in open
         /\ mpc # "idle" => socketPtr \in SockPtr /\ within[socketPtr] # Absent
         /\ \A s \in SockObject : socket[s] \in SockPtr => socket[s] \in open /\ socket[s] # own
<1>1. /\ socket \in [SockObject -> SockPtr \cup {NULL, Absent}]
      /\ ctxptr \in [SockObject -> CtxPtr \cup {Garbage}]
      /\ within \in [SockPtr -> CtxPtr \cup {Absent}]
      /\ open \subseteq SockPtr /\ (\A p \in open : within[p] # Absent)
      /\ own \in SockPtr \cup {NULL} /\ socketPtr \in SockPtr \cup {NULL}
      /\ stream \in Seq(Frames)
      /\ mpc # "idle" => socketPtr \in SockPtr /\ within[socketPtr] # Absent
  BY DEF HandleInv, HandleTypes, TypeOK
<1>2. ASSUME NEW p \in SockPtr
      PROVE  /\ p = own => p \in open
             /\ \A s \in SockObject : socket[s] = p => p \in open /\ p # own
  <2>1. PICK n \in Nat : n = Count(SockObject, socket, p)
    BY CountType, HandleAssumption
  <2>2. \A s \in SockObject : socket[s] = p => n # 0
    BY <2>1, CountType, HandleAssumption
  <2>3. n + Hit(own, p) = IF p \in open THEN 1 ELSE 0
    BY <2>1 DEF HandleInv, Possessed
  <2> QED
    BY <2>2, <2>3 DEF Hit
<1> QED
  BY <1>1, <1>2, HandleAssumption

LEMMA OneSocketObject ==
  ASSUME NEW s \in SockObject, \A r \in SockObject \ {s} : socket'[r] = socket[r], NEW p
  PROVE  Count(SockObject, socket', p)
           = Count(SockObject, socket, p) - Hit(socket[s], p) + Hit(socket'[s], p)
BY CountOne, HandleAssumption

(* A step of sockets alone: what is left to show.                          *)
LEMMA SocketStep ==
  ASSUME HandleInv, UNCHANGED <<messageVars, contextVars, monitorVars>>,
         socket' \in [SockObject -> SockPtr \cup {NULL, Absent}],
         ctxptr' \in [SockObject -> CtxPtr \cup {Garbage}],
         within' \in [SockPtr -> CtxPtr \cup {Absent}], open' \subseteq SockPtr,
         \A p \in open' : within'[p] # Absent,
         \A p \in SockPtr : within[p] # Absent => within'[p] # Absent,
         \A p \in SockPtr : Possessed(p)'
  PROVE  HandleInv'
<1>1. HandleTypes'
  <2>1. UNCHANGED <<mpc, socketPtr, own, count, eventMsg, disturbed>> /\ stream' = stream
    BY DEF monitorVars
  <2> QED
    BY <2>1, TypesOfSockets, SocketTypes
<1> QED
  BY <1>1, MessagesSame, ContextsSame, MonitorSame, Together DEF SocketsHeld

LEMMA MakesSocket ==
  ASSUME HandleInv, NEW s \in SockObject, NEW c \in CtxObject, SocketMade(s, c)
  PROVE  HandleInv'
<1>1. PICK new \in SockPtr : /\ Opens(new, context[c])
                             /\ socket' = [socket EXCEPT ![s] = new]
  BY DEF SocketMade
<1>2. /\ socket[s] = Absent /\ context[c] \in CtxPtr
      /\ ctxptr' = [ctxptr EXCEPT ![s] = context[c]]
      /\ UNCHANGED <<messageVars, contextVars, monitorVars>>
  BY ContextTypes DEF SocketMade, Usable
<1>3. /\ within[new] = Absent /\ within' = [within EXCEPT ![new] = context[c]]
      /\ open' = open \cup {new} /\ new \notin open /\ own' = own
      /\ socket'[s] = new /\ \A r \in SockObject \ {s} : socket'[r] = socket[r]
  BY <1>1, <1>2, SocketTypes DEF Opens, monitorVars
<1>4. ASSUME NEW p \in SockPtr
      PROVE  Possessed(p)'
  <2>1. Count(SockObject, socket', p)
          = Count(SockObject, socket, p) - Hit(Absent, p) + Hit(new, p)
    BY <1>2, <1>3, OneSocketObject
  <2>2. PICK n \in Nat : n = Count(SockObject, socket, p)
    BY CountType, HandleAssumption
  <2>3. n + Hit(own, p) = IF p \in open THEN 1 ELSE 0
    BY <2>2 DEF HandleInv, Possessed
  <2>4. Count(SockObject, socket', p) = n + Hit(new, p)
    BY <2>1, <2>2, SocketTypes DEF Hit
  <2>5. p \in open' <=> p \in open \/ p = new
    BY <1>3
  <2>6. Hit(own, p)' = Hit(own, p)
    BY <1>3 DEF Hit
  <2> QED
    BY <1>3, <2>3, <2>4, <2>5, <2>6 DEF Possessed, Hit
<1>5. /\ socket' \in [SockObject -> SockPtr \cup {NULL, Absent}]
      /\ ctxptr' \in [SockObject -> CtxPtr \cup {Garbage}]
      /\ within' \in [SockPtr -> CtxPtr \cup {Absent}] /\ open' \subseteq SockPtr
      /\ \A p \in open' : within'[p] # Absent
      /\ \A p \in SockPtr : within[p] # Absent => within'[p] # Absent
  BY <1>1, <1>2, <1>3, SocketTypes, ContextTypes
<1> QED
  BY <1>2, <1>4, <1>5, SocketStep

LEMMA TwoSocketObjects ==
  ASSUME NEW s \in SockObject, NEW r \in SockObject, s # r, NEW p \in SockPtr,
         \A d \in SockObject \ {s, r} : socket'[d] = socket[d]
  PROVE  Count(SockObject, socket', p)
           = Count(SockObject, socket, p) - Hit(socket[s], p) - Hit(socket[r], p)
               + Hit(socket'[s], p) + Hit(socket'[r], p)
<1>1. SameBut(SockObject, s, r, socket, socket')
  BY DEF SameBut
<1> QED
  BY <1>1, CountTwo, HandleAssumption

LEMMA MovesSocket ==
  ASSUME HandleInv, NEW s \in SockObject, NEW r \in SockObject,
         SocketMoved(s, r) \/ SocketAssigned(s, r)
  PROVE  HandleInv'
<1>1. /\ s # r /\ UNCHANGED <<within, open, messageVars, contextVars, monitorVars>>
      /\ ctxptr' \in [SockObject -> CtxPtr \cup {Garbage}]
  <2>1. s # r /\ UNCHANGED <<within, open, messageVars, contextVars, monitorVars>>
    BY DEF SocketMoved, SocketAssigned
  <2>2. ctxptr' = ctxptr \/ ctxptr' = [ctxptr EXCEPT ![s] = Garbage]
    BY DEF SocketMoved, SocketAssigned
  <2> QED
    BY <2>1, <2>2, SocketTypes
<1>2. /\ socket'[s] = socket[r]
      /\ \/ socket'[r] = socket[s]
         \/ socket[s] = Absent /\ socket'[r] = NULL
      /\ \A q \in SockObject \ {s, r} : socket'[q] = socket[q]
      /\ socket' \in [SockObject -> SockPtr \cup {NULL, Absent}]
  <2>1. CASE SocketMoved(s, r)
    BY <1>1, <2>1, SocketTypes DEF SocketMoved
  <2>2. CASE SocketAssigned(s, r)
    BY <1>1, <2>2, SocketTypes DEF SocketAssigned
  <2> QED
    BY <2>1, <2>2
<1>3. ASSUME NEW p \in SockPtr
      PROVE  Possessed(p)'
  <2>1. Count(SockObject, socket', p)
          = Count(SockObject, socket, p) - Hit(socket[s], p) - Hit(socket[r], p)
              + Hit(socket'[s], p) + Hit(socket'[r], p)
    BY <1>1, <1>2, TwoSocketObjects
  <2>2. PICK n \in Nat : n = Count(SockObject, socket, p)
    BY CountType, HandleAssumption
  <2>3. Hit(socket'[s], p) = Hit(socket[r], p) /\ Hit(socket'[r], p) = Hit(socket[s], p)
    BY <1>2, SocketTypes DEF Hit
  <2>4. Count(SockObject, socket', p) = Count(SockObject, socket, p)
    BY <2>1, <2>2, <2>3 DEF Hit
  <2>5. own' = own /\ open' = open
    BY <1>1 DEF monitorVars
  <2> QED
    BY <2>4, <2>5 DEF HandleInv, Possessed, Hit
<1>4. UNCHANGED <<messageVars, contextVars, monitorVars>> /\ within' = within /\ open' = open
  BY <1>1
<1> QED
  BY <1>1, <1>2, <1>3, <1>4, SocketTypes, SocketStep

-----------------------------------------------------------------------------
(* The frames of a monitor                                                 *)

LEMMA PairsTail ==
  ASSUME NEW R, NEW q \in Seq(R), q # <<>>, NEW b \in {0, 1}, NEW e \in {0, 1}, b # e,
         Pairs(q, b)
  PROVE  Pairs(Tail(q), e)
<1> SUFFICES ASSUME NEW i \in DOMAIN Tail(q), i % 2 = e
             PROVE  /\ i + 1 \in DOMAIN Tail(q) /\ Tail(q)[i][1] # "address"
                    /\ Tail(q)[i + 1] = <<"address", Tail(q)[i][2]>>
  BY DEF Pairs
<1>1. PICK n \in Nat : n = Len(q) /\ n >= 1 /\ DOMAIN q = 1 .. n
  BY LenProperties, EmptySeq
<1>2. /\ DOMAIN Tail(q) = 1 .. (n - 1)
      /\ \A j \in 1 .. (n - 1) : Tail(q)[j] = q[j + 1]
  BY <1>1, HeadTailProperties, LenProperties
<1>3. i \in 1 .. (n - 1) /\ i + 1 \in DOMAIN q /\ (i + 1) % 2 = b
  BY <1>1, <1>2
<1>4. /\ (i + 1) + 1 \in DOMAIN q /\ q[i + 1][1] # "address"
      /\ q[(i + 1) + 1] = <<"address", q[i + 1][2]>>
  BY <1>3 DEF Pairs
<1>5. i + 1 \in 1 .. (n - 1)
  BY <1>1, <1>3, <1>4
<1> QED
  BY <1>2, <1>3, <1>4, <1>5

LEMMA PairsAppend ==
  ASSUME NEW R, NEW q \in Seq(R), NEW a \in R, NEW c \in R, NEW b \in {0, 1},
         NEW e \in {0, 1}, b # e, Pairs(q, b), Len(q) % 2 = e, a[1] # "address", c = <<"address", a[2]>>
  PROVE  /\ Pairs(q \o <<a, c>>, b) /\ Len(q \o <<a, c>>) % 2 = e
<1> DEFINE z == q \o <<a, c>>
<1>1. PICK n \in Nat : n = Len(q) /\ DOMAIN q = 1 .. n
  BY LenProperties
<1>2. <<a, c>> \in Seq(R) /\ Len(<<a, c>>) = 2 /\ <<a, c>>[1] = a /\ <<a, c>>[2] = c
  OBVIOUS
<1>3. /\ z \in Seq(R) /\ Len(z) = n + 2
      /\ \A i \in 1 .. n + 2 : z[i] = IF i <= n THEN q[i] ELSE <<a, c>>[i - n]
  BY <1>1, <1>2, ConcatProperties
<1>4. /\ DOMAIN z = 1 .. n + 2 /\ (\A i \in 1 .. n : z[i] = q[i])
      /\ z[n + 1] = a /\ z[n + 2] = c
  <2>1. DOMAIN z = 1 .. n + 2
    BY <1>3, LenProperties
  <2>2. \A i \in 1 .. n : z[i] = q[i]
    BY <1>3
  <2>3. n + 1 \in 1 .. n + 2 /\ n + 2 \in 1 .. n + 2 /\ (n + 1) - n = 1 /\ (n + 2) - n = 2
        /\ ~(n + 1 <= n) /\ ~(n + 2 <= n)
    OBVIOUS
  <2> QED
    BY <1>2, <1>3, <2>1, <2>2, <2>3
<1>5. (n + 2) % 2 = e
  BY <1>1
<1> HIDE DEF z
<1>7. ASSUME NEW i \in DOMAIN z, i % 2 = b
      PROVE  i + 1 \in DOMAIN z /\ z[i][1] # "address" /\ z[i + 1] = <<"address", z[i][2]>>
  <2>1. CASE i \in 1 .. n
    <3>1. i + 1 \in 1 .. n /\ q[i][1] # "address" /\ q[i + 1] = <<"address", q[i][2]>>
      BY <1>1, <1>7, <2>1 DEF Pairs
    <3> QED
      BY <1>4, <2>1, <3>1
  <2>2. CASE i = n + 1
    BY <1>4, <2>2
  <2>3. CASE i = n + 2
    BY <1>5, <1>7, <2>3
  <2> QED
    BY <1>4, <2>1, <2>2, <2>3
<1>8. Pairs(z, b)
  BY <1>7 DEF Pairs
<1> QED
  BY <1>3, <1>5, <1>8 DEF z

(* The lengths of what is left.                                            *)
LEMMA TailParity ==
  ASSUME NEW R, NEW q \in Seq(R), q # <<>>
  PROVE  /\ Tail(q) \in Seq(R) /\ Head(q) \in R /\ Head(q) = q[1]
         /\ Len(Tail(q)) % 2 = 1 - (Len(q) % 2)
<1>1. PICK n \in Nat \ {0} : n = Len(q)
  BY LenProperties, EmptySeq
<1>2. Len(Tail(q)) = n - 1 /\ Tail(q) \in Seq(R) /\ Head(q) \in R /\ Head(q) = q[1]
  BY <1>1, HeadTailProperties
<1> QED
  BY <1>1, <1>2

-----------------------------------------------------------------------------
(* Closing a socket, and the monitor                                       *)

(* What a socket or its monitor loses is not open any more.                *)
LEMMA Unpossessed ==
  ASSUME NEW p \in SockPtr, NEW n \in Nat, NEW m \in Nat, NEW x,
         n + m = (IF p \in open THEN 1 ELSE 0), open' = open \ {x}
  PROVE  /\ p = x /\ p \in open => n + m = 1 /\ p \notin open'
         /\ p # x => n + m = (IF p \in open' THEN 1 ELSE 0)
OBVIOUS

(* The stream of a monitor grows by the last event, or not at all.         *)
LEMMA MonitorGrows ==
  ASSUME HandleInv, UNCHANGED <<mpc, socketPtr, own, eventMsg, disturbed>>,
         \/ stream' = stream
         \/ /\ mpc # "idle"
            /\ \E n \in 0 .. MaxEvents, k \in {"event", "stopped"} :
                 /\ <<k, n>> \in Frames /\ <<"address", n>> \in Frames
                 /\ stream' = stream \o <<<<k, n>>, <<"address", n>>>>
  PROVE  Monitoring' /\ stream' \in Seq(Frames)
<1>0. stream \in Seq(Frames) /\ Monitoring
  BY SocketTypes DEF HandleInv
<1>1. CASE stream' = stream
  BY <1>0, <1>1 DEF Monitoring, Pairs
<1>2. CASE stream' # stream
  <2>1. PICK n \in 0 .. MaxEvents, k \in {"event", "stopped"} :
          /\ <<k, n>> \in Frames /\ <<"address", n>> \in Frames
          /\ stream' = stream \o <<<<k, n>>, <<"address", n>>>>
    BY <1>2
  <2>2. mpc # "idle"
    BY <1>2
  <2>3. PICK a \in Frames, c \in Frames :
          /\ a = <<k, n>> /\ c = <<"address", n>> /\ stream' = stream \o <<a, c>>
    BY <2>1
  <2>4. a[1] # "address" /\ c = <<"address", a[2]>>
    BY <2>3
  <2>5. stream' \in Seq(Frames)
    BY <1>0, <2>3, ConcatProperties
  <2>6. ASSUME ~disturbed, mpc \in {"start", "event"}
        PROVE  Pairs(stream', 1) /\ Len(stream') % 2 = 0
    <3>1. Pairs(stream, 1) /\ Len(stream) % 2 = 0
      BY <1>0, <2>6 DEF Monitoring
    <3>2. /\ Pairs(stream \o <<a, c>>, 1)
          /\ Len(stream \o <<a, c>>) % 2 = 0
      BY <1>0, <2>4, <3>1, PairsAppend
    <3> QED
      BY <2>3, <3>2
  <2>7. ASSUME ~disturbed, mpc = "address"
        PROVE  /\ Pairs(stream', 0) /\ Len(stream') % 2 = 1 /\ stream'[1] = stream[1]
               /\ eventMsg[1] # "address" /\ stream[1] = <<"address", eventMsg[2]>>
    <3>1. /\ Pairs(stream, 0) /\ Len(stream) % 2 = 1
          /\ eventMsg[1] # "address" /\ stream[1] = <<"address", eventMsg[2]>>
      BY <1>0, <2>7 DEF Monitoring
    <3>2. stream # <<>>
      BY <3>1
    <3>3. /\ Pairs(stream \o <<a, c>>, 0)
          /\ Len(stream \o <<a, c>>) % 2 = 1
      BY <1>0, <2>4, <3>1, PairsAppend
    <3>4. (stream \o <<a, c>>)[1] = stream[1]
      BY <1>0, <3>2, ConcatProperties, LenProperties, EmptySeq
    <3> QED
      BY <2>3, <3>1, <3>3, <3>4
  <2> QED
    BY <1>0, <2>2, <2>5, <2>6, <2>7 DEF Monitoring
<1> QED
  BY <1>1, <1>2

LEMMA FrameTypes ==
  /\ <<"stopped", 0>> \in Frames /\ <<"address", 0>> \in Frames /\ NoFrame \in Frames
  /\ \A n \in 1 .. MaxEvents : <<"event", n>> \in Frames /\ <<"address", n>> \in Frames
BY DEF Frames, NoFrame

LEMMA ClosesSocket ==
  ASSUME HandleInv, NEW s \in SockObject, SocketClosed(s) \/ SocketDestroyed(s)
  PROVE  HandleInv'
<1>1. PICK x \in {NULL, Absent} : SocketCloses(s, x)
  BY DEF SocketClosed, SocketDestroyed
<1>2. /\ open' = open \ {socket[s]} /\ socket' = [socket EXCEPT ![s] = x]
      /\ UNCHANGED <<messageVars, contextVars>> /\ UNCHANGED <<ctxptr, within>>
      /\ UNCHANGED <<mpc, socketPtr, own, count, eventMsg, disturbed>>
  BY <1>1 DEF SocketCloses
<1>3. /\ socket' \in [SockObject -> SockPtr \cup {NULL, Absent}]
      /\ socket'[s] = x /\ \A r \in SockObject \ {s} : socket'[r] = socket[r]
  BY <1>2, SocketTypes
<1>4. ASSUME NEW p \in SockPtr
      PROVE  Possessed(p)'
  <2>1. Count(SockObject, socket', p)
          = Count(SockObject, socket, p) - Hit(socket[s], p) + Hit(x, p)
    BY <1>3, OneSocketObject
  <2>2. PICK n \in Nat : n = Count(SockObject, socket, p)
    BY CountType, HandleAssumption
  <2>3. n + Hit(own, p) = IF p \in open THEN 1 ELSE 0
    BY <2>2 DEF HandleInv, Possessed
  <2>4. Hit(x, p) = 0 /\ Hit(own', p) = Hit(own, p)
    BY <1>2, SocketTypes DEF Hit
  <2>5. CASE p = socket[s]
    <3>1. p \in open /\ p # own /\ p \notin open'
      BY <1>2, <2>5, SocketTypes
    <3>2. n = 1 /\ Hit(own, p) = 0 /\ Hit(socket[s], p) = 1
      BY <2>2, <2>3, <2>5, <3>1 DEF Hit
    <3>3. Count(SockObject, socket', p) = 0
      BY <2>1, <2>2, <2>4, <3>2
    <3> QED
      BY <2>4, <3>1, <3>2, <3>3 DEF Possessed
  <2>6. CASE p # socket[s]
    <3>1. (p \in open' <=> p \in open) /\ Hit(socket[s], p) = 0
      BY <1>2, <2>6 DEF Hit
    <3>2. Count(SockObject, socket', p) = n
      BY <2>1, <2>2, <2>4, <3>1
    <3> QED
      BY <2>3, <2>4, <3>1, <3>2 DEF Possessed
  <2> QED
    BY <2>5, <2>6
<1>5. Monitoring' /\ stream' \in Seq(Frames)
  <2>1. \/ stream' = stream
        \/ mpc # "idle" /\ stream' = stream \o <<<<"stopped", 0>>, <<"address", 0>>>>
    BY <1>1 DEF SocketCloses, LastEvent
  <2>2. 0 \in 0 .. MaxEvents
    BY HandleAssumption
  <2> QED
    BY <1>2, <2>1, <2>2, FrameTypes, MonitorGrows
<1>6. open' \subseteq SockPtr /\ \A p \in open' : within'[p] # Absent
  BY <1>2, SocketTypes
<1>7. HandleTypes'
  BY <1>2, <1>3, <1>5, <1>6, SocketTypes, TypesOfSockets
<1> QED
  BY <1>2, <1>4, <1>5, <1>7, MessagesSame, ContextsSame, Together DEF SocketsHeld

(* A step of the monitor, in which no socket_t has a part: what is left.   *)
LEMMA MonitorFrame ==
  ASSUME HandleInv, UNCHANGED <<messageVars, contextVars, socketVars>>, own' = own,
         mpc' \in {"idle", "start", "event", "address", "leave"},
         socketPtr' \in SockPtr \cup {NULL},
         mpc' # "idle" => socketPtr' \in SockPtr /\ within[socketPtr'] # Absent,
         stream' \in Seq(Frames), count' \in 0 .. MaxEvents, eventMsg' \in Frames,
         disturbed' \in BOOLEAN, Monitoring'
  PROVE  HandleInv'
<1>1. UNCHANGED <<socket, ctxptr, within, open, own>>
  BY DEF socketVars
<1>2. SocketsHeld'
  BY <1>1, SocketsSame
<1>3. HandleTypes'
  BY <1>1, SocketTypes, TypesOfMonitors
<1> QED
  BY <1>2, <1>3, MessagesSame, ContextsSame, Together

LEMMA MonitorTypes ==
  ASSUME HandleInv
  PROVE  /\ mpc \in {"idle", "start", "event", "address", "leave"}
         /\ count \in 0 .. MaxEvents /\ eventMsg \in Frames /\ disturbed \in BOOLEAN
         /\ Monitoring
BY DEF HandleInv, HandleTypes, TypeOK

LEMMA BeginsMonitor ==
  ASSUME HandleInv, NEW s \in SockObject, Monitor(s)
  PROVE  HandleInv'
<1>1. /\ mpc = "idle" /\ mpc' = "start" /\ own = NULL /\ socketPtr' = socket[s]
      /\ UNCHANGED <<own, stream, count, eventMsg, disturbed>>
      /\ UNCHANGED <<messageVars, contextVars, socketVars>>
  BY DEF Monitor
<1>2. stream = <<>>
  BY <1>1, MonitorTypes DEF Monitoring
<1>3. Len(stream) % 2 = 0 /\ Pairs(stream, 1)
  BY <1>2 DEF Pairs
<1>4. Monitoring'
  BY <1>1, <1>3 DEF Monitoring, Pairs
<1>5. socketPtr' \in SockPtr /\ within[socketPtr'] # Absent
  BY <1>1, SocketTypes DEF Monitor
<1> QED
  BY <1>1, <1>4, <1>5, SocketTypes, MonitorTypes, MonitorFrame

LEMMA StartsMonitor ==
  ASSUME HandleInv, MonitorStarts
  PROVE  HandleInv'
<1>1. /\ mpc = "start" /\ mpc' = "event"
      /\ UNCHANGED <<messageVars, contextVars, socket, ctxptr, socketPtr, stream,
                     count, eventMsg, disturbed>>
  BY DEF MonitorStarts
<1>2. own = NULL
  BY <1>1, MonitorTypes DEF Monitoring
<1>3. Monitoring'
  BY <1>1, MonitorTypes DEF Monitoring, Pairs
<1>4. CASE UNCHANGED <<within, open, own>>
  <2>1. UNCHANGED <<messageVars, contextVars, socketVars>> /\ own' = own
    BY <1>1, <1>4 DEF socketVars
  <2> QED
    BY <1>1, <1>3, <2>1, SocketTypes, MonitorTypes, MonitorFrame
<1>5. ASSUME NEW new \in SockPtr, Opens(new, within[socketPtr]), own' = new
      PROVE  HandleInv'
  <2>1. /\ within[new] = Absent /\ new \notin open /\ open' = open \cup {new}
        /\ \A p \in SockPtr \ {new} : within'[p] = within[p]
        /\ within' = [within EXCEPT ![new] = within[socketPtr]]
    BY <1>5, SocketTypes DEF Opens
  <2>2. within[socketPtr] \in CtxPtr /\ new # NULL
    BY <1>1, SocketTypes
  <2>3. /\ within' \in [SockPtr -> CtxPtr \cup {Absent}] /\ open' \subseteq SockPtr
        /\ \A p \in open' : within'[p] # Absent
        /\ socketPtr' \in SockPtr /\ within'[socketPtr'] # Absent
        /\ own' \in SockPtr
    BY <1>1, <1>5, <2>1, <2>2, SocketTypes, ContextTypes
  <2>4. HandleTypes'
    BY <1>1, <2>3, SocketTypes, MonitorTypes, TypesOfMonitors
  <2>5. ASSUME NEW p \in SockPtr
        PROVE  Possessed(p)'
    <3>1. PICK n \in Nat : n = Count(SockObject, socket, p)
      BY CountType, HandleAssumption
    <3>2. n + 0 = IF p \in open THEN 1 ELSE 0
      BY <1>2, <3>1, SocketTypes DEF HandleInv, Possessed, Hit
    <3>3. Count(SockObject, socket', p) = n
      BY <1>1, <3>1
    <3>4. n + (IF new = p THEN 1 ELSE 0) = IF p \in open' THEN 1 ELSE 0
      BY <2>1, <3>2
    <3> QED
      BY <1>5, <3>3, <3>4 DEF Possessed, Hit
  <2> QED
    BY <1>1, <1>3, <2>4, <2>5, MessagesSame, ContextsSame, Together DEF SocketsHeld
<1> QED
  BY <1>4, <1>5 DEF MonitorStarts

LEMMA ReadsEvent ==
  ASSUME HandleInv, MonitorReadsEvent
  PROVE  HandleInv'
<1>1. PICK frame \in Frames : MonitorReads(frame) /\ eventMsg' = frame
  BY DEF MonitorReadsEvent
<1>2. /\ mpc = "event" /\ mpc' = "address" /\ UNCHANGED <<socketPtr, own, count>>
      /\ UNCHANGED <<messageVars, contextVars, socketVars>>
  BY DEF MonitorReadsEvent, Others
<1>3. stream' \in Seq(Frames) /\ disturbed' \in BOOLEAN /\ Monitoring'
  <2>1. CASE stream # <<>> /\ frame = Head(stream) /\ stream' = Tail(stream)
             /\ UNCHANGED disturbed
    <3>1. /\ Tail(stream) \in Seq(Frames) /\ Head(stream) = stream[1]
          /\ Len(Tail(stream)) % 2 = 1 - (Len(stream) % 2)
      BY <2>1, SocketTypes, TailParity
    <3>2. ASSUME ~disturbed
          PROVE  /\ Pairs(Tail(stream), 0) /\ Len(Tail(stream)) % 2 = 1
                 /\ frame[1] # "address" /\ Tail(stream)[1] = <<"address", frame[2]>>
      <4>1. Pairs(stream, 1) /\ Len(stream) % 2 = 0
        BY <1>2, <3>2, MonitorTypes DEF Monitoring
      <4>2. Pairs(Tail(stream), 0)
        BY <2>1, <4>1, SocketTypes, PairsTail
      <4>3. 1 \in DOMAIN stream /\ 1 % 2 = 1
        BY <2>1, SocketTypes, LenProperties, EmptySeq
      <4>4. /\ 1 + 1 \in DOMAIN stream /\ stream[1][1] # "address"
            /\ stream[1 + 1] = <<"address", stream[1][2]>>
        BY <4>1, <4>3 DEF Pairs
      <4>5. Tail(stream)[1] = stream[1 + 1]
        BY <2>1, <4>4, SocketTypes, HeadTailProperties, LenProperties
      <4> QED
        BY <2>1, <3>1, <4>1, <4>2, <4>4, <4>5
    <3> QED
      BY <1>1, <1>2, <2>1, <3>1, <3>2, MonitorTypes DEF Monitoring
  <2>2. CASE disturbed' = TRUE /\ UNCHANGED stream
    BY <1>2, <2>2, SocketTypes DEF Monitoring
  <2> QED
    BY <1>1, <2>1, <2>2 DEF MonitorReads
<1> QED
  BY <1>1, <1>2, <1>3, SocketTypes, MonitorTypes, MonitorFrame

LEMMA ReadsAddress ==
  ASSUME HandleInv, MonitorReadsAddress
  PROVE  HandleInv'
<1>1. PICK frame \in Frames : MonitorReads(frame)
  BY DEF MonitorReadsAddress
<1>2. /\ mpc = "address" /\ mpc' \in {"leave", "event"} /\ eventMsg' = NoFrame
      /\ UNCHANGED <<socketPtr, own, count>>
      /\ UNCHANGED <<messageVars, contextVars, socketVars>>
  BY DEF MonitorReadsAddress, Others
<1>3. stream' \in Seq(Frames) /\ disturbed' \in BOOLEAN /\ Monitoring'
  <2>1. CASE stream # <<>> /\ stream' = Tail(stream) /\ UNCHANGED disturbed
    <3>1. /\ Tail(stream) \in Seq(Frames)
          /\ Len(Tail(stream)) % 2 = 1 - (Len(stream) % 2)
      BY <2>1, SocketTypes, TailParity
    <3>2. ASSUME ~disturbed
          PROVE  Pairs(Tail(stream), 1) /\ Len(Tail(stream)) % 2 = 0
      <4>1. Pairs(stream, 0) /\ Len(stream) % 2 = 1
        BY <1>2, <3>2, MonitorTypes DEF Monitoring
      <4>2. Pairs(Tail(stream), 1)
        BY <2>1, <4>1, SocketTypes, PairsTail
      <4> QED
        BY <3>1, <4>1, <4>2
    <3> QED
      BY <1>2, <2>1, <3>1, <3>2, MonitorTypes DEF Monitoring
  <2>2. CASE disturbed' = TRUE /\ UNCHANGED stream
    BY <1>2, <2>2, SocketTypes DEF Monitoring
  <2> QED
    BY <1>1, <2>1, <2>2 DEF MonitorReads
<1> QED
  BY <1>2, <1>3, FrameTypes, SocketTypes, MonitorTypes, MonitorFrame

LEMMA TerminatesMonitor ==
  ASSUME HandleInv, MonitorTerminated
  PROVE  HandleInv'
<1>1. /\ mpc \in {"event", "address"} /\ mpc' = "leave" /\ eventMsg' = NoFrame
      /\ UNCHANGED <<stream, disturbed, socketPtr, own, count>>
      /\ UNCHANGED <<messageVars, contextVars, socketVars>>
  BY DEF MonitorTerminated, Others
<1>2. Monitoring'
  BY <1>1 DEF Monitoring
<1> QED
  BY <1>1, <1>2, FrameTypes, SocketTypes, MonitorTypes, MonitorFrame

LEMMA EndsMonitor ==
  ASSUME HandleInv, MonitorEnds
  PROVE  HandleInv'
<1>1. /\ mpc' = "idle" /\ socketPtr' = NULL /\ own' = NULL /\ stream' = <<>>
      /\ open' = open \ {own}
      /\ UNCHANGED <<messageVars, contextVars, socket, ctxptr, within, count, eventMsg,
                     disturbed>>
  BY DEF MonitorEnds
<1>2. Monitoring'
  BY <1>1 DEF Monitoring
<1>3. ASSUME NEW p \in SockPtr
      PROVE  Possessed(p)'
  <2>1. PICK n \in Nat : n = Count(SockObject, socket, p)
    BY CountType, HandleAssumption
  <2>2. n + Hit(own, p) = IF p \in open THEN 1 ELSE 0
    BY <2>1 DEF HandleInv, Possessed
  <2>3. Count(SockObject, socket', p) = n /\ NULL # p
    BY <1>1, <2>1, SocketTypes
  <2>4. n = IF p \in open' THEN 1 ELSE 0
    BY <1>1, <2>2 DEF Hit
  <2> QED
    BY <1>1, <2>3, <2>4 DEF Possessed, Hit
<1>4. HandleTypes'
  BY <1>1, SocketTypes, MonitorTypes, TypesOfMonitors
<1> QED
  BY <1>1, <1>2, <1>3, <1>4, MessagesSame, ContextsSame, Together DEF SocketsHeld

LEMMA StreamGrows ==
  ASSUME HandleInv, Happens \/ Abort
  PROVE  HandleInv'
<1>1. /\ UNCHANGED <<messageVars, contextVars, socketVars>>
      /\ UNCHANGED <<mpc, socketPtr, own, eventMsg, disturbed>>
  BY DEF Happens, Abort
<1>2. count' \in 0 .. MaxEvents
  BY MonitorTypes, HandleAssumption DEF Happens, Abort
<1>3. Monitoring' /\ stream' \in Seq(Frames)
  <2>1. CASE Happens
    <3>1. PICK n \in 1 .. MaxEvents : n = count + 1
      BY <2>1, MonitorTypes, HandleAssumption DEF Happens
    <3>2. mpc # "idle" /\ stream' = stream \o <<<<"event", n>>, <<"address", n>>>>
      BY <2>1, <3>1 DEF Happens
    <3>3. n \in 0 .. MaxEvents /\ <<"event", n>> \in Frames /\ <<"address", n>> \in Frames
      BY <3>1, FrameTypes
    <3> QED
      BY <1>1, <3>2, <3>3, MonitorGrows
  <2>2. CASE Abort
    <3>1. mpc # "idle" /\ stream' = stream \o <<<<"stopped", 0>>, <<"address", 0>>>>
      BY <2>2, SocketTypes, MonitorTypes DEF Abort, Monitoring
    <3>2. 0 \in 0 .. MaxEvents
      BY HandleAssumption
    <3> QED
      BY <1>1, <3>1, <3>2, FrameTypes, MonitorGrows
  <2> QED
    BY <2>1, <2>2
<1> QED
  BY <1>1, <1>2, <1>3, SocketTypes, MonitorTypes, MonitorFrame

-----------------------------------------------------------------------------
(* The theorems                                                            *)

LEMMA MessagesMove ==
  ASSUME HandleInv, UNCHANGED <<contextVars, socketVars, monitorVars>>,
         (\E o \in Object : MessageStep(o)) \/ Transfer
  PROVE  HandleInv'
<1>1. MessageInv'
  BY MessageKeeps DEF HandleInv
<1>2. HandleTypes'
  BY <1>1 DEF HandleInv, HandleTypes, TypeOK, MessageInv, contextVars, socketVars, monitorVars
<1>3. UNCHANGED <<socket, open, own>>
  BY DEF socketVars, monitorVars
<1> QED
  BY <1>1, <1>2, <1>3, ContextsSame, SocketsSame, MonitorSame, Together

LEMMA Stutters ==
  ASSUME HandleInv, UNCHANGED vars
  PROVE  HandleInv'
<1>1. UNCHANGED messageVars /\ UNCHANGED <<contextVars, socketVars, monitorVars>>
  BY DEF vars
<1>2. HandleTypes'
  BY <1>1 DEF HandleInv, HandleTypes, TypeOK, MessageTypeOK, messageVars, contextVars,
             socketVars, monitorVars
<1>3. UNCHANGED <<socket, open, own>>
  BY <1>1 DEF socketVars, monitorVars
<1> QED
  BY <1>1, <1>2, <1>3, MessagesSame, ContextsSame, SocketsSame, MonitorSame, Together

LEMMA HandleNext ==
  ASSUME HandleInv, [Next]_vars
  PROVE  HandleInv'
<1>1. CASE (\E o \in Object : MessageStep(o)) /\ UNCHANGED <<contextVars, socketVars, monitorVars>>
  BY <1>1, MessagesMove
<1>2. ASSUME NEW c \in CtxObject,
             \/ ContextMade(c) \/ ContextClosed(c) \/ ContextInterrupted(c)
             \/ \E how \in {"close", "destructor"} : ContextCloses(c, how)
             \/ \E d \in CtxObject : ContextMoved(c, d) \/ ContextAssigned(c, d)
      PROVE  HandleInv'
  BY <1>2, MakesContext, ReturnsContext, ClosesContext, MovesContext
<1>3. ASSUME NEW s \in SockObject,
             \/ SocketClosed(s) \/ SocketDestroyed(s) \/ SocketTransfers(s) \/ Monitor(s)
             \/ \E c \in CtxObject : SocketMade(s, c)
             \/ \E r \in SockObject : SocketMoved(s, r) \/ SocketAssigned(s, r)
      PROVE  HandleInv'
  <2>1. CASE SocketTransfers(s)
    BY <2>1, MessagesMove DEF SocketTransfers
  <2> QED
    BY <1>3, <2>1, ClosesSocket, BeginsMonitor, MakesSocket, MovesSocket
<1>4. CASE MonitorStep \/ Happens \/ Abort
  BY <1>4, StartsMonitor, ReadsEvent, ReadsAddress, TerminatesMonitor, EndsMonitor,
     StreamGrows DEF MonitorStep
<1> QED
  BY <1>1, <1>2, <1>3, <1>4, Stutters DEF Next

LEMMA HandleInvariant == Spec => []HandleInv
<1>1. HandleInv /\ [Next]_vars => HandleInv'
  BY HandleNext
<1> QED
  BY Initially, <1>1, PTL DEF Spec

(* The pointers of the objects, the states of libzmq and the frames that a *)
(* monitor reads are always of their kind.                                 *)
THEOREM HandlesTypeCorrect == Spec => []TypeOK
<1>1. HandleInv => TypeOK
  BY DEF HandleInv, HandleTypes
<1> QED
  BY HandleInvariant, <1>1, PTL

(* The count in a block of memory is exactly the number of message_t and   *)
(* of messages in flight that hold it, whatever the program does with its  *)
(* messages: nothing is freed twice, early or never.                       *)
THEOREM BlocksAccounted == Spec => []Accounted
<1>1. HandleInv => Accounted
  BY InvAccounted DEF HandleInv
<1> QED
  BY HandleInvariant, <1>1, PTL

(* Moving, sending and receiving never make two messages share a block:    *)
(* only copy() does.                                                       *)
THEOREM OnlyCopyShares == Spec => []Unshared
<1>1. HandleInv => Unshared
  BY DEF HandleInv, MessageInv
<1> QED
  BY HandleInvariant, <1>1, PTL

(* Every open socket has one owner, a socket_t or the monitor, and every   *)
(* context that is in use has one context_t.                               *)
THEOREM HandlesOwnedOnce == Spec => []OneOwner
<1>1. HandleInv => OneOwner
  BY DEF HandleInv, Possessed, ContextOwned, OneOwner, Count, Hit
<1> QED
  BY HandleInvariant, <1>1, PTL

(* As long as no read is interrupted, the monitor never takes the address  *)
(* of one event for that of another, or an address for an event.           *)
THEOREM MonitorInStep == Spec => []EventsPaired
<1>1. HandleInv => EventsPaired
  <2> SUFFICES ASSUME HandleInv, mpc = "address", ~disturbed
               PROVE  /\ eventMsg[1] # "address"
                      /\ stream # <<>> => Head(stream) = <<"address", eventMsg[2]>>
    BY DEF EventsPaired
  <2>1. eventMsg[1] # "address" /\ stream[1] = <<"address", eventMsg[2]>>
    BY DEF HandleInv, Monitoring
  <2>2. stream # <<>> => Head(stream) = stream[1]
    BY SocketTypes, HeadTailProperties
  <2> QED
    BY <2>1, <2>2
<1> QED
  BY HandleInvariant, <1>1, PTL

=============================================================================
