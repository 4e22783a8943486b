------------------------------ MODULE ZmqHandles ------------------------------
(***************************************************************************)
(* zmq::context_t, zmq::socket_t and zmq::monitor_t of the wrapper         *)
(* (src/include/zqrpc/zmq.hpp), with the messages of ZmqMessage: objects   *)
(* that own a context or a socket of libzmq, and the thread of a monitor   *)
(* that reads the events of a socket from a socket of its own.             *)
(***************************************************************************)
EXTENDS ZmqMessage

CONSTANTS
  CtxObject,   \* where a context_t may be constructed
  CtxPtr,      \* contexts of libzmq
  SockObject,  \* where a socket_t may be constructed
  SockPtr,     \* sockets of libzmq
  NULL,
  Garbage,     \* a pointer that was never assigned
  MaxEvents,   \* bound: events of the monitored socket
  Signals      \* TRUE: a signal may interrupt a call that blocks

ASSUME HandleAssumption ==
  /\ {NULL, Absent, Garbage} \cap (CtxPtr \cup SockPtr) = {}
  /\ IsFiniteSet(CtxObject) /\ IsFiniteSet(SockObject)
  /\ NULL # Absent /\ MaxEvents \in Nat /\ Signals \in BOOLEAN

VARIABLES
  context,    \* ptr of each context_t
  ctxstate,   \* libzmq: "new", "alive", "closing", "gone"
  closing,    \* context_t objects in close: "no", "close", "destructor"
  socket,     \* ptr of each socket_t
  ctxptr,     \* its ctxptr
  within,     \* libzmq: the context of each socket
  open,       \* libzmq: sockets that are open
  mpc,        \* monitor(): "idle", "start", "event", "address", "leave"
  socketPtr,  \* the monitored socket
  own,        \* the socket its events are read from
  stream,     \* frames of events that were not read
  count,      \* events so far
  eventMsg,   \* the frame read as an event
  disturbed   \* history: a signal interrupted a read of the monitor

contextVars == <<context, ctxstate, closing>>
socketVars  == <<socket, ctxptr, within, open>>
monitorVars == <<mpc, socketPtr, own, stream, count, eventMsg, disturbed>>
vars == <<messageVars, contextVars, socketVars, monitorVars>>

Frames == ({"event", "address"} \X (1 .. MaxEvents)) \cup {<<"none", 0>>}
        \cup {<<"stopped", 0>>, <<"address", 0>>}

TypeOK ==
  /\ MessageTypeOK
  /\ context \in [CtxObject -> CtxPtr \cup {NULL, Absent}]
  /\ ctxstate \in [CtxPtr -> {"new", "alive", "closing", "gone"}]
  /\ closing \in [CtxObject -> {"no", "close", "destructor"}]
  /\ socket \in [SockObject -> SockPtr \cup {NULL, Absent}]
  /\ ctxptr \in [SockObject -> CtxPtr \cup {Garbage}]
  /\ within \in [SockPtr -> CtxPtr \cup {Absent}] /\ open \subseteq SockPtr
  /\ mpc \in {"idle", "start", "event", "address", "leave"}
  /\ socketPtr \in SockPtr \cup {NULL} /\ own \in SockPtr \cup {NULL}
  /\ stream \in Seq(Frames) /\ count \in 0 .. MaxEvents
  /\ eventMsg \in Frames
  /\ disturbed \in BOOLEAN

NoFrame == <<"none", 0>>

Init ==
  /\ MessageInit
  /\ context = [c \in CtxObject |-> Absent]
  /\ ctxstate = [p \in CtxPtr |-> "new"]
  /\ closing = [c \in CtxObject |-> "no"]
  /\ socket = [s \in SockObject |-> Absent]
  /\ ctxptr = [s \in SockObject |-> Garbage]
  /\ within = [p \in SockPtr |-> Absent] /\ open = {}
  /\ mpc = "idle" /\ socketPtr = NULL /\ own = NULL /\ stream = <<>>
  /\ count = 0 /\ eventMsg = NoFrame
  /\ disturbed = FALSE

-----------------------------------------------------------------------------
(* context_t.  While one is being closed no other thread touches it.       *)

Usable(c) == context[c] # Absent /\ closing[c] = "no"

ContextMade(c) ==
  /\ context[c] = Absent
  /\ \E p \in CtxPtr : /\ ctxstate[p] = "new"
                       /\ ctxstate' = [ctxstate EXCEPT ![p] = "alive"]
                       /\ context' = [context EXCEPT ![c] = p]
  /\ UNCHANGED <<closing, messageVars, socketVars, monitorVars>>

ContextMoved(c, rhs) ==
  /\ context[c] = Absent /\ Usable(rhs)
  /\ context' = [context EXCEPT ![c] = context[rhs], ![rhs] = NULL]
  /\ UNCHANGED <<ctxstate, closing, messageVars, socketVars, monitorVars>>

ContextAssigned(c, rhs) ==
  /\ c # rhs /\ Usable(c) /\ Usable(rhs)
  /\ context' = [context EXCEPT ![c] = context[rhs], ![rhs] = context[c]]
  /\ UNCHANGED <<ctxstate, closing, messageVars, socketVars, monitorVars>>

(* zmq_ctx_destroy lets every call on the context's sockets return with    *)
(* ETERM and waits until they are closed.                                  *)
ContextCloses(c, how) ==
  /\ Usable(c)
  /\ IF context[c] = NULL
     THEN /\ context' = [context EXCEPT ![c] =
                            IF how = "destructor" THEN Absent ELSE NULL]
          /\ UNCHANGED <<ctxstate, closing>>
     ELSE /\ ctxstate' = [ctxstate EXCEPT ![context[c]] = "closing"]
          /\ closing' = [closing EXCEPT ![c] = how]
          /\ UNCHANGED context
  /\ UNCHANGED <<messageVars, socketVars, monitorVars>>

Returns(c) ==
  /\ closing[c] # "no"
  /\ context' = [context EXCEPT ![c] =
                   IF closing[c] = "destructor" THEN Absent ELSE NULL]
  /\ closing' = [closing EXCEPT ![c] = "no"]
  /\ UNCHANGED <<messageVars, socketVars, monitorVars>>

ContextClosed(c) ==
  /\ Returns(c)
  /\ \A p \in open : within[p] # context[c]
  /\ ctxstate' = [ctxstate EXCEPT ![context[c]] = "gone"]

(* A signal ends zmq_ctx_destroy too soon, and its result is not looked    *)
(* at: the context is left to its sockets.                                 *)
ContextInterrupted(c) == Returns(c) /\ Signals /\ UNCHANGED ctxstate

-----------------------------------------------------------------------------
(* socket_t                                                                *)

Opens(p, ctx) ==
  /\ within[p] = Absent /\ ctxstate[ctx] = "alive"
  /\ within' = [within EXCEPT ![p] = ctx] /\ open' = open \cup {p}

(* The socket is not constructed if zmq_socket fails.                      *)
SocketMade(s, c) ==
  /\ socket[s] = Absent /\ Usable(c) /\ context[c] # NULL
  /\ \E p \in SockPtr : /\ Opens(p, context[c])
                        /\ socket' = [socket EXCEPT ![s] = p]
  /\ ctxptr' = [ctxptr EXCEPT ![s] = context[c]]
  /\ UNCHANGED <<messageVars, contextVars, monitorVars>>

SocketKept(s, rhs) ==
  /\ socket[s] = Absent /\ socket[rhs] # Absent
  /\ socket' = [socket EXCEPT ![s] = socket[rhs]]
  /\ ctxptr' = [ctxptr EXCEPT ![s] = Garbage]
  /\ UNCHANGED <<within, open, messageVars, contextVars, monitorVars>>

(* Neither move takes the ctxptr along.                                    *)
SocketMoved(s, rhs) ==
  /\ socket[s] = Absent /\ socket[rhs] # Absent
  /\ socket' = [socket EXCEPT ![s] = socket[rhs], ![rhs] = NULL]
  /\ ctxptr' = [ctxptr EXCEPT ![s] = Garbage]
  /\ UNCHANGED <<within, open, messageVars, contextVars, monitorVars>>

SocketAssigned(s, rhs) ==
  /\ s # rhs /\ socket[s] # Absent /\ socket[rhs] # Absent
  /\ socket' = [socket EXCEPT ![s] = socket[rhs], ![rhs] = socket[s]]
  /\ UNCHANGED <<ctxptr, within, open, messageVars, contextVars, monitorVars>>

(* zmq_close of a monitored socket makes the last event of its monitor.    *)
LastEvent(p) ==
  stream' = IF p = socketPtr /\ p \in open /\ mpc # "idle"
            THEN stream \o <<<<"stopped", 0>>, <<"address", 0>>>> ELSE stream

SocketCloses(s, becomes) ==
  /\ socket[s] # Absent
  /\ open' = open \ {socket[s]}
  /\ LastEvent(socket[s])
  /\ socket' = [socket EXCEPT ![s] = becomes]
  /\ UNCHANGED <<ctxptr, within, messageVars, contextVars, mpc, socketPtr, own,
                 count, eventMsg, disturbed>>

SocketClosed(s)    == SocketCloses(s, NULL)
SocketDestroyed(s) == SocketCloses(s, Absent)

(* Messages are sent and received on sockets that are open in a context    *)
(* that is not being closed.                                               *)
SocketTransfers(s) ==
  /\ socket[s] \in open /\ ctxstate[within[socket[s]]] = "alive"
  /\ Transfer
  /\ UNCHANGED <<contextVars, socketVars, monitorVars>>

-----------------------------------------------------------------------------
(* monitor_t.  Its thread works on a socket_t that was not moved.          *)

(* zmq_socket_monitor, which throws when the context is being closed.      *)
Monitor(s) ==
  /\ mpc = "idle" /\ count = 0 /\ own = NULL
  /\ socket[s] \in open /\ ctxptr[s] = within[socket[s]]
  /\ ctxstate[ctxptr[s]] = "alive"
  /\ mpc' = "start" /\ socketPtr' = socket[s]
  /\ UNCHANGED <<messageVars, contextVars, socketVars, own, stream, count,
                 eventMsg, disturbed>>

(* zmq_socket and zmq_connect.  If the context is being closed by now the  *)
(* result is NULL, and the default build goes on with it.                  *)
MonitorStarts ==
  /\ mpc = "start"
  /\ mpc' = "event"
  /\ LET ctx == within[socketPtr] IN
       IF ctxstate[ctx] = "alive"
       THEN \E p \in SockPtr : Opens(p, ctx) /\ own' = p
       ELSE UNCHANGED <<within, open, own>>
  /\ UNCHANGED <<messageVars, contextVars, socket, ctxptr, socketPtr, stream,
                 count, eventMsg, disturbed>>

(* libzmq: something happens to the monitored socket.                      *)
Happens ==
  /\ mpc \notin {"idle", "leave"} /\ socketPtr \in open /\ count < MaxEvents
  /\ count' = count + 1
  /\ stream' = stream \o <<<<"event", count + 1>>, <<"address", count + 1>>>>
  /\ UNCHANGED <<messageVars, contextVars, socketVars, mpc, socketPtr, own,
                 eventMsg, disturbed>>

Terminated == own # NULL /\ ctxstate[within[own]] # "alive"

(* zmq_recvmsg for one of the two frames: what it reads, and whether the   *)
(* loop is left, with ETERM.  A read that fails for another reason leaves  *)
(* the frame empty.                                                        *)
MonitorReads(frame) ==
  \/ /\ own # NULL /\ ~Terminated /\ stream # <<>>
     /\ frame = Head(stream) /\ stream' = Tail(stream) /\ UNCHANGED disturbed
  \/ /\ own = NULL \/ (Signals /\ ~Terminated)
     /\ frame = NoFrame /\ disturbed' = TRUE /\ UNCHANGED stream

Others == UNCHANGED <<messageVars, contextVars, socketVars, socketPtr, own, count>>

MonitorReadsEvent ==
  /\ mpc = "event"
  /\ \E frame \in Frames : MonitorReads(frame) /\ eventMsg' = frame
  /\ mpc' = "address"
  /\ Others

PeeksAtAddress ==
  /\ mpc = "address" /\ own # NULL /\ ~Terminated /\ stream # <<>>
  /\ mpc' = IF eventMsg[1] = "stopped" THEN "leave" ELSE "event"
  /\ eventMsg' = NoFrame
  /\ UNCHANGED <<stream, disturbed>> /\ Others

(* ZMQ_EVENT_MONITOR_STOPPED ends the loop; for others there is a callback.*)
MonitorReadsAddress ==
  /\ mpc = "address"
  /\ \E frame \in Frames : MonitorReads(frame)
  /\ mpc' = IF eventMsg[1] = "stopped" THEN "leave" ELSE "event"
  /\ eventMsg' = NoFrame /\ Others

(* ETERM.                                                                  *)
MonitorTerminated ==
  /\ mpc \in {"event", "address"} /\ Terminated
  /\ mpc' = "leave" /\ eventMsg' = NoFrame
  /\ UNCHANGED <<stream, disturbed>> /\ Others

ForgetsToClose ==
  /\ mpc = "leave"
  /\ mpc' = "idle" /\ socketPtr' = NULL /\ own' = NULL /\ stream' = <<>>
  /\ UNCHANGED <<messageVars, contextVars, socketVars, count, eventMsg,
                 disturbed>>

MonitorEnds ==
  /\ mpc = "leave"
  /\ mpc' = "idle" /\ socketPtr' = NULL /\ own' = NULL /\ stream' = <<>>
  /\ open' = open \ {own}
  /\ UNCHANGED <<messageVars, contextVars, socket, ctxptr, within, count,
                 eventMsg, disturbed>>

(* abort(), from another thread while the monitored socket is open.        *)
Abort ==
  /\ socketPtr \in open /\ ctxstate[within[socketPtr]] = "alive"
  /\ ~\E i \in DOMAIN stream : stream[i][1] = "stopped"
  /\ stream' = stream \o <<<<"stopped", 0>>, <<"address", 0>>>>
  /\ UNCHANGED <<messageVars, contextVars, socketVars, mpc, socketPtr, own,
                 count, eventMsg, disturbed>>

-----------------------------------------------------------------------------
MonitorStep ==
  \/ MonitorStarts \/ MonitorReadsEvent \/ MonitorReadsAddress
  \/ MonitorTerminated \/ MonitorEnds

Next ==
  \/ (\E o \in Object : MessageStep(o)) /\ UNCHANGED <<contextVars, socketVars, monitorVars>>
  \/ \E c \in CtxObject :
       \/ ContextMade(c) \/ ContextClosed(c) \/ ContextInterrupted(c)
       \/ \E how \in {"close", "destructor"} : ContextCloses(c, how)
       \/ \E d \in CtxObject : ContextMoved(c, d) \/ ContextAssigned(c, d)
  \/ \E s \in SockObject :
       \/ SocketClosed(s) \/ SocketDestroyed(s) \/ SocketTransfers(s) \/ Monitor(s)
       \/ \E c \in CtxObject : SocketMade(s, c)
       \/ \E r \in SockObject : SocketMoved(s, r) \/ SocketAssigned(s, r)
  \/ MonitorStep \/ Happens \/ Abort

Spec == Init /\ [][Next]_vars

(* The monitor's thread goes on, and zmq_ctx_destroy returns when it can.  *)
(* Of the program nothing is assumed: RpcWorker, for one, goes on after    *)
(* ETERM and keeps its socket.                                             *)
Fairness ==
  /\ WF_vars(MonitorStep)
  /\ \A c \in CtxObject : WF_vars(ContextClosed(c))

FairSpec == Spec /\ Fairness

-----------------------------------------------------------------------------
(* Properties                                                              *)

(* Every open socket belongs to one socket_t, or to the monitor, and every *)
(* socket_t that has a pointer has one to an open socket: none is closed   *)
(* twice and none is left open.  The same holds for contexts, except for   *)
(* those whose close a signal interrupted.                                 *)
OneOwner ==
  /\ \A p \in SockPtr :
       Cardinality({s \in SockObject : socket[s] = p}) + (IF own = p THEN 1 ELSE 0)
         = (IF p \in open THEN 1 ELSE 0)
  /\ \A p \in CtxPtr :
       LET owners == Cardinality({c \in CtxObject : context[c] = p}) IN
         /\ ctxstate[p] = "alive" => owners = 1
         /\ ctxstate[p] = "closing" => owners = 1 \/ (owners = 0 /\ Signals)
         /\ ctxstate[p] \in {"new", "gone"} => owners = 0

(* A callback gets an event and the address of the same event, unless a    *)
(* read was interrupted: the frames are never taken one off.               *)
EventsPaired ==
  mpc = "address" /\ ~disturbed =>
    /\ eventMsg[1] # "address"
    /\ stream # <<>> => Head(stream) = <<"address", eventMsg[2]>>

InUse(c) == \E s \in SockObject :
  socket[s] \in open /\ within[socket[s]] = context[c]

(* A monitor never keeps close() of a context from returning: once no      *)
(* socket_t has an open socket in the context, close() ends, whatever the  *)
(* monitor's thread was at when ETERM or the last event came.  (The two    *)
(* ways out of the loop in monitor(), both to zmq_close.)                  *)
MonitorLetsGo == \A c \in CtxObject :
  closing[c] # "no" /\ ~InUse(c) ~> closing[c] = "no"

=============================================================================
