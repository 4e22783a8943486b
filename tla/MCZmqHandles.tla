---------------------------- MODULE MCZmqHandles ----------------------------
(* Two message objects over two blocks; a context that may be moved to a   *)
(* second object; two socket objects over two sockets of libzmq, one of    *)
(* which may become the monitor's.  A behaviour looks either at messages,  *)
(* over one socket, or at contexts, sockets and monitors without messages. *)
EXTENDS ZmqHandles

VARIABLE focus

Focus ==
  /\ focus' = focus
  /\ IF focus = "messages"
     THEN /\ UNCHANGED <<closing, monitorVars>> /\ open \subseteq open'
          /\ Cardinality({c \in CtxObject : context'[c] # Absent}) <= 1
          /\ Cardinality({s \in SockObject : socket'[s] # Absent}) <= 1
          /\ Cardinality({p \in SockPtr : within'[p] # Absent}) <= 1
     ELSE UNCHANGED messageVars

MCInit == Init /\ focus \in {"messages", "handles"}

MCSpec ==
  /\ MCInit
  /\ [][Next /\ Focus]_<<vars, focus>>
  /\ Fairness

=============================================================================
