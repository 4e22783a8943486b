------------------------------- MODULE ZSocket -------------------------------
(***************************************************************************)
(* How ZSocket (src/include/zqrpc/ZSocket.hpp) sends and receives messages *)
(* frame by frame over the zmq.hpp wrapper: Send on one end of a           *)
(* connection, BlockingRecv or NonBlockingRecv on the other.               *)
(*                                                                         *)
(* The other modules take a message for one thing that arrives as it was   *)
(* sent or not at all.  Here it is a loop over frames, each with its own   *)
(* allocation, system call and exception, and libzmq in between, which     *)
(* passes on what was written once a frame without ZMQ_SNDMORE ends it.    *)
(***************************************************************************)
EXTENDS Integers, Sequences

CONSTANTS
  Message,      \* the messages that are sent
  size,         \* the number of frames of each
  HWM,          \* complete messages the connection holds
  SocketTypes,  \* types of the sender's socket: a subset of {"PUB", "DEALER"}
  MaxSent,      \* bound: calls of Send
  Fault         \* what may go wrong: a subset of Faults

(* A signal interrupts a call; there is no memory for a frame; the         *)
(* sender's socket is closed by another thread; the receiver's context is  *)
(* terminated.                                                             *)
Faults == {"signal", "memory", "close", "term"}

ASSUME SocketAssumption ==
  /\ size \in [Message -> Nat]
  /\ HWM \in Nat \ {0} /\ MaxSent \in Nat
  /\ SocketTypes \subseteq {"PUB", "DEALER"} /\ Fault \subseteq Faults

(* A zmq::message_t: which frame of which message, and its more() flag.    *)
Frame == [of : Message, part : Nat, more : BOOLEAN]
FrameOf(m, i) == [of |-> m, part |-> i, more |-> i # size[m]]
FramesOf(m)   == [i \in 1 .. size[m] |-> FrameOf(m, i)]

Result == [nth : Nat, frames : Seq(Frame)]

VARIABLES
  type,      \* of the sender's socket
  spc,       \* Send: "idle", "frame"
  msg,       \* its frames,
  fleft,     \*   and fleft
  partial,   \* frames in the connection whose message is not complete
  dropping,  \* a publisher is dropping the frames of a message
  pipe,      \* complete messages in the connection
  socket,    \* the sender's socket: "open", "closed"
  context,   \* of the receiver's socket: "up", "down"
  rpc,       \* the receiver: "idle", "blocking", "nonblocking"
  rest,      \* frames left of the message that was begun
  frames,    \* the local frames of the call
  calls,     \* number of calls of Send
  accepted,  \* history: messages that Send finished with and the connection
             \*   took, in order,
  returned,  \*   what the receiver returned, in order, and with which
             \*   message of accepted each result ended,
  hurt       \*   messages (by number) whose receive was left half way

sendVars == <<type, spc, msg, fleft, partial, dropping, socket, calls, accepted>>
recvVars == <<context, rpc, rest, frames, returned, hurt>>
vars     == <<sendVars, pipe, recvVars>>

TypeOK ==
  /\ type \in SocketTypes /\ dropping \in BOOLEAN
  /\ spc \in {"idle", "frame"} /\ msg \in Message /\ fleft \in Nat
  /\ partial \in Seq(Frame) /\ pipe \in Seq(Seq(Frame))
  /\ socket \in {"open", "closed"}
  /\ context \in {"up", "down"}
  /\ rpc \in {"idle", "blocking", "nonblocking"}
  /\ rest \in Seq(Frame) /\ frames \in Seq(Frame)
  /\ calls \in Nat
  /\ accepted \in Seq(Message) /\ returned \in Seq(Result)
  /\ hurt \subseteq Nat

Init ==
  /\ type \in SocketTypes /\ dropping = FALSE
  /\ spc = "idle" /\ msg \in Message /\ fleft = 0
  /\ partial = <<>> /\ pipe = <<>> /\ socket = "open"
  /\ context = "up" /\ rpc = "idle" /\ rest = <<>> /\ frames = <<>>
  /\ calls = 0 /\ accepted = <<>> /\ returned = <<>> /\ hurt = {}

-----------------------------------------------------------------------------
(* Send                                                                    *)

(* A message without frames is sent by doing nothing.                      *)
Send(m) ==
  /\ spc = "idle" /\ calls < MaxSent
  /\ calls' = calls + 1
  /\ msg' = m /\ fleft' = size[m]
  /\ spc' = IF size[m] = 0 THEN "idle" ELSE "frame"
  /\ UNCHANGED <<type, partial, dropping, pipe, socket, accepted, recvVars>>

Full == partial = <<>> /\ Len(pipe) >= HWM
Part == size[msg] - fleft + 1

FlagsByPosition == [of |-> msg, part |-> Part, more |-> Part # 1]

(* ZMQ_SNDMORE for all frames but the last.                                *)
ThisFrame == [of |-> msg, part |-> Part, more |-> fleft # 1]

CountsToZero ==
  /\ fleft' = fleft - 1
  /\ spc' = IF fleft = 0 THEN "idle" ELSE "frame"

(* The end of the loop's body.                                             *)
NextFrame ==
  /\ fleft' = fleft - 1
  /\ spc' = IF fleft = 1 THEN "idle" ELSE "frame"

(* What socket_t::send does with a frame: the connection gets the message  *)
(* with its last frame.                                                    *)
Write(f) ==
  IF f.more THEN partial' = Append(partial, f) /\ UNCHANGED <<pipe, accepted>>
  ELSE /\ partial' = <<>> /\ pipe' = Append(pipe, Append(partial, f))
       /\ accepted' = Append(accepted, msg)

SendFrame ==
  /\ spc = "frame" /\ socket = "open" /\ ~Full /\ ~dropping
  /\ Write(ThisFrame)
  /\ NextFrame
  /\ UNCHANGED <<type, msg, dropping, socket, calls, recvVars>>

(* A publisher does not wait for a subscriber.  Whether a message is       *)
(* dropped is decided at its first frame.                                  *)
SendDrops ==
  /\ spc = "frame" /\ socket = "open" /\ type = "PUB" /\ (Full \/ dropping)
  /\ dropping' = ThisFrame.more
  /\ NextFrame
  /\ UNCHANGED <<type, msg, partial, pipe, socket, calls, accepted, recvVars>>

SkipsTheFrame == NextFrame /\ UNCHANGED partial

(* zmq::error_t leaves Send: the socket is closed, zmq_msg_send was        *)
(* interrupted, or the message_t could not be made.  The frames already    *)
(* written stay where they are.                                            *)
Abandon == spc' = "idle" /\ UNCHANGED <<fleft, partial>>

SendThrows ==
  /\ spc = "frame"
  /\ socket = "closed" \/ Fault \cap {"memory", "signal"} # {}
  /\ Abandon
  /\ UNCHANGED <<type, msg, pipe, dropping, socket, calls, accepted, recvVars>>

(* socket_t::close; what is complete is still delivered.                   *)
SocketCloses ==
  /\ "close" \in Fault /\ socket = "open"
  /\ socket' = "closed" /\ partial' = <<>>
  /\ UNCHANGED <<type, spc, msg, fleft, dropping, pipe, calls, accepted, recvVars>>

-----------------------------------------------------------------------------
(* BlockingRecv and NonBlockingRecv                                        *)

Recv(how) ==
  /\ rpc = "idle"
  /\ rpc' = how /\ frames' = <<>>
  /\ UNCHANGED <<sendVars, pipe, context, rest, returned, hurt>>

Arrived == rest # <<>> \/ pipe # <<>>

(* The next frame, and what is left of its message after it.               *)
Incoming == IF rest # <<>> THEN rest ELSE Head(pipe)

Take ==
  /\ rest' = Tail(Incoming)
  /\ pipe' = IF rest # <<>> THEN pipe ELSE Tail(pipe)
  /\ UNCHANGED <<sendVars, context>>

(* The number of the message that was last begun.                          *)
Taken == Len(accepted) - Len(pipe)

Return(fs) ==
  /\ rpc' = "idle" /\ frames' = <<>>
  /\ returned' = Append(returned, [nth |-> Taken', frames |-> fs])

GoOn(fs) == frames' = fs /\ UNCHANGED <<rpc, returned>>

ReturnsLate(f) ==
  IF frames = <<>> \/ frames[Len(frames)].more THEN GoOn(Append(frames, f))
  ELSE Return(Append(frames, f))

(* The loop goes on while msg.more().                                      *)
Gather(f) == IF f.more THEN GoOn(Append(frames, f)) ELSE Return(Append(frames, f))

RecvFrame ==
  /\ rpc # "idle" /\ context = "up" /\ Arrived
  /\ Take
  /\ Gather(Head(Incoming))
  /\ UNCHANGED hurt

(* The frame is there, but no memory for its string: it is gone, and so is *)
(* what was gathered.                                                      *)
RecvFails ==
  /\ "memory" \in Fault
  /\ rpc # "idle" /\ context = "up" /\ Arrived
  /\ Take
  /\ rpc' = "idle" /\ frames' = <<>>
  /\ hurt' = hurt \cup {Taken'}
  /\ UNCHANGED returned

(* RetryException, or zmq::error_t after a signal or with a terminated     *)
(* context.  What was gathered is gone; what is left of the message stays. *)
RecvThrows ==
  /\ rpc # "idle"
  /\ \/ ~Arrived /\ rpc = "nonblocking"
     \/ "signal" \in Fault \/ context = "down"
  /\ rpc' = "idle" /\ frames' = <<>>
  /\ hurt' = hurt \cup IF frames # <<>> THEN {Taken} ELSE {}
  /\ UNCHANGED <<sendVars, pipe, context, rest, returned>>

(* The receiver's socket learns that its context is terminated.            *)
ContextTerminated ==
  /\ "term" \in Fault /\ context = "up"
  /\ context' = "down"
  /\ UNCHANGED <<sendVars, pipe, rpc, rest, frames, returned, hurt>>

-----------------------------------------------------------------------------
(* Any program that goes on after an exception, as the worker and the      *)
(* programs in src/simple do.                                              *)
Sends    == \E m \in Message : Send(m)
Receives == Recv("blocking") \/ Recv("nonblocking")

Next ==
  \/ Sends \/ SendFrame \/ SendDrops \/ SendThrows \/ SocketCloses
  \/ Receives \/ RecvFrame \/ RecvFails \/ RecvThrows \/ ContextTerminated

Spec == Init /\ [][Next]_vars

(* The receiver receives again and again, and not every time does a signal *)
(* come before the next frame.                                             *)
FairSpec == Spec /\ WF_vars(Recv("blocking")) /\ SF_vars(RecvFrame)

-----------------------------------------------------------------------------
(* Properties                                                              *)

EndsWith(s, t) ==
  /\ Len(s) >= Len(t)
  /\ \A i \in 1 .. Len(t) : s[Len(s) - Len(t) + i] = t[i]

(* A message whose Send was left half way is not sent, but its frames get  *)
(* in front of the next message; one whose receive was left half way is    *)
(* returned without its first frames, or not at all.  Nothing worse        *)
(* happens: every message that was begun is returned at the end of a       *)
(* result of its own, in the order of the Sends.                           *)
NoneLost ==
  /\ \A i, j \in 1 .. Len(returned) : i < j => returned[i].nth < returned[j].nth
  /\ \A i \in 1 .. Len(returned) :
       LET n == returned[i].nth
           m == FramesOf(accepted[n])
       IN  \/ EndsWith(returned[i].frames, m)
           \/ n \in hurt /\ EndsWith(m, returned[i].frames)
  /\ \A n \in 1 .. Taken :
       \/ \E i \in 1 .. Len(returned) : returned[i].nth = n
       \/ n \in hurt
       \/ n = Taken /\ rest # <<>>

(* So a program whose messages all have the same number of frames, and     *)
(* that skips those with another number, never takes a damaged message for *)
(* a good one, whichever of the two ends did the damage.  (The checks for  *)
(* four and five frames in ZRecvMethod and RpcWorker.)                     *)
CountTellsDamage ==
  (\A m, n \in Message : size[m] = size[n]) =>
    \A i \in 1 .. Len(returned) : \A m \in Message :
      Len(returned[i].frames) = size[m] =>
        returned[i].frames = FramesOf(accepted[returned[i].nth])

(* A receive that has begun a message finds all of its frames: only        *)
(* between messages does it wait, or give up with RetryException.          *)
NeverInBetween == rpc # "idle" /\ frames # <<>> => rest # <<>>

(* What was accepted is returned in the end, unless its receive was left   *)
(* half way or the receiver's context is gone.                             *)
Delivered == \A k \in 1 .. MaxSent :
  Len(accepted) >= k ~> \/ \E i \in 1 .. Len(returned) : returned[i].nth = k
                        \/ k \in hurt \/ context = "down"

=============================================================================
