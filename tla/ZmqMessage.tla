------------------------------ MODULE ZmqMessage ------------------------------
(***************************************************************************)
(* zmq::message_t of the wrapper (src/include/zqrpc/zmq.hpp): objects that *)
(* own a zmq_msg_t, which in turn owns, alone or with others, a block of   *)
(* memory.  What is modelled is who holds which block: construction,       *)
(* moving, copying, rebuilding, destruction and the passing of a message   *)
(* to a socket and back, each with the exception in it.                    *)
(*                                                                         *)
(* A content small enough for the zmq_msg_t itself owns no block and is    *)
(* Empty here.  The build is the default one of src/CMakeLists.txt, where  *)
(* ZMQ_ASSERT ignores what a call returned.                                *)
(***************************************************************************)
EXTENDS Integers, Sequences, FiniteSets

CONSTANTS
  Object,     \* where a message_t may be constructed
  Data,       \* blocks of memory, each allocated once
  Absent,     \* no object is constructed here
  Closed,     \* an object whose zmq_msg_t is closed
  Empty,      \* an object that owns no block
  MaxQueue,   \* bound: messages that are sent and not received
  Memory      \* TRUE: an allocation or the copying of a content may fail

ASSUME MessageAssumption ==
  /\ Data \cap {Absent, Closed, Empty} = {}
  /\ Absent # Closed /\ Absent # Empty /\ Closed # Empty
  /\ IsFiniteSet(Object)
  /\ MaxQueue \in Nat /\ Memory \in BOOLEAN

VARIABLES
  msg,      \* the zmq_msg_t of each object
  refs,     \* libzmq: the count in each block
  queue,    \* what was sent and not received
  fresh,    \* blocks not allocated yet
  leaked,   \* history: blocks a constructor left by an exception still counts
  copied    \* history: blocks that were shared by copy

messageVars == <<msg, refs, queue, fresh, leaked, copied>>

MessageTypeOK ==
  /\ msg \in [Object -> Data \cup {Absent, Closed, Empty}]
  /\ refs \in [Data -> Nat] /\ queue \in Seq(Data \cup {Empty})
  /\ fresh \subseteq Data /\ leaked \subseteq Data /\ copied \subseteq Data

MessageInit ==
  /\ msg = [o \in Object |-> Absent] /\ refs = [d \in Data |-> 0]
  /\ queue = <<>> /\ fresh = Data /\ leaked = {} /\ copied = {}

-----------------------------------------------------------------------------
(* The calls of libzmq                                                     *)

(* zmq_msg_close, which fails for one that is closed.                      *)
Release(o) == [d \in Data |-> IF msg[o] = d THEN refs[d] - 1 ELSE refs[d]]

(* zmq_msg_init_size, and zmq_msg_init_data with the memory of the caller: *)
(* a block with one reference, or no memory.                               *)
Allocate(d) == d \in fresh /\ fresh' = fresh \ {d}

Constructed(o) == msg[o] # Absent

-----------------------------------------------------------------------------
(* Construction.  One that throws without having allocated changes         *)
(* nothing: no object is there and no destructor is called.                *)

MessageDefault(o) ==
  /\ ~Constructed(o)
  /\ msg' = [msg EXCEPT ![o] = Empty]
  /\ UNCHANGED <<refs, queue, fresh, leaked, copied>>

MessageSized(o) ==
  /\ ~Constructed(o)
  /\ \E d \in Data : /\ Allocate(d)
                     /\ msg' = [msg EXCEPT ![o] = d]
                     /\ refs' = [refs EXCEPT ![d] = 1]
  /\ UNCHANGED <<queue, leaked, copied>>

(* The memory is the caller's, and ffn_ is called when the last reference  *)
(* to it goes.                                                             *)
MessageOfData(o) == MessageSized(o)

(* When the iterators throw in std::copy the object is not constructed,    *)
(* and nobody closes its zmq_msg_t.                                        *)
CopyThrows(d) == Memory /\ Allocate(d) /\ leaked' = leaked \cup {d}
                        /\ refs' = [refs EXCEPT ![d] = 1]

MessageRange(o) ==
  /\ ~Constructed(o)
  /\ \/ MessageSized(o)
     \/ (\E d \in Data : CopyThrows(d)) /\ UNCHANGED <<msg, queue, copied>>

KeepsTheOther(o, rhs) ==
  /\ ~Constructed(o) /\ Constructed(rhs)
  /\ msg' = [msg EXCEPT ![o] = msg[rhs]]
  /\ UNCHANGED <<refs, queue, fresh, leaked, copied>>

SharesTheBlock(o, rhs) ==
  /\ ~Constructed(o) /\ Constructed(rhs)
  /\ msg' = [msg EXCEPT ![o] = msg[rhs]]
  /\ refs' = [d \in Data |-> IF msg[rhs] = d THEN refs[d] + 1 ELSE refs[d]]
  /\ UNCHANGED <<queue, fresh, leaked, copied>>

(* The bytes of the zmq_msg_t are taken over and the other one is made     *)
(* anew.                                                                   *)
MessageMoved(o, rhs) ==
  /\ ~Constructed(o) /\ Constructed(rhs)
  /\ msg' = [msg EXCEPT ![o] = msg[rhs], ![rhs] = Empty]
  /\ UNCHANGED <<refs, queue, fresh, leaked, copied>>

(* Assignment swaps: what was in the target lives on in the source.        *)
MoveAssign(o, rhs) ==
  /\ o # rhs /\ Constructed(o) /\ Constructed(rhs)
  /\ msg' = [msg EXCEPT ![o] = msg[rhs], ![rhs] = msg[o]]
  /\ UNCHANGED <<refs, queue, fresh, leaked, copied>>

Destroy(o) ==
  /\ Constructed(o)
  /\ refs' = Release(o) /\ msg' = [msg EXCEPT ![o] = Absent]
  /\ UNCHANGED <<queue, fresh, leaked, copied>>

-----------------------------------------------------------------------------
(* Rebuilding: close, which throws for a closed one, and initialise.       *)

Rebuild(o) ==
  /\ Constructed(o) /\ msg[o] # Closed
  /\ refs' = Release(o) /\ msg' = [msg EXCEPT ![o] = Empty]
  /\ UNCHANGED <<queue, fresh, leaked, copied>>

(* When there is no memory the exception leaves the object closed.         *)
RebuildSized(o) ==
  /\ Constructed(o) /\ msg[o] # Closed
  /\ \/ \E d \in Data : /\ Allocate(d)
                        /\ msg' = [msg EXCEPT ![o] = d]
                        /\ refs' = [Release(o) EXCEPT ![d] = 1]
     \/ /\ Memory /\ refs' = Release(o) /\ UNCHANGED fresh
        /\ msg' = [msg EXCEPT ![o] = Closed]
  /\ UNCHANGED <<queue, leaked, copied>>

RebuildOfData(o) == RebuildSized(o)

(* zmq_msg_move and zmq_msg_copy of another message close the target       *)
(* first; they fail if either is closed.                                   *)
Move(o, from) ==
  /\ o # from /\ {msg[o], msg[from]} \cap {Absent, Closed} = {}
  /\ refs' = Release(o)
  /\ msg' = [msg EXCEPT ![o] = msg[from], ![from] = Empty]
  /\ UNCHANGED <<queue, fresh, leaked, copied>>

Copy(o, from) ==
  /\ o # from /\ {msg[o], msg[from]} \cap {Absent, Closed} = {}
  /\ refs' = [d \in Data |-> IF msg[from] = d THEN Release(o)[d] + 1
                             ELSE Release(o)[d]]
  /\ msg' = [msg EXCEPT ![o] = msg[from]]
  /\ copied' = copied \cup ({msg[from]} \cap Data)
  /\ UNCHANGED <<queue, fresh, leaked>>

-----------------------------------------------------------------------------
(* socket_t::send and recv.  A send that fails, with EAGAIN or an          *)
(* exception, leaves the message as it was.                                *)

SendMessage(o) ==
  /\ msg[o] \notin {Absent, Closed} /\ Len(queue) < MaxQueue
  /\ queue' = Append(queue, msg[o])
  /\ msg' = [msg EXCEPT ![o] = Empty]
  /\ UNCHANGED <<refs, fresh, leaked, copied>>

(* A message that is made and destroyed in the call; so is that of a send  *)
(* from a buffer.                                                          *)
SendRange ==
  /\ \E d \in Data :
       \/ CopyThrows(d) /\ UNCHANGED queue
       \/ /\ Allocate(d) /\ Len(queue) < MaxQueue
          /\ queue' = Append(queue, d) /\ refs' = [refs EXCEPT ![d] = 1]
          /\ UNCHANGED leaked
       \/ Allocate(d) /\ UNCHANGED <<queue, refs, leaked>>   \* EAGAIN
  /\ UNCHANGED <<msg, copied>>

SendBuffer ==
  /\ Len(queue) < MaxQueue
  /\ \E d \in Data : /\ Allocate(d)
                     /\ queue' = Append(queue, d)
                     /\ refs' = [refs EXCEPT ![d] = 1]
  /\ UNCHANGED <<msg, leaked, copied>>

KeepsOldContent(o) ==
  /\ msg[o] \notin {Absent, Closed} /\ queue # <<>>
  /\ msg' = [msg EXCEPT ![o] = Head(queue)] /\ queue' = Tail(queue)
  /\ UNCHANGED <<refs, fresh, leaked, copied>>

(* The old content goes, whether there is a message or not.                *)
RecvMessage(o) ==
  /\ msg[o] \notin {Absent, Closed}
  /\ refs' = Release(o)
  /\ IF queue # <<>>
     THEN msg' = [msg EXCEPT ![o] = Head(queue)] /\ queue' = Tail(queue)
     ELSE msg' = [msg EXCEPT ![o] = Empty] /\ UNCHANGED queue
  /\ UNCHANGED <<fresh, leaked, copied>>

RecvBuffer ==
  /\ queue # <<>>
  /\ refs' = [d \in Data |-> IF Head(queue) = d THEN refs[d] - 1 ELSE refs[d]]
  /\ queue' = Tail(queue)
  /\ UNCHANGED <<msg, fresh, leaked, copied>>

-----------------------------------------------------------------------------
(* What a program does with its messages, and with sockets that are open.  *)
MessageStep(o) ==
  \/ MessageDefault(o) \/ MessageSized(o) \/ MessageOfData(o) \/ MessageRange(o)
  \/ Destroy(o) \/ Rebuild(o) \/ RebuildSized(o) \/ RebuildOfData(o)
  \/ \E p \in Object : MessageMoved(o, p) \/ MoveAssign(o, p) \/ Move(o, p) \/ Copy(o, p)

Transfer ==
  \/ \E o \in Object : SendMessage(o) \/ RecvMessage(o)
  \/ SendRange \/ SendBuffer \/ RecvBuffer

-----------------------------------------------------------------------------
(* Properties                                                              *)

(* The count in a block is exactly the number of objects and of messages   *)
(* in flight that hold it, and one for a constructor that threw: no block  *)
(* is freed twice or while it is held, and none is held by nobody.         *)
Accounted == \A d \in Data :
  refs[d] = Cardinality({o \in Object : msg[o] = d})
          + Cardinality({i \in DOMAIN queue : queue[i] = d})
          + (IF d \in leaked THEN 1 ELSE 0)

(* Two messages share a block only if copy() was called on one of them     *)
(* ("so that users won't use shared messages without being aware").        *)
Unshared == \A d \in Data : refs[d] > 1 => d \in copied

=============================================================================
