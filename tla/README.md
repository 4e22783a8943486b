# zqrpc in TLA+

A verification project for zqrpc, a small RPC transport for Protocol Buffers
over ZeroMQ. The modules here model the client channel and the server, as they
are in `src/src`, the transport and the ZeroMQ wrapper below them
(`src/include/zqrpc`), and what the protoc plugin generates above them
(`src/plugin`).

## The system

| part | source | state | operations |
|---|---|---|---|
| `RpcChannel` | `src/src/RpcChannel.cc` | `nextreply_`, `replylist_` (request number -> controller pointer), a DEALER socket | `ZSendMethod`, `ZRecvMethod`, `Close` |
| `ZController` | `src/include/zqrpc/ZController.hpp` | `rcode_`, `zerror_`, `payload_` | owned by the caller; `ok()` |
| `RpcServer` | `src/src/RpcServer.cc` | `started_`, `threads_`, method map, endpoints, frontend / backend / control sockets | `EndPoint`, `RegisterService`, `RemoveService`, `Start`, `Close`, destructor |
| `RpcWorker` | `src/src/RpcWorker.cc` | a copy of the method map, a DEALER socket | the thread function |
| `RpcMethod`, the method map | `src/src/RpcServer.cc`, `RpcMethod.hpp` | `rpc_method_map_`, a copy of it in each worker, the `RpcMethod` objects | `RegisterService`, `RemoveService`, lookup and `CallMethod` |
| `ZSocket` | `src/include/zqrpc/ZSocket.hpp` | the socket | `Send`, `BlockingRecv`, `NonBlockingRecv`, `Poll`, `unbind`, `close`; errors become exceptions |
| `zmq.hpp` | `src/include/zqrpc/zmq.hpp` | one message, context or socket of libzmq for each object | construction, moving, copying, rebuilding, destruction; the monitor's thread |
| protoc plugin | `src/plugin` | none | generates stubs and dispatch code for a .proto file |

How they interact. A client thread sends requests with `ZSendMethod`, each with
the next number, and remembers the caller's controller under that number. Later
it collects them with `ZRecvMethod`, in any order; one call takes in whatever
has arrived, also for other controllers, until its own controller has its
result or its time is up. On the server `Start` binds the sockets, spawns the
workers, and runs `zmq_proxy_steerable` in its own thread: requests from the
ROUTER frontend go to the workers through the DEALER backend, which takes turns
among the connected ones; replies go back the same way. `Close` is called by
another thread while `Start` is running, and again by the destructor. It unbinds
the endpoints, sends one TERMINATE for each worker *into the frontend*, joins
the workers, sends TERMINATE to the proxy's control socket and closes the
sockets.

What is hard: replies that are late, lost, out of order or not replies at all,
against a list of raw pointers; exceptions that leave `ZRecvMethod` half way;
the deadline of a call that polls many times; identities that two channels
share, and numbers that every channel counts from one; TERMINATE messages that
compete with requests and with workers that come and go; two threads in `Close`,
a `Start` or a `Close` that an exception leaves half way, and servers of one
process that use the same inproc names; messages torn between two frames;
pointers to deleted methods in a map that was copied; and owners of ZeroMQ
handles that are moved, swapped and destroyed in any order. `PROJECT.json` lists
these hazards, each at its line, with the properties that are about it.

## Modules

| module | what it is |
|---|---|
| `RpcChannel` | one channel, its controllers, the socket's queue and a peer |
| `RpcServer` | `Start`, `Close`, the proxy, the workers and the clients' requests |
| `RpcCall` | the abstract specification: what a remote call promises |
| `RpcSystem` | the composition: many channels, the ROUTER and the workers |
| `RpcSetup` | endpoints, repeated and failed `Start` and `Close`, several servers, the context |
| `ZSocket` | `Send` and the two receives, frame by frame |
| `Plugin` | the code generator as functions of a .proto file |
| `Dispatch` | generated classes, method map, copies and calls; uses `Plugin` |
| `ZmqMessage` | `zmq::message_t` as an owner of memory |
| `ZmqHandles` | `context_t`, `socket_t`, `monitor_t`; extends `ZmqMessage` |
| `MC...` | the instances of a module for TLC |
| `...Proofs` | theorems about a module, checked by TLAPS |

Each module takes one view of the system and says in its head what it leaves to
the others. `RpcChannel` assumes of its peer what `RpcSystem` shows
(`PeerAssumption`). `RpcSystem` and `RpcServer` take a message for one thing that
arrives whole or not at all, which `ZSocket` looks into. `RpcServer` knows of one
server whose addresses are its own, which `RpcSetup` shows (`WorkersAtHome`).

Some operators are not used by the specification: each is a variant of the
definition that follows it, with a mistake that would be easy to make in that
code (`StartedAtOnce` before `Start`, `ForgetsJoin` before `CloseStops`,
`SwapsFrames` before `ReplyTo`, `FlagsByPosition` before `ThisFrame`,
`KeepsUnderscore` before `FilenameIdentifier`, and so on). Put in the place of
that definition, each makes one of the properties fail; `PROJECT.json` says which
("mutants"). They are there to show that no property holds for want of behaviour.

### RpcChannel

The application thread is at `pc`: `"idle"` outside the channel, `"send"` inside
`socket_.Send`, and inside `ZRecvMethod` at the head of the loop (`"loop"`), in
`Poll` (`"poll"`), at `NonBlockingRecv` (`"recv"`) or behind the loop
(`"return"`). `con`, `timeout`, `elapsed` (`mstime() - start`), `toget` are the
locals of the call. The branches of the code are actions:

* `SerializeFails`, `ZSendMethod`, `SendAccepted`, `SendFails`: the number is
  taken before `Send`, the controller is put on the list after it. `SerializeFails`
  is every failure before the number is taken; in `SendFails` memory may also run
  out behind `Send`, with the request on its way.
* `ZRecvMethod`, `LoopEnds` (the first two `break`s), `LoopPolls`, `LoopDrains`,
  `PollReadable`, `PollExpires` (the third `break`), `RecvRetries`
  (`RetryException`), `RecvIgnores` (the `continue`s), `RecvDelivers`,
  `RecvReturns`.
* `PollThrows`, `RecvThrows`, `RecvRejects`: exceptions that leave the call.
  `RecvRejects` stands for `lexical_cast` on an ID that is no number and for
  `frames.at(4)`, which throws for every error reply.
* `RecvFails`: a receive on an open socket may throw too (ETERM, no memory); the
  message then stays, is gone, or leaves its last frames to be read next. The
  constant `Failures` allows it.
* `NewController`, `DestroyController`, `Close` (a `disconnect` that throws, and
  so leaves the socket open, is a stutter).

The peer (`PeerReplies`, `PeerLoses`, `ForeignArrives`) answers requests in any
order, late, with an error code, or never. With `Foreign` it also sends frames
that answer nothing: malformed ones, numbers never given out, numbers answered
before. It never forges the number of a request that is open; no check in the
channel could tell such a reply from the right one. `Tick` lets time pass: `Poll`
measures it with a steady clock, `mstime()` with the wall clock, which moves by any
`ClockStep`.

Data: a request is its number, a reply's payload the number of the request it
answers. `issued` is a history variable. `ZController::reqno_` is left out: it
is assigned once and never read. Response parsing is left out: the result of
`ParseFromString` is ignored by the code. `AbandonPending` says whether the
application may use a controller again, or destroy it, while its request is
outstanding; the code does not stop it, and a controller used again after a
timeout then gets the reply to its old request.

### RpcServer

`startPc` is where the thread in `Start` is (`"new"`, `"spawn"`, `"proxy"`,
`"ended"`); `closePc` where each caller of `Close` is: the thread that stops the
server and the destructor; `wpc` where each worker is. After an abnormal end of
the process (`Crash`) all of them are `"crashed"`.

* `Start`: `StartBinds`, `StartBindFails`, `StartSpawns`, `ProxyStart`; the proxy
  ends by `ProxyTerminates` or `ProxyFails` (EINTR, closed socket).
* `Close`: `CloseBegins`, `CloseUnbinds` / `CloseUnbindThrows`, `WorkerStop`,
  `CloseJoins`, `ProxyStop`, `CloseSockets`. Closing the sockets under a running
  proxy is undefined, so there the process may crash or the proxy may fail.
* a worker: `WorkerConnects`, `WorkerReceives` (TERMINATE ends the loop),
  `WorkerDiscards` (not five frames), `WorkerRejects` (no such method, does not
  parse), `WorkerCalls`, `WorkerReplies`, `WorkerSendFails`, `WorkerLeaves`.
  What a service throws is either caught by the worker's loop, which goes on
  without a reply (`CallAbandoned`: `zmq::error_t`, `RetryException`,
  `ExitException`), or ends the process (`ServiceThrows`); a `ZError` becomes a reply
  with an error code (`WorkerCalls`).

External, modelled from how libzmq behaves towards this code: the proxy's
forwarding; the DEALER's load balancer, with the array it keeps its pipes in
(`GiveToWorker`, `NoticeGone`: a pipe that goes is overwritten by the last one,
and the turn starts over if it was the last one's), because the stop protocol
depends on it; what a worker has not read when it closes its socket is lost, what
it has sent is not. The frontend keeps order per client only, so requests that
wait there are a set.

`Caution` is what the application takes care of: `"serving"`, it stops the
server only once the proxy runs and all workers are connected; `"quiet"`, only
when no request waits, and clients then stop; `"wait"`, it destroys the server
only after that `Close` has returned. `Fault` is what may go wrong. `Close` is
never called before all threads are spawned: `threads_` is an unprotected
vector. Left to other modules: `EndPoint`, repeated `Start`, several servers and
the context (`RpcSetup`), clients that come and go (`RpcSystem`), the method map
(`Dispatch`), the frames (`ZSocket`). Not modelled: high-water marks between
proxy and workers.

### RpcSystem and RpcCall

Channels (`chan`, `nextreply`, `replylist`, `result`), the ROUTER's table
(`route`: which channel has an identity; `refused`: whose identity was in use),
the ways between them (`up`, `work`, `back`, `down`) and the workers' `job`.
A channel's identity is the id of the thread that creates it (`creator`), a
request's number is its channel's own, and the data of a message is the call it
belongs to, so a result can be told from that of another call with the same
number and identity.

* channel: `OpenChannel`, `ZSendMethod`, `ZRecvMethod` (skips what is not on the
  list, error replies throw), `CloseChannel`.
* ROUTER, external: `Attach` (a peer whose identity is in use is not taken),
  `Detach`, `ForwardRequest`, `ForwardReply` (dropped if nobody has the
  identity).
* worker: `WorkerTakes`, `WorkerAnswers`, `WorkerRejects`, `WorkerAbandons` (the
  service throws what the loop catches).
* faults: `ConnectionBreaks`, `ServerRestarts`.

`Reuse` says when a thread that has created channels may create the next one:
`"any"` time, when it has `"closed"` them, or (`"quiet"`) when, besides, none of
their requests and replies is on its way any more. The difference between the last
two matters: the late reply to an open request of a closed channel goes to the
thread's next channel. Nothing in the code waits for that. What is checked and proved
under `"quiet"`, about lost connections, restarts and calls without replies, holds for
programs with one channel per thread, or with channels that far apart; the run
`system_identity` shows what happens to the others.

`RpcCall` is what is left for a caller: a call is made, executed at most once, and
answered at most once, with its own result and after its execution. `RpcSystem`
implements it under the mapping

    runs  <- executed
    phase <- "answered" if result[c] = c, "called" if nextreply >= its number,
             "none" otherwise

so sending is `MakeCall`, what a worker does with a request is `Execute` if it calls
the service (`WorkerAnswers`, `WorkerAbandons`, and `WorkerRejects` for a `ZError` of
the service), taking the reply in is `GetResult`, and everything else (forwarding,
losing, restarting, rejecting) is a stutter. Nothing in `RpcCall` promises a result: a request that is lost is
never sent again by this code.

### RpcSetup

Several servers, each with its `suffix`. `rpc_bind_vec`, `pos` and `startPc` or
`closePc` are the loops of `Start` and `Close`; `held` says which server has
bound an address, where a tcp address has one holder in the system and an inproc
address one in the context. The three inproc addresses of a server depend only
on its suffix.

* `EndPoint`; `Start`, `StartBinds`, `StartBindThrows` (what was bound stays
  bound), `StartSpawns`, `ProxyEnds`, `ProxyInterrupted`.
* `Close`, `CloseUnbinds` (inproc addresses are left alone, as
  `ZSocket::unbind` does), `CloseThrows`, `CloseUnbound` (only now is `started_`
  reset), `CloseStops` (`WorkerStop`, joins and `ProxyStop`, which
  `RpcServer` has in detail), `CloseSockets`, `Destroyed`.
* `CloseContext`, `ContextCloses`.

The application may call all of these in any order, and several of its orders
are ones the code does not provide for. They are not excluded: `misuse` records
them (`"endpoint"`: `EndPoint` after `Start`; `"close"`: `Close` while another
thread binds; `"context"`: the context is closed before its servers), the model
does what the code then does, and the properties say which misuse they
tolerate.

### ZSocket

One sender and one receiver. `msg`, `fleft` and `spc` are the loop of `Send`, with
an exception possible at every frame; `rpc`, `frames` and `rest` the loop of
`BlockingRecv` and `NonBlockingRecv`, where each frame may end in one as well:
`RetryException`, a signal or a terminated `context` before the frame is taken
(`RecvThrows`), no memory for it behind that (`RecvFails`). In between libzmq, external: frames stay in
`partial` until one without ZMQ_SNDMORE comes, then the whole goes into `pipe`. A
PUB socket drops a message when the pipe is full, deciding at its first frame; a
DEALER waits. `accepted`, `returned` and `hurt` (whose receive was left half way)
are histories. A Send that throws between two frames leaves what it has written in
the socket, in front of the next message; a receive that throws between two leaves
the rest of its message to the next receive. The model has both, and the properties
say what is left of it for a receiver.

### Plugin and Dispatch

`Plugin` holds the functions that turn a .proto file (a record) into what is
generated: names and identifiers (`StripProto`, `FilenameIdentifier`,
`ClassName`), the header, the source, and the tables of a service, each an
operator with the generator function's name. Names are sequences of characters
where two different names can meet in one identifier, and of words elsewhere.

`Dispatch` runs them. `RunPlugin` writes the files of a program; `RegisterService`,
`RemoveService` and `Start` change `rpc_method_map` (from full names to places in
`heap`), `freed`, `removed` and the worker's `copy`; `RemoveService` takes one of the
registered objects, but finds `RpcMethod`s by the names of its class; `StubSend` sends what the stub's table
says, and `WorkerServes` looks it up (`NoSuchMethod`, `UsesFreed`, `CallMethod`).
Using or deleting a deleted `RpcMethod` is undefined and recorded in `undefined`,
after which nothing more is said.

### ZmqMessage and ZmqHandles

`msg[o]` is the `zmq_msg_t` in an object, `refs` libzmq's count in each block of
memory. There is one action for each constructor, assignment, `rebuild`, `move`,
`copy`, the destructor, and sending and receiving, with the exceptions in them.
The build is the default one, which defines NDEBUG, so that `ZMQ_ASSERT` looks at
nothing. `ZmqHandles` adds the contexts and sockets (`context`, `socket`, their
state in libzmq `ctxstate`, `within`, `open`) and the thread in
`monitor_t::monitor` (`mpc`, `own`, `stream`, `eventMsg`), which reads two frames
for each event. A signal may interrupt any call that blocks. zqrpc itself neither
moves or swaps these objects nor uses a monitor: that part of the two modules is about
what the wrapper promises to any program that includes it.

## What the runs check

| run | instance | distinct states | result |
|---|---|---|---|
| `channel` | 2 controllers, 2 requests, 2 queued frames, foreign frames, success and error replies, receives that fail, timeouts default and short | 6.1 M | `TypeOK`, `ReplylistExact`, `FreshReply`, `NeverLate`, `NeverEarly`, `CompletedByOwnReply` hold |
| `channel_flood` | 1 controller, 1 request, endless foreign frames, a clock that jumps ahead | 31 k | `RecvTerminates` holds |
| `server` | 2 workers, 2 requests, inproc clients, no caution, all faults | 320 k | `TypeOK`, `NothingLost`, `AtMostOnce` hold |
| `server_graceful` | 2 workers, 2 requests, all cautions, services that throw what the worker's loop catches | 63 k | `NothingLost`, `StopForEach`, `ClosedAfterWorkers`, `CloseReturns`, `EventuallyHandled` hold |
| `setup` | 2 servers with one suffix, a tcp and an inproc url, two endpoints for one server, failing binds, signals | 238 k | `TypeOK`, `WorkersAtHome`, `CloseUnbindsItsOwn`, `ContextEnds` hold |
| `transport` | 2 messages of 3 frames, 3 Sends, a pipe of one message, PUB and DEALER, signals, no memory, closed socket, terminated context | 176 k | `TypeOK`, `NoneLost`, `CountTellsDamage`, `NeverInBetween`, `Delivered` hold |
| `system` | 3 channels, two of one thread (`Reuse = "quiet"`), 4 calls, 1 worker, broken connections, restarts, services that throw | 152 k | `TypeOK`, `OwnResult`, `PeerAssumption`, `CallsRefined`, `EveryCallEnds` hold |
| `dispatch` | 4 programs from 5 .proto files, 2 objects, 2 calls, 2 removals | 31 k | `Builds`, `NoClash`, `RightMethod`, `FirstServes`, `RemovedByClass` hold |
| `handles` | 2 messages over 2 blocks; 2 context objects over 1 context, 2 socket objects over 2 sockets, 1 monitor, signals | 141 k | `TypeOK`, `Accounted`, `Unshared`, `OneOwner`, `EventsPaired`, `MonitorLetsGo` hold |
| `channel_error_reply` | 1 controller, 1 request | | `ErrorReported` fails: an error reply throws `std::out_of_range` |
| `server_busy_close` | 2 workers, 1 request, not quiet | | `CloseReturns` fails: a request takes a turn and one worker gets both TERMINATEs |
| `system_identity` | as `system`, without faults, and a thread only closes a channel before it creates the next (`Reuse = "closed"`) | | `OwnResult` fails: a late reply goes to the thread's next channel |

What the properties say:

* channel: the list and the controllers agree, and an `ok()` controller holds the
  reply to its last request (`ReplylistExact`, `FreshReply`,
  `CompletedByOwnReply`); a call gives up at its deadline, neither before nor long
  after (`NeverEarly`, `NeverLate`), and comes back even if frames never cease
  (`RecvTerminates`).
* server: before `Close`, and in a careful one, a request is always somewhere, or
  a worker is done with it, with a reply or without (`NothingLost`; replies that wait
  when the proxy is stopped are not covered); none is executed or answered twice (`AtMostOnce`); a careful
  `Close` has a TERMINATE for each of two workers (`StopForEach`), closes the
  sockets after the workers ended (`ClosedAfterWorkers`), returns
  (`CloseReturns`), and requests are dealt with (`EventuallyHandled`).
* setup: while workers run, their server holds the addresses they connect to
  (`WorkersAtHome`); `Close` unbinds only what its server has bound
  (`CloseUnbindsItsOwn`), so it is not left half way; the context goes
  (`ContextEnds`).
* transport: whatever is torn, each message comes at the end of a result of its
  own, or an end of it does if its own receive was left half way (`NoneLost`); the
  number of frames tells a damaged one (`CountTellsDamage`:
  what the checks for four and five frames in `ZRecvMethod` and `RpcWorker` rely
  on); a receive never finds a message to stop in the middle (`NeverInBetween`: it
  neither waits there nor gives up with `RetryException`); and what was accepted comes
  (`Delivered`).
* system: results are a call's own, if channels of one thread are far enough apart
  (`OwnResult`), the peer is what `RpcChannel` takes it for (`PeerAssumption`), the abstract specification is implemented
  (`CallsRefined`), and no request is forgotten (`EveryCallEnds`).
* dispatch: what is generated fits together (`Builds`, `NoClash`); a call executes
  its own method with its own types (`RightMethod`) in the first object
  registered (`FirstServes`); a removal deletes the `RpcMethod`s of the first object of
  the class, whichever object of it it was called for, so calls use no deleted `RpcMethod`
  as long as no object of their class is removed (`RemovedByClass`).
* handles: counts are exact (`Accounted`), only copies share (`Unshared`), each
  handle has one owner (`OneOwner`), an event's frames belong together
  (`EventsPaired`), and a monitor does not keep a context from closing
  (`MonitorLetsGo`).

Why the bounds are enough. Two controllers and two requests give a reply taken in
by the call for another controller, a controller used again, a number used up by
a failed send, and a queue with a reply behind a foreign frame. Two units of time
tell apart expired, just expired and not expired. Two workers are the least with
which a TERMINATE can go wrong, and two requests give one on each worker, and one
behind the other. Two servers with one suffix compete for every inproc address,
and the two endpoints of one of them may be the same url twice; a url that two
servers share is left to the theorems. Three frames are a first, a middle and a last
one, and with three Sends a message follows one that followed a torn one. Two channels of one
thread and one of another give an identity used again and one that is not.
Dispatch needs two services in a file for a wrong descriptor index, two methods
for a wrong method index, two objects for a doubled opcode, and two removals for a
second deletion. Two objects are enough
to move, swap and share; `MCZmqHandles` looks at messages or at handles in one
behaviour (`focus`), since no code touches both. For what is proved, the theorems
below lift the bounds altogether.

Runs of `RpcServer`, `RpcSystem`, `RpcSetup`, `ZSocket`, `Dispatch` and
`ZmqHandles` do not check for deadlock: a server that was closed, a program that
has made all its calls, a socket of a program that sends no more have nothing
left to do. What must not hang is stated as a liveness property.

Fairness, weak but for one action, and never on what the application decides or on a
fault:

* `RpcChannel!FairSpec`: the thread inside `ZRecvMethod` keeps running and time
  passes; nothing is assumed of `send` (which may block) or of the peer.
* `RpcServer!FairSpec`: each thread goes on, that is `Start`, each worker (so a
  service's `CallMethod` returns) and each caller of `Close`, and so does each of
  the proxy's sources, since `zmq_poll` and the fair queue of a ROUTER serve all.
* `RpcSetup!FairSpec`: each thread in `Start` or `Close` goes on.
* `RpcSystem!FairSpec`: connections are made, the ROUTER and the workers go on, and
  a client takes in what has arrived.
* `ZSocket!FairSpec`: the receiver receives again and again, as the worker and the
  subscriber do, and not every time does a signal come before the next frame (strong
  fairness of `RecvFrame`).
* `ZmqHandles!FairSpec`: the monitor's thread goes on, and `zmq_ctx_destroy` returns
  when nothing is open in the context. Of the program nothing is assumed; a
  `RpcWorker`, for one, goes on after ETERM and keeps its socket.

## What is proved

Eight modules of theorems, for every value of the constants that satisfies the
module's assumptions. Every safety property of the passing runs is a theorem, under
the conditions named here; none bounds the size of an instance but that of
`StopForEach`, which is for at most two workers. The properties are not inductive as
they stand: each proof has an invariant of its own that says what holds between
the steps.

`RpcChannelProofs` (`ElapsedAssumption` says only that the range in which time is
told apart goes beyond every timeout):

* `RepliesRight`: `ReplylistExact` and `FreshReply`, if `~AbandonPending`. The
  invariant `ChannelInv` says that every entry of `replylist_` is the *last*
  request of a live WORKING controller (`Entries`) and vice versa (`Working`),
  that a waiting frame which would be accepted carries the answer to its request
  (`Answers`), that only numbers given out are on the way (`Numbers`), and that
  the number of a request being sent is nowhere in use yet (`Sending`). The last
  two keep a foreign frame with an old number from turning into an accepted one
  when the list grows: numbers are never given out twice.
* `RequestsEndByReply`: `CompletedByOwnReply`, from the same invariant.
* `DeadlinesKept`: `NeverLate` and `NeverEarly` with a steady wall clock
  (`ClockStep = {1}`); in `Poll`, the time passed and the time left make up the
  timeout (`DeadlineInv`).

`RpcServerProofs`, for any number of workers and requests and every fault:

* `ClosesAfterWorkers`: `ClosedAfterWorkers` if the cautions "serving" and "wait"
  are taken. `CloseInv` says what has happened before each step of `Close`, for
  two callers: a closer behind the joins has all threads behind it.
* `ExecutedAndAnsweredOnce`: `AtMostOnce`, with no caution. `OnceInv` follows a
  request through the server: while it waits it was never executed
  (`WaitingOnce`); it is in one pipe and once there (`PipedOnce`), at one worker
  (`WorkedOnOnce`), in one queue of replies (`RepliedOnce`), never in two of these
  places, and the counts are those of its place (`CountedOnce`).
* `NoRequestLost`: `NothingLost`, with services that throw anything. A pipe that goes takes with it what the worker
  has not read, so the proof needs that workers leave only after a TERMINATE
  (`LifeInv`), that TERMINATEs exist only after `Close` began and, in a quiet
  `Close`, come behind all requests of their pipe (`StopInv`), which threads are
  there (`SpawnInv`), and then that every request sent is in one of its places
  or is recorded (`LocatedInv`).
* `TerminateForEach`: `StopForEach` with the cautions "serving" and "quiet" and at
  most two workers, with every fault. The load balancer holds every connected
  worker once (`BalancerInv`); when TERMINATEs are given out all workers are
  connected, and once one of them has its own the turn is that of the one that has
  none (`TurnInv`, in `ServingInv`). Forwarding a TERMINATE passes the turn to the
  other worker, and so does the loss of a pipe, which leaves only the other one. For
  three workers the second step fails: the pipe that is lost is overwritten by the
  last one, and the turn may pass to a worker that has its TERMINATE.

`RpcSystemProofs`, with `Exclusive`, which is `Reuse = "quiet"` or that all channels
have identities of their own (one channel per thread):

* `OwnResults`, `PeerAssured`: the invariant `IInv` says that a message on its way
  carries the identity and number of its call, that each call has at most one
  message anywhere, and that of the channels of one identity only one is open or has
  messages on the way (`Alone`). Then a reply's identity and number
  determine its call.
* `Implements`: `Spec => CallsRefined`: initial states map to initial states, and
  every step to one of `RpcCall`'s or to a stutter, from the same invariant.

`RpcSetupProofs`:

* `StayAtHome`: `WorkersAtHome`. `HomeInv`: a server that has started, has workers or
  is about to stop them has its sockets open and holds its three addresses
  (`Homely`, `AtHome`), and a `Start` in progress holds those it is past, under the
  condition of `WorkersAtHome` (no misuse "close" or "context"). That
  `Start` can be called again is harmless because the second one fails to bind.
* `UnbindsItsOwn`: `CloseUnbindsItsOwn`. `OwnedInv`: the urls of a started server are
  different from each other and all bound by it (`Once`, `Bound`); a url given twice, or
  held by another server, keeps `Start` from ever setting `started_`.

`ZSocketProofs`, for messages of any sizes and every fault:

* `MessagesKept`, `CountTells`, `WholeMessages`: `Joined(N, f, r, m)` says that the
  frames of `f` and those of `r` behind them end with all frames of `m`, or, with `Int`
  for `N`, only with the last of them: that is the `Room` there is for a message whose
  receive was left half way. `SendInv` says that the frames in the socket end with those of the message being
  sent that are written already; `PipeInv` that the pipe holds the accepted
  messages behind those returned, each `Joined` and `Whole` (only its last frame
  has no `more()`); `RecvInv` that what was received and what is left are `Joined`
  to the one being received; `ReturnInv` that every result is to its own; `OrderInv`
  that results come in the order of the Sends, and none is missing but of hurt messages.

`ZmqMessageProofs` (lemmas) and `ZmqHandlesProofs`, for finite sets of objects and any
number of blocks, handles and events:

* `BlocksAccounted`, `OnlyCopyShares`: `Accounted` and `Unshared`. `MessageInv` adds
  that a fresh block has no count. Every constructor, assignment and method changes
  what one object holds, or two of them, so the lemmas say by how much the number of
  holders of a block changes with one object (`OneHolder`) and with the queue
  (`QueuedAppend`, `QueuedTail`).
* `HandlesTypeCorrect`, `HandlesOwnedOnce`: `TypeOK` and `OneOwner`. `Possessed` counts the
  owners of a socket, the monitor among them; for contexts (`ContextOwned`) it matters
  also that a `context_t` that is closing has a context that is being closed, and
  any other one that is alive (`Closes`): otherwise a context whose close was
  interrupted could be closed by its next owner.
* `MonitorInStep`: `EventsPaired`. Between two events the frames in the stream come in
  pairs, and after the first read the stream begins with that event's address
  (`Monitoring`). A frame for the next event arrives only as a pair.

`DispatchProofs`, for any .proto files, programs, classes, objects and calls. The
assumption `FileAssumption` says what protoc and the descriptors in the program check
anyway: the services of a package, the methods of a service and the files of a
program have different names.

* `TheRightMethod`, `TheFirstObject`: `RightMethod` and `FirstServes`. `MapRight` says of
  the map that under the full name of each method of the first `k` objects there is the
  `RpcMethod` of the first of them that offers it. It holds of `rpc_method_map` with
  all objects and of the worker's `copy` with those there were at `Start`
  (`MethodInv`, `CallInv`). Removal takes nothing out of the map, which is why it
  stays true. Full names are told apart by `FullNames`, from `FileAssumption`.
* `RemovalGoesByClass`: `RemovedByClass` (`SafeInv`). What a removal finds by name are
  the `RpcMethod`s of the first object of that class, all of them, because what is
  registered later does not replace them and nothing is taken out of the map.
* `GeneratedBuilds`: `Builds`. The header's path, made from the name by
  `Basename`, is what `StripProto` makes of it in the `#include` (`HeaderName`), and the
  header was written when the source was (`ProgramInv`).
* `FilesApart`: `NoClash`. `FilenameIdentifier` is injective on names of any length
  (`IdentifiersDiffer`): of two names that begin alike, the identifiers begin alike
  (`SameStart`), and the first characters that differ are spelled differently, so that
  neither spelling begins the other (`TokensDiffer`); a name that goes on has a longer
  identifier (`LongerSpelling`). `FlattenSeq` of the community modules is defined by
  recursion, and the theorems for induction cannot be used here. So the proof takes the
  least-number principle instead: every set of naturals that is not empty has a
  least element (`Least`, from the pigeonhole theorem for finite sets), and a
  claim about all prefixes follows from its least counterexample (`Partial`,
  `Flattened`).

Only model-checked: liveness (`RecvTerminates`, `CloseReturns`,
`EventuallyHandled`, `ContextEnds`, `EveryCallEnds`, `Delivered`, `MonitorLetsGo`), which is out of
the prover's reach.

## Findings

1. Error replies: `ZRecvMethod` accepts exactly four frames and then reads a
   fifth one. The exception leaves the call, the controller stays WORKING and
   its entry stays on the list (`channel_error_reply`).
2. `Close` can hang when requests wait: they take the turns of TERMINATEs
   (`server_busy_close`).
3. Channels of one thread share an identity, whether it has them at the same time or
   one after the other: the reply to a request of one reaches the other, which takes
   it for its own. The run shows it for a late reply to a channel that was closed
   (`system_identity`).

Seen while modelling, without a run of their own:

* A timed-out request stays on the list: with `AbandonPending` a controller used
  again gets the late reply to its old request.
* `Close` hangs as well with three or more workers (one that leaves early shifts
  the load balancer's turn), after an interrupted proxy, when a worker has not
  connected yet, and always with `noreply`, whose PUB frontend receives nothing.
* `Close` closes the sockets while the proxy may still use them, and `ProxyStop`
  can overtake replies of served requests.
* `RemoveService` (`RpcServer.cc:104`) leaves pointers to deleted methods in the map
  and in the workers' copies; called for the second object of a class, it deletes the
  methods of the first, which serves; registering a method twice leaks the second
  `RpcMethod` (`RpcServer.cc:91`).
* A request whose service throws `zmq::error_t`, `RetryException` or `ExitException`
  gets no reply (`RpcWorker.cc:108`); any other exception but `ZError` ends the server.
* A worker goes on after ETERM as after any other `zmq::error_t` (`RpcWorker.cc:108`),
  so a context that is closed before its servers never gets closed.
* The worker's request and response are leaked because the variables that should
  own them are shadowed (`RpcWorker.cc:89`).
* The plugin: for `x.protodevel` the header is written as `x.protodevel.zqrpc.h`
  (`ZqrpcCppGenerator.cc:71`) and included as `x.zqrpc.h` (`FileGenerator.cc:93`);
  with LITE_RUNTIME services use a function that is not generated
  (`FileGenerator.cc:143`); `FilenameIdentifier` is not injective for bytes below
  16, which get one digit (`cpp_helpers.cc:314`). `Plugin` has no such bytes: its
  names consist of letters, digits, slashes, dots and underscores.
* `zmq.hpp`: `rebuild(size)` without memory leaves a closed message; the range
  constructor leaks when the copying throws; an interrupted `zmq_ctx_destroy` is
  ignored and its context left behind; a monitor that starts while the context is
  being closed gets no socket and goes on with it; an interrupted read takes the
  monitor's frames one off; moving a `socket_t` does not take its `ctxptr` along.
  zqrpc itself uses neither monitors nor moved sockets.

## Not modelled

* `src/plugin/common.h`, `strutil.h`, `substitute.h` and the functions of
  `cpp_helpers.cc` that the generators do not call: copies of Protocol Buffers'
  own helpers, string functions without state. The text of the generated code is
  abstracted to the tables and names in it.
* `zmq.hpp`: options, `connect`, `disconnect`, `version`, and conversions, which
  change no state of the wrapper. `ZSocket::SetOption` and `SetLinger` pass their
  arguments on; `ProxyTo` is not used.
* A wall clock that is set back: the call then waits longer by the adjustment,
  and `NeverLate` is stated for a steady clock only.
* Peers that forge the number of an open request.
* Replies that wait in a worker's pipe when `Close` stops the proxy: `RpcServer` has
  them, but no property says what becomes of them.
* `Close` while `Start` still spawns: `threads_` is an unprotected vector there.
* The order and number of clients' connections beyond one per channel, high-water
  marks between the proxy and the workers, and the example client, which is one
  schedule of the calls `RpcChannel` allows.
* Build files.

## Plan

All that was planned is there: the channel and its proofs; the server and its
proofs; the method registry and the generated dispatch; the life cycle of
several servers; the composition with its refinement and proofs; the transport
and the wrapper, the generated code and the map, all with their proofs. What could
follow are action properties (a controller that has its result keeps it until it is
sent with again; a worker that has left its loop never touches the server's map)
and that the steps of `RpcServer` are steps of the server in `RpcSystem`.
