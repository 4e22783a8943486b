------------------------------- MODULE Dispatch -------------------------------
(***************************************************************************)
(* From a .proto file to the method that is executed: the plugin generates *)
(* the files of a program, service objects are registered with a server,   *)
(* its workers take copies of the map (src/RpcServer.cc) and look methods  *)
(* up in them (src/RpcWorker.cc), and stubs call by what the generated     *)
(* tables say.                                                             *)
(*                                                                         *)
(* Transport is left out: what a stub sends, some worker reads.  All       *)
(* workers have the same copy, and one stands for them.  The data of a     *)
(* message is its type.  Data that cannot be parsed, or no reply be made   *)
(* of, is RpcServer's matter.                                              *)
(***************************************************************************)
EXTENDS Plugin

CONSTANTS
  Proto, file,   \* .proto files and what they contain
  Programs,      \* sets of .proto files that are compiled into one program
  MaxObjects,    \* bound: service objects that are registered
  MaxRemovals,   \* bound: calls of RemoveService
  MaxCalls       \* bound: calls of stubs

ASSUME DispatchAssumption ==
  /\ \A p \in Programs : p \subseteq Proto
  /\ MaxObjects \in Nat /\ MaxRemovals \in Nat /\ MaxCalls \in Nat

(* protoc, and the descriptors in the program, refuse a symbol that is     *)
(* defined twice and a file that is there twice.                           *)
ASSUME FileAssumption ==
  /\ \A f \in Proto :
       /\ file[f].name \in Seq(ToSet(file[f].name))
       /\ file[f].services \in Seq(ToSet(file[f].services))
       /\ \A i, j \in DOMAIN file[f].services :
            file[f].services[i].name = file[f].services[j].name => i = j
       /\ \A s \in ToSet(file[f].services) :
            /\ s.methods \in Seq(ToSet(s.methods))
            /\ \A i, j \in DOMAIN s.methods :
                 s.methods[i].name = s.methods[j].name => i = j
  /\ \A p \in Programs : \A f, g \in p : f # g =>
       /\ file[f].name # file[g].name
       /\ file[f].package = file[g].package =>
            \A s \in ToSet(file[f].services), t \in ToSet(file[g].services) : s.name # t.name

VARIABLES
  protos,          \* the .proto files of the program
  generated,       \* those the plugin was run on
  files,           \* the paths of the files it wrote
  objects,         \* the service objects that were registered, in order
  heap,            \* the RpcMethod objects that were made
  freed,           \*   and those that are deleted
  rpc_method_map,  \* rpc_method_map_: from opcodes to places in heap
  copy,            \* the worker's rpc_method_map_
  started,         \* Start was called
  requests,        \* what stubs have sent
  calls,           \* how often
  served,          \* history: what the worker did, in order,
  removed,         \*   the objects RemoveService was called for, in order,
  offered,         \*   how many objects were registered when Start was called
  undefined        \*   what was done to a deleted RpcMethod, and for which class

genVars  == <<protos, generated, files>>
mapVars  == <<objects, heap, freed, rpc_method_map, removed>>
callVars == <<requests, calls, served>>
vars == <<genVars, mapVars, callVars, copy, started, offered, undefined>>

Source == [f \in Proto |-> GenerateSource(file[f])]
Header == [f \in Proto |-> GenerateHeader(file[f], FALSE)]

(* A generated class: its file and the place of its service in it; a       *)
(* method's descriptor has its index.                                      *)
Class      == UNION {{f} \X DOMAIN file[f].services : f \in protos}
Service(c) == file[c[1]].services[c[2]]
Methods    == UNION {{c} \X Indices(Service(c)) : c \in Class}
Code(c)    == Source[c[1]].services[c[2]]

(* descriptor() and GetDescriptor(): <classname>_descriptor_, which        *)
(* protobuf_AssignDescriptorsOnce has assigned file->service(index).       *)
descriptor(c) ==
  LET d == CHOOSE d \in Source[c[1]].descriptors.assigns :
             d.variable = Service(c).name
  IN <<c[1], d.index + 1>>

full_name(m) ==
  <<file[m[1][1]].package, Service(m[1]).name, MethodAt(Service(m[1]), m[2]).name>>

(* The source's own header was written, and what its classes use is there. *)
Links(f) ==
  /\ StripProto(file[f].name) \o <<".zqrpc", ".h">> \in files
  /\ \A i \in DOMAIN Source[f].services :
       Source[f].services[i].uses \in Source[f].descriptors.locals

Runnable == generated = protos /\ (\A f \in protos : Links(f)) /\ undefined = {}

NoMap == [op \in {} |-> 0]

Init ==
  /\ protos \in Programs /\ generated = {} /\ files = {}
  /\ objects = <<>> /\ heap = <<>> /\ freed = {}
  /\ rpc_method_map = NoMap /\ copy = NoMap /\ started = FALSE
  /\ requests = {} /\ calls = 0 /\ served = <<>> /\ removed = <<>>
  /\ offered = 0 /\ undefined = {}

-----------------------------------------------------------------------------
(* protoc runs the plugin on the files one by one; a refused option ends   *)
(* it with an error, and somebody corrects it.                             *)
RunPlugin(f, parameter) ==
  /\ f \in protos \ generated
  /\ files' = files \cup {g.path : g \in Generate(file[f], parameter)}
  /\ generated' = IF KnownOptions(parameter) THEN generated \cup {f}
                  ELSE generated
  /\ UNCHANGED <<protos, mapVars, callVars, copy, started, offered, undefined>>

-----------------------------------------------------------------------------
(* RegisterService and RemoveService                                       *)

(* The RpcMethod objects for a new service object of class c.              *)
NewMethods(c) ==
  [n \in 1 .. Len(Service(descriptor(c)).methods) |->
     [service  |-> Len(objects) + 1,
      request  |-> Code(c).RequestPrototype[n - 1],
      response |-> Code(c).ResponsePrototype[n - 1],
      method   |-> <<descriptor(c), n - 1>>]]

Opcodes(c) == {full_name(m.method) : m \in ToSet(NewMethods(c))}

LastServes(c) == Opcodes(c)

(* An opcode that is in the map stays as it is.                            *)
Entered(c) == Opcodes(c) \ DOMAIN rpc_method_map

NewIndex(c, op) ==
  Len(heap)
    + CHOOSE n \in DOMAIN NewMethods(c) : full_name(NewMethods(c)[n].method) = op

(* own: the methods that the object overrides.                             *)
RegisterService(c, own) ==
  /\ Runnable /\ Len(objects) < MaxObjects
  /\ objects' = Append(objects, [class |-> c, own |-> own])
  /\ heap' = heap \o NewMethods(c)
  /\ rpc_method_map' = [op \in DOMAIN rpc_method_map \cup Entered(c) |->
       IF op \in Entered(c) THEN NewIndex(c, op) ELSE rpc_method_map[op]]
  /\ UNCHANGED <<genVars, freed, removed, callVars, copy, started, offered,
                 undefined>>

Found(c) == {rpc_method_map[op] : op \in Opcodes(c) \cap DOMAIN rpc_method_map}

DeletesAll(c) == ToSet(rpc_method_map)

Deleted(c) == Found(c)

(* The n-th object is removed: the RpcMethods that the map has under the   *)
(* names of its class are deleted, and their pointers stay in the map.     *)
RemoveService(n) ==
  LET c == objects[n].class IN
  /\ Runnable /\ Len(removed) < MaxRemovals
  /\ freed' = freed \cup Deleted(c)
  /\ removed' = Append(removed, n)
  /\ undefined' = IF Deleted(c) \cap freed = {} THEN {}
                  ELSE {[what |-> "delete", class |-> c]}
  /\ UNCHANGED <<genVars, objects, heap, rpc_method_map, callVars, copy,
                 started, offered>>

(* Each RpcWorker is constructed with the map and keeps a copy.            *)
Start ==
  /\ Runnable /\ ~started
  /\ started' = TRUE /\ copy' = rpc_method_map /\ offered' = Len(objects)
  /\ UNCHANGED <<genVars, mapVars, callVars, undefined>>

-----------------------------------------------------------------------------
(* Calls                                                                   *)

(* A stub's method: <name>_Send.                                           *)
StubSend(c, i) ==
  /\ Runnable /\ calls < MaxCalls
  /\ calls' = calls + 1
  /\ requests' = requests \cup
       {[called |-> <<c, i>>,
         opcode |-> full_name(<<descriptor(c), Code(c).stub[i].index>>)]}
  /\ UNCHANGED <<genVars, mapVars, served, copy, started, offered, undefined>>

(* The stub method that sent a request.                                    *)
Stub(r) == Code(r.called[1]).stub[r.called[2]]

Served(r, outcome, object, name, types) ==
  served' = Append(served, [request |-> r, outcome |-> outcome,
                            object |-> object, name |-> name, types |-> types])

NoSuchMethod(r) ==
  /\ r.opcode \notin DOMAIN copy
  /\ Served(r, "ZEC_NOSUCHMETHOD", 0, r.opcode[3], {})
  /\ UNCHANGED undefined

(* CallMethod of the service object, with the request and the response     *)
(* that were made from the prototypes.                                     *)
CallMethod(r, h) ==
  LET c    == objects[h.service].class
      case == Code(c).CallMethod[h.method[2]]
  IN /\ Served(r,
          IF case.calls \in objects[h.service].own THEN "ZEC_SUCCESS"
          ELSE Code(c).defaults[case.calls],
          h.service, case.calls,
          {<<Stub(r).request, h.request, case.request>>,
           <<Stub(r).response, h.response, case.response>>})
     /\ UNCHANGED undefined

(* Using a deleted RpcMethod may do anything, and serve the request.       *)
UsesFreed(r, n) ==
  /\ n \in freed
  /\ undefined' = {[what |-> "use", class |-> r.called[1]]}
  /\ UNCHANGED served

WorkerServes(r) ==
  /\ Runnable /\ started /\ r \in requests
  /\ requests' = requests \ {r}
  /\ \/ NoSuchMethod(r)
     \/ /\ r.opcode \in DOMAIN copy
        /\ LET n == copy[r.opcode] IN
             \/ UsesFreed(r, n)
             \/ n \notin freed /\ CallMethod(r, heap[n])
  /\ UNCHANGED <<genVars, mapVars, calls, copy, started, offered>>

-----------------------------------------------------------------------------
Next ==
  \/ \E f \in protos, parameter \in Options : RunPlugin(f, parameter)
  \/ \E c \in Class :
       \/ \E own \in SUBSET {m.name : m \in ToSet(Service(c).methods)} :
            RegisterService(c, own)
       \/ \E i \in Indices(Service(c)) : StubSend(c, i)
  \/ \E n \in DOMAIN objects : RemoveService(n)
  \/ Start
  \/ \E r \in requests : WorkerServes(r)

Spec == Init /\ [][Next]_vars

-----------------------------------------------------------------------------
(* Properties                                                              *)

EndsInProto(f) == IsSuffix(<<".", "proto">>, file[f].name)

(* What is generated for a file can be built: its source includes the      *)
(* header by the name it was written under, and the functions its classes  *)
(* call are there.  (Not with LITE_RUNTIME, and not for .protodevel.)      *)
Builds == \A f \in generated : EndsInProto(f) /\ ~file[f].lite => Links(f)

(* The files of one program do not get in each other's way: paths, include *)
(* guards and the functions that are not in a class are all different.     *)
Exported(f) == Source[f].descriptors.defines

NoClash == \A f, g \in generated :
  f # g /\ EndsInProto(f) /\ EndsInProto(g) =>
    /\ Basename(file[f]) # Basename(file[g])
    /\ Header[f].guard # Header[g].guard
    /\ Exported(f) \cap Exported(g) = {}

(* A call executes the method its stub is for, and on the whole way its    *)
(* request and its response are of that method's types: sent, made from    *)
(* the prototype, and cast to in CallMethod.  All indices agree.           *)
RightMethod == \A r \in ToSet(served) :
  LET c == r.request.called[1] IN
  /\ r.name = MethodAt(Service(c), r.request.called[2]).name
  /\ r.outcome = "ZEC_SUCCESS" =>
       r.name \in objects[r.object].own /\ objects[r.object].class = c
  /\ r.types \subseteq {<<t, t, t>> : t \in
       {Stub(r.request).request, Stub(r.request).response}}

(* Of several objects with one method the first that was registered serves *)
(* it, and none that came after Start: workers work with the map as it was *)
(* then.                                                                   *)
FirstServes == \A r \in ToSet(served) :
  LET candidates == {n \in 1 .. offered :
                       objects[n].class = r.request.called[1]}
  IN IF candidates = {} THEN r.outcome = "ZEC_NOSUCHMETHOD"
     ELSE r.object \in candidates /\ \A n \in candidates : r.object <= n

(* RemoveService goes by class: whichever object of a class it is called   *)
(* for, it deletes the RpcMethods of the one that was registered first,    *)
(* all of them, and nothing else.  So calls of a class are safe as long as *)
(* no object of that class is removed, and no RpcMethod is deleted twice   *)
(* before the second object of its class is.                               *)
Removals(c) == {k \in DOMAIN removed : objects[removed[k]].class = c}

OfTheFirst(n) == \A k \in DOMAIN objects :
  objects[k].class = heap[n].method[1] => heap[n].service <= k

RemovedByClass ==
  /\ freed = {n \in DOMAIN heap :
                OfTheFirst(n) /\ Removals(heap[n].method[1]) # {}}
  /\ \A u \in undefined :
       /\ Removals(u.class) # {}
       /\ u.what = "delete" => \E j, k \in Removals(u.class) : j # k

=============================================================================
