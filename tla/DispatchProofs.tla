---------------------------- MODULE DispatchProofs ----------------------------
(***************************************************************************)
(* Theorems about Dispatch, for any set of .proto files that protoc        *)
(* accepts and any number of services, methods, objects and calls: the     *)
(* generated tables, the map of the server and the stubs agree on every    *)
(* index, the first object serves, a removal takes the methods of the      *)
(* first object of its class, and what is generated can be built.          *)
(***************************************************************************)
EXTENDS Dispatch, SequenceTheorems, FiniteSets, FiniteSetTheorems, TLAPS

-----------------------------------------------------------------------------
(* The inductive invariant                                                 *)

(* A class of the program that has descriptors.                            *)
Known(c) == \E f \in protos : /\ ~file[f].lite
                              /\ \E k \in DOMAIN file[f].services : c = <<f, k>>

(* A method of such a class.                                               *)
KnownMethod(m) == Known(m[1]) /\ m = <<m[1], m[2]>> /\ m[2] \in Indices(Service(m[1]))

Names(c) == {full_name(<<c, i>>) : i \in Indices(Service(c))}

TheMethod(m) == MethodAt(Service(m[1]), m[2])

(* An RpcMethod has what its service object's class says of its method.    *)
Made(h) ==
  /\ KnownMethod(h.method)
  /\ h.service \in DOMAIN objects /\ objects[h.service].class = h.method[1]
  /\ h.request = ClassName(TheMethod(h.method).input)
  /\ h.response = ClassName(TheMethod(h.method).output)

(* A map into made has for every method of the first k objects the         *)
(* RpcMethod of the first of them that offers it.                          *)
MapRight(map, k, made, objs) ==
  /\ \A op \in DOMAIN map :
       /\ map[op] \in DOMAIN made /\ full_name(made[map[op]].method) = op
       /\ made[map[op]].service \in 1 .. k
       /\ \A n \in 1 .. k : op \in Names(objs[n].class) => made[map[op]].service <= n
  /\ \A n \in 1 .. k : Names(objs[n].class) \subseteq DOMAIN map

Asked(r) == KnownMethod(r.called) /\ r.opcode = full_name(r.called)

(* What RightMethod and FirstServes say of one answer.                     *)
RightAnswer(r) ==
  /\ Asked(r.request) /\ r.name = TheMethod(r.request.called).name
  /\ r.outcome = "ZEC_SUCCESS" =>
       /\ r.object \in DOMAIN objects /\ r.name \in objects[r.object].own
       /\ objects[r.object].class = r.request.called[1]
  /\ r.types \subseteq {<<t, t, t>> : t \in {Stub(r.request).request, Stub(r.request).response}}

FirstAnswer(r) ==
  LET candidates == {n \in 1 .. offered : objects[n].class = r.request.called[1]}
  IN IF candidates = {} THEN r.outcome = "ZEC_NOSUCHMETHOD"
     ELSE r.object \in candidates /\ \A n \in candidates : r.object <= n

ProgramInv ==
  /\ protos \in Programs /\ generated \subseteq protos
  /\ \A f \in generated : Basename(file[f]) \o <<".h">> \in files

MethodInv ==
  /\ objects \in Seq(ToSet(objects)) /\ heap \in Seq(ToSet(heap))
  /\ \A n \in DOMAIN objects : Known(objects[n].class)
  /\ \A n \in DOMAIN heap : Made(heap[n])
  /\ MapRight(rpc_method_map, Len(objects), heap, objects)

CallInv ==
  /\ offered \in 0 .. Len(objects) /\ MapRight(copy, offered, heap, objects)
  /\ served \in Seq(ToSet(served)) /\ (served # <<>> => started)
  /\ \A r \in requests : Asked(r)
  /\ \A r \in ToSet(served) : RightAnswer(r) /\ FirstAnswer(r)

(* An object has one RpcMethod for a method.                               *)
EachOnce(made) == \A a, b \in DOMAIN made :
  made[a].service = made[b].service /\ made[a].method = made[b].method => a = b

SafeInv ==
  /\ EachOnce(heap) /\ removed \in Seq(ToSet(removed))
  /\ \A k \in DOMAIN removed : removed[k] \in DOMAIN objects
  /\ RemovedByClass

DispatchInv == ProgramInv /\ MethodInv /\ CallInv /\ SafeInv

-----------------------------------------------------------------------------
(* Sequences of what they contain                                          *)

LEMMA SeqOfItself ==
  ASSUME NEW R, NEW s \in Seq(R)
  PROVE  s \in Seq(ToSet(s)) /\ ToSet(s) \subseteq R
<1>1. Len(s) \in Nat /\ DOMAIN s = 1 .. Len(s) /\ s \in [1 .. Len(s) -> R]
  BY LenProperties
<1>2. s \in [1 .. Len(s) -> ToSet(s)]
  BY <1>1 DEF ToSet
<1>3. s \in Seq(ToSet(s))
  BY <1>1, <1>2, SeqDef
<1> QED
  BY <1>1, <1>3 DEF ToSet

LEMMA SeqWider ==
  ASSUME NEW R, NEW S, R \subseteq S, NEW s \in Seq(R)
  PROVE  s \in Seq(S)
<1>1. s \in [1 .. Len(s) -> S] /\ Len(s) \in Nat
  BY LenProperties
<1> QED
  BY <1>1, IsASeq

LEMMA Joined ==
  ASSUME NEW s, NEW t, s \in Seq(ToSet(s)), t \in Seq(ToSet(t))
  PROVE  /\ s \o t \in Seq(ToSet(s \o t)) /\ Len(s \o t) = Len(s) + Len(t)
         /\ Len(s) \in Nat /\ Len(t) \in Nat /\ DOMAIN (s \o t) = 1 .. Len(s) + Len(t)
         /\ DOMAIN s = 1 .. Len(s) /\ DOMAIN t = 1 .. Len(t)
         /\ \A i \in DOMAIN s : (s \o t)[i] = s[i]
         /\ \A i \in DOMAIN t : (s \o t)[Len(s) + i] = t[i]
<1> DEFINE R == ToSet(s) \cup ToSet(t)
<1>1. /\ Len(s) \in Nat /\ DOMAIN s = 1 .. Len(s) /\ s \in [1 .. Len(s) -> ToSet(s)]
      /\ Len(t) \in Nat /\ DOMAIN t = 1 .. Len(t) /\ t \in [1 .. Len(t) -> ToSet(t)]
  BY LenProperties
<1>2. s \in Seq(R) /\ t \in Seq(R)
  <2>1. s \in [1 .. Len(s) -> R] /\ t \in [1 .. Len(t) -> R]
    BY <1>1
  <2> QED
    BY <1>1, <2>1, IsASeq
<1>3. /\ s \o t \in Seq(R) /\ Len(s \o t) = Len(s) + Len(t)
      /\ \A i \in 1 .. Len(s) + Len(t) : (s \o t)[i] = IF i <= Len(s) THEN s[i] ELSE t[i - Len(s)]
  BY <1>2, ConcatProperties
<1>4. DOMAIN (s \o t) = 1 .. Len(s) + Len(t)
  BY <1>3, LenProperties
<1>5. \A i \in 1 .. Len(s) : (s \o t)[i] = s[i]
  BY <1>1, <1>3
<1>6. \A i \in 1 .. Len(t) : (s \o t)[Len(s) + i] = t[i]
  BY <1>1, <1>3
<1> QED
  BY <1>1, <1>3, <1>4, <1>5, <1>6, SeqOfItself

LEMMA Appended ==
  ASSUME NEW s, NEW x, s \in Seq(ToSet(s))
  PROVE  /\ Append(s, x) \in Seq(ToSet(Append(s, x))) /\ Len(Append(s, x)) = Len(s) + 1
         /\ Len(s) \in Nat /\ DOMAIN s = 1 .. Len(s)
         /\ DOMAIN Append(s, x) = 1 .. Len(s) + 1
         /\ \A i \in DOMAIN s : Append(s, x)[i] = s[i]
         /\ Append(s, x)[Len(s) + 1] = x
         /\ ToSet(Append(s, x)) = ToSet(s) \cup {x}
<1> DEFINE R == ToSet(s) \cup {x}
<1>1. Len(s) \in Nat /\ DOMAIN s = 1 .. Len(s) /\ s \in [1 .. Len(s) -> ToSet(s)]
  BY LenProperties
<1>2. s \in Seq(R)
  <2>1. s \in [1 .. Len(s) -> R]
    BY <1>1
  <2> QED
    BY <1>1, <2>1, IsASeq
<1>3. /\ Append(s, x) \in Seq(R) /\ Len(Append(s, x)) = Len(s) + 1
      /\ Append(s, x)[Len(s) + 1] = x
      /\ \A i \in 1 .. Len(s) : Append(s, x)[i] = s[i]
  BY <1>2, AppendProperties
<1>4. DOMAIN Append(s, x) = 1 .. Len(s) + 1
  BY <1>3, LenProperties
<1>5. ToSet(Append(s, x)) = ToSet(s) \cup {x}
  <2>1. ToSet(Append(s, x)) \subseteq ToSet(s) \cup {x}
    BY <1>3, SeqOfItself
  <2>2. x \in ToSet(Append(s, x))
    BY <1>1, <1>3, <1>4 DEF ToSet
  <2>3. ASSUME NEW i \in DOMAIN s
        PROVE  s[i] \in ToSet(Append(s, x))
    BY <1>1, <1>3, <1>4 DEF ToSet
  <2>4. ToSet(s) \subseteq ToSet(Append(s, x))
    BY <2>3 DEF ToSet
  <2> QED
    BY <2>1, <2>2, <2>4
<1> QED
  BY <1>1, <1>3, <1>4, <1>5, SeqOfItself

-----------------------------------------------------------------------------
(* What is generated for a class of the program                            *)

LEMMA KnownService ==
  ASSUME protos \in Programs, NEW c, Known(c)
  PROVE  /\ c[1] \in protos /\ c[1] \in Proto /\ ~file[c[1]].lite
         /\ c = <<c[1], c[2]>> /\ c[2] \in DOMAIN file[c[1]].services
         /\ Service(c) = file[c[1]].services[c[2]]
         /\ Service(c) \in ToSet(file[c[1]].services)
         /\ Service(c).methods \in Seq(ToSet(Service(c).methods))
         /\ Len(Service(c).methods) \in Nat
         /\ DOMAIN Service(c).methods = 1 .. Len(Service(c).methods)
<1>1. PICK f \in protos : /\ ~file[f].lite
                          /\ \E k \in DOMAIN file[f].services : c = <<f, k>>
  BY DEF Known
<1>2. PICK k \in DOMAIN file[f].services : c = <<f, k>>
  BY <1>1
<1>3. f \in Proto
  BY DispatchAssumption
<1>4. file[f].services[k] \in ToSet(file[f].services)
  BY DEF ToSet
<1>5. file[f].services[k].methods \in Seq(ToSet(file[f].services[k].methods))
  BY <1>3, <1>4, FileAssumption
<1> QED
  BY <1>1, <1>2, <1>3, <1>4, <1>5, LenProperties DEF Service

(* The index in the generated table is that of the method.                 *)
LEMMA KnownCode ==
  ASSUME protos \in Programs, NEW c, Known(c), NEW i \in Indices(Service(c))
  PROVE  LET m == MethodAt(Service(c), i) IN
         /\ Code(c).RequestPrototype[i] = ClassName(m.input)
         /\ Code(c).ResponsePrototype[i] = ClassName(m.output)
         /\ Code(c).CallMethod[i] = [calls |-> m.name, request |-> ClassName(m.input),
                                     response |-> ClassName(m.output)]
         /\ Code(c).stub[i].index = i
         /\ Code(c).stub[i].request = ClassName(m.input)
         /\ Code(c).stub[i].response = ClassName(m.output)
         /\ Code(c).defaults[m.name] = "ZEC_METHODNOTIMPLEMENTED"
<1> DEFINE sv == Service(c)
           m == MethodAt(sv, i)
<1>1. Code(c) = GenerateImplementation(sv)
  <2>1. Source[c[1]] = GenerateSource(file[c[1]])
    BY KnownService DEF Source
  <2> QED
    BY <2>1, KnownService DEF Code, GenerateSource
<1>2. m \in ToSet(sv.methods)
  <2>1. i + 1 \in DOMAIN sv.methods
    BY KnownService DEF Indices
  <2> QED
    BY <2>1 DEF MethodAt, ToSet
<1>3. GenerateNotImplementedMethods(sv)[m.name] = "ZEC_METHODNOTIMPLEMENTED"
  BY <1>2 DEF GenerateNotImplementedMethods
<1>4. /\ GenerateGetPrototype(sv, "REQUEST")[i] = ClassName(m.input)
      /\ GenerateGetPrototype(sv, "RESPONSE")[i] = ClassName(m.output)
  BY DEF GenerateGetPrototype
<1>5. GenerateCallMethod(sv)[i] = [calls |-> m.name, request |-> ClassName(m.input),
                                   response |-> ClassName(m.output)]
  BY DEF GenerateCallMethod
<1>6. GenerateStubMethods(sv)[i] = [name |-> m.name, index |-> i,
                                    request |-> ClassName(m.input),
                                    response |-> ClassName(m.output)]
  BY DEF GenerateStubMethods
<1> QED
  BY <1>1, <1>3, <1>4, <1>5, <1>6 DEF GenerateImplementation

(* A method of the program is told by its full name.                       *)
LEMMA FullNames ==
  ASSUME protos \in Programs, NEW a, NEW b, KnownMethod(a), KnownMethod(b),
         full_name(a) = full_name(b)
  PROVE  a = b
<1> DEFINE f == a[1][1]
           g == b[1][1]
           s == Service(a[1])
           t == Service(b[1])
<1>1. /\ file[f].package = file[g].package /\ s.name = t.name
      /\ MethodAt(s, a[2]).name = MethodAt(t, b[2]).name
  BY DEF full_name
<1>2. /\ f \in protos /\ s \in ToSet(file[f].services) /\ s = file[f].services[a[1][2]]
      /\ a[1][2] \in DOMAIN file[f].services /\ a[1] = <<f, a[1][2]>>
  BY KnownService DEF KnownMethod
<1>3. /\ g \in protos /\ t \in ToSet(file[g].services) /\ t = file[g].services[b[1][2]]
      /\ b[1][2] \in DOMAIN file[g].services /\ b[1] = <<g, b[1][2]>>
  BY KnownService DEF KnownMethod
<1>4. f = g
  <2> HIDE DEF f, g, s, t
  <2> QED
    BY <1>1, <1>2, <1>3, FileAssumption
<1>5. f \in Proto
  BY KnownService DEF KnownMethod
<1>6. a[1] = b[1]
  <2>1. a[1][2] = b[1][2]
    <3> HIDE DEF f, g, s, t
    <3>1. \A i, j \in DOMAIN file[f].services :
            file[f].services[i].name = file[f].services[j].name => i = j
      BY <1>5, FileAssumption
    <3>2. file[f].services[a[1][2]].name = file[f].services[b[1][2]].name
      BY <1>1, <1>2, <1>3, <1>4
    <3> QED
      BY <1>2, <1>3, <1>4, <3>1, <3>2
  <2> QED
    BY <1>2, <1>3, <1>4, <2>1
<1>7. a[2] = b[2]
  <2>1. a[2] + 1 \in DOMAIN s.methods /\ b[2] + 1 \in DOMAIN s.methods
    BY <1>6, KnownService DEF KnownMethod, Indices
  <2>2. s.methods[a[2] + 1].name = s.methods[b[2] + 1].name
    BY <1>1, <1>6 DEF MethodAt
  <2>3. a[2] + 1 = b[2] + 1
    BY <1>2, <1>5, <2>1, <2>2, FileAssumption
  <2> QED
    BY <2>3 DEF KnownMethod, Indices
<1> QED
  BY <1>6, <1>7 DEF KnownMethod

(* In a program that runs every class has descriptors, and the place its   *)
(* variable is assigned from is its own.                                   *)
LEMMA RunnableClass ==
  ASSUME protos \in Programs, Runnable, NEW c \in Class
  PROVE  Known(c) /\ descriptor(c) = c
<1>0. PICK f \in protos : c \in {f} \X DOMAIN file[f].services
  BY DEF Class
<1>1. PICK k \in DOMAIN file[f].services : c = <<f, k>>
  BY <1>0
<1>2. f \in Proto /\ Service(c) = file[f].services[k]
  BY <1>1, DispatchAssumption DEF Service
<1>3. DOMAIN Source[f].services = DOMAIN file[f].services
  BY <1>2 DEF Source, GenerateSource
<1>4. Source[f].services[k].uses \in Source[f].descriptors.locals
  BY <1>1, <1>3 DEF Runnable, Links
<1>5. HasDescriptorMethods(file[f])
  BY <1>2, <1>4 DEF Source, GenerateSource, GenerateBuildDescriptors
<1>6. Source[f].descriptors.assigns
        = {GenerateDescriptorInitializer(file[f].services[i], i - 1)
             : i \in DOMAIN file[f].services}
  BY <1>2, <1>5 DEF Source, GenerateSource, GenerateBuildDescriptors
<1> DEFINE d == [variable |-> file[f].services[k].name, index |-> k - 1]
<1>7. d \in Source[f].descriptors.assigns
  BY <1>1, <1>6 DEF GenerateDescriptorInitializer
<1>8. ASSUME NEW e \in Source[f].descriptors.assigns, e.variable = file[f].services[k].name
      PROVE  e = d
  <2>1. PICK i \in DOMAIN file[f].services :
          e = [variable |-> file[f].services[i].name, index |-> i - 1]
    BY <1>6 DEF GenerateDescriptorInitializer
  <2>2. file[f].services[i].name = file[f].services[k].name
    BY <1>8, <2>1
  <2>3. i = k
    BY <1>2, <2>2, FileAssumption
  <2> QED
    BY <2>1, <2>3
<1>9. c[1] = f
      /\ (CHOOSE e \in Source[c[1]].descriptors.assigns : e.variable = Service(c).name) = d
  <2>1. c[1] = f
    BY <1>1
  <2>2. \A e \in Source[c[1]].descriptors.assigns :
          e.variable = Service(c).name <=> e = d
    BY <1>2, <1>8, <2>1
  <2> HIDE DEF d
  <2>3. d \in Source[c[1]].descriptors.assigns
    BY <1>7, <2>1
  <2> QED
    BY <2>1, <2>2, <2>3
<1>10. (k - 1) + 1 = k
  <2>1. DOMAIN file[f].services = 1 .. Len(file[f].services)
    BY <1>2, FileAssumption, LenProperties
  <2> QED
    BY <2>1
<1>11. descriptor(c) = <<f, k>>
  <2>1. d.index = k - 1
    OBVIOUS
  <2> HIDE DEF d
  <2> QED
    BY <1>9, <1>10, <2>1 DEF descriptor
<1> QED
  BY <1>1, <1>5, <1>11 DEF Known, HasDescriptorMethods

(* The RpcMethods of a new service object, and the opcodes they are under. *)
LEMMA NewObject ==
  ASSUME protos \in Programs, Runnable, NEW c \in Class
  PROVE  /\ NewMethods(c) \in Seq(ToSet(NewMethods(c)))
         /\ DOMAIN NewMethods(c) = 1 .. Len(Service(c).methods)
         /\ Len(NewMethods(c)) = Len(Service(c).methods)
         /\ Len(Service(c).methods) \in Nat
         /\ \A n \in DOMAIN NewMethods(c) :
              /\ KnownMethod(<<c, n - 1>>)
              /\ NewMethods(c)[n] =
                   [service  |-> Len(objects) + 1,
                    request  |-> ClassName(TheMethod(<<c, n - 1>>).input),
                    response |-> ClassName(TheMethod(<<c, n - 1>>).output),
                    method   |-> <<c, n - 1>>]
         /\ Opcodes(c) = Names(c)
<1>1. Known(c) /\ descriptor(c) = c
  BY RunnableClass
<1> DEFINE l == Len(Service(c).methods)
           e(n) == [service  |-> Len(objects) + 1,
                    request  |-> Code(c).RequestPrototype[n - 1],
                    response |-> Code(c).ResponsePrototype[n - 1],
                    method   |-> <<c, n - 1>>]
<1>2. NewMethods(c) = [n \in 1 .. l |-> e(n)]
  BY <1>1 DEF NewMethods
<1>3. l \in Nat
  BY <1>1, KnownService
<1>4. NewMethods(c) \in Seq(ToSet(NewMethods(c))) /\ Len(NewMethods(c)) = l
      /\ DOMAIN NewMethods(c) = 1 .. l
  <2>1. DOMAIN NewMethods(c) = 1 .. l
    BY <1>2
  <2>2. NewMethods(c) \in [1 .. l -> ToSet(NewMethods(c))]
    BY <1>2, <2>1 DEF ToSet
  <2>3. NewMethods(c) \in Seq(ToSet(NewMethods(c)))
    BY <1>3, <2>2, SeqDef
  <2>4. Len(NewMethods(c)) \in Nat /\ DOMAIN NewMethods(c) = 1 .. Len(NewMethods(c))
    BY <2>3, LenProperties
  <2> QED
    BY <1>3, <2>1, <2>3, <2>4
<1>5. ASSUME NEW n \in 1 .. l
      PROVE  n - 1 \in Indices(Service(c)) /\ KnownMethod(<<c, n - 1>>)
  BY <1>1, <1>3 DEF Indices, KnownMethod
<1>6. ASSUME NEW n \in 1 .. l
      PROVE  NewMethods(c)[n] =
               [service  |-> Len(objects) + 1,
                request  |-> ClassName(TheMethod(<<c, n - 1>>).input),
                response |-> ClassName(TheMethod(<<c, n - 1>>).output),
                method   |-> <<c, n - 1>>]
  <2>1. /\ Code(c).RequestPrototype[n - 1] = ClassName(TheMethod(<<c, n - 1>>).input)
        /\ Code(c).ResponsePrototype[n - 1] = ClassName(TheMethod(<<c, n - 1>>).output)
    BY <1>1, <1>5, KnownCode DEF TheMethod
  <2> QED
    BY <1>2, <2>1
<1>7. Opcodes(c) = Names(c)
  <2>1. ASSUME NEW n \in 1 .. l
        PROVE  full_name(NewMethods(c)[n].method) \in Names(c)
    <3>1. NewMethods(c)[n].method = <<c, n - 1>>
      BY <1>2
    <3> QED
      BY <1>5, <3>1 DEF Names
  <2>2. ASSUME NEW i \in Indices(Service(c))
        PROVE  full_name(<<c, i>>) \in Opcodes(c)
    <3>1. i + 1 \in 1 .. l /\ (i + 1) - 1 = i
      BY <1>3 DEF Indices
    <3>2. NewMethods(c)[i + 1].method = <<c, i>>
      BY <1>2, <3>1
    <3>3. NewMethods(c)[i + 1] \in ToSet(NewMethods(c))
      BY <1>4, <3>1 DEF ToSet
    <3> QED
      BY <3>2, <3>3 DEF Opcodes
  <2> QED
    BY <1>4, <2>1, <2>2 DEF Opcodes, Names, ToSet
<1> QED
  BY <1>3, <1>4, <1>5, <1>6, <1>7

(* An opcode of the class is that of one of its methods, and of one only.  *)
LEMMA NewIndexOf ==
  ASSUME protos \in Programs, Runnable, NEW c \in Class, NEW op \in Names(c)
  PROVE  \E n \in DOMAIN NewMethods(c) :
           /\ NewIndex(c, op) = Len(heap) + n
           /\ full_name(NewMethods(c)[n].method) = op
<1>1. \E n \in DOMAIN NewMethods(c) : full_name(NewMethods(c)[n].method) = op
  <2>1. op \in Opcodes(c)
    BY NewObject
  <2>2. PICK m \in ToSet(NewMethods(c)) : op = full_name(m.method)
    BY <2>1 DEF Opcodes
  <2> QED
    BY <2>2 DEF ToSet
<1> QED
  BY <1>1 DEF NewIndex

-----------------------------------------------------------------------------
(* What a step leaves alone is kept.                                       *)

LEMMA Initially == Init => DispatchInv
<1> SUFFICES ASSUME Init
             PROVE  DispatchInv
  OBVIOUS
<1>1. ProgramInv
  BY DEF Init, ProgramInv
<1>2. /\ objects = <<>> /\ heap = <<>> /\ served = <<>> /\ Len(objects) = 0
      /\ rpc_method_map = NoMap /\ copy = NoMap /\ DOMAIN NoMap = {} /\ offered = 0
  BY DEF Init, NoMap
<1>3. /\ objects \in Seq(ToSet(objects)) /\ heap \in Seq(ToSet(heap))
      /\ served \in Seq(ToSet(served)) /\ ToSet(served) = {}
  BY <1>2 DEF ToSet
<1>4. MapRight(NoMap, 0, heap, objects)
  BY <1>2 DEF MapRight
<1>5. MethodInv
  BY <1>2, <1>3, <1>4 DEF MethodInv
<1>6. CallInv
  BY <1>2, <1>3, <1>4 DEF CallInv, Init
<1>7. SafeInv
  <2>1. removed = <<>> /\ freed = {} /\ undefined = {} /\ DOMAIN removed = {}
    BY DEF Init
  <2>2. removed \in Seq(ToSet(removed))
    BY <2>1 DEF ToSet
  <2> QED
    BY <1>2, <2>1, <2>2 DEF SafeInv, EachOnce, RemovedByClass
<1> QED
  BY <1>1, <1>5, <1>6, <1>7 DEF DispatchInv

LEMMA ProgramSame ==
  ASSUME DispatchInv, UNCHANGED genVars
  PROVE  ProgramInv'
BY DEF DispatchInv, ProgramInv, genVars

LEMMA MethodSame ==
  ASSUME DispatchInv, UNCHANGED <<protos, objects, heap, rpc_method_map>>
  PROVE  MethodInv'
<1>1. ASSUME NEW c, Known(c)
      PROVE  Known(c)'
  BY <1>1 DEF Known
<1>2. ASSUME NEW h, Made(h)
      PROVE  Made(h)'
  BY <1>1, <1>2 DEF Made, KnownMethod
<1>3. MethodInv
  BY DEF DispatchInv
<1>4. ASSUME NEW n \in DOMAIN objects'
      PROVE  Known(objects[n].class)'
  <2>1. PICK c : c = objects[n].class /\ c = objects'[n].class /\ Known(c)
    BY <1>3 DEF MethodInv
  <2>2. Known(c)'
    BY <1>1, <2>1
  <2> QED
    BY <2>1, <2>2
<1>5. ASSUME NEW n \in DOMAIN heap'
      PROVE  Made(heap[n])'
  <2>1. PICK h : h = heap[n] /\ h = heap'[n] /\ Made(h)
    BY <1>3 DEF MethodInv
  <2>2. Made(h)'
    BY <1>2, <2>1
  <2> QED
    BY <2>1, <2>2
<1> QED
  BY <1>3, <1>4, <1>5 DEF MethodInv

LEMMA CallSame ==
  ASSUME DispatchInv, UNCHANGED <<protos, objects, heap, requests, served, copy, started,
                                  offered>>
  PROVE  CallInv'
<1>1. ASSUME NEW r, Asked(r)
      PROVE  Asked(r)'
  BY <1>1 DEF Asked, KnownMethod, Known
<1>2. ASSUME NEW r, RightAnswer(r) /\ FirstAnswer(r)
      PROVE  (RightAnswer(r) /\ FirstAnswer(r))'
  BY <1>1, <1>2 DEF RightAnswer, FirstAnswer
<1>3. CallInv
  BY DEF DispatchInv
<1> QED
  BY <1>1, <1>2, <1>3 DEF CallInv

LEMMA SafeStays ==
  ASSUME SafeInv, UNCHANGED <<objects, heap, freed, removed>>,
         \A u \in undefined' :
           /\ Removals(u.class) # {}
           /\ u.what = "delete" => \E j, k \in Removals(u.class) : j # k
  PROVE  SafeInv'
<1>1. ASSUME NEW d
      PROVE  Removals(d)' = Removals(d)
  BY DEF Removals
<1>2. ASSUME NEW n
      PROVE  OfTheFirst(n)' <=> OfTheFirst(n)
  BY DEF OfTheFirst
<1>3. \A n \in DOMAIN heap :
        Removals(heap[n].method[1])' = Removals(heap[n].method[1])
  BY DEF Removals
<1>4. freed' = {n \in DOMAIN heap' :
                  OfTheFirst(n)' /\ Removals(heap[n].method[1])' # {}}
  BY <1>2, <1>3 DEF SafeInv, RemovedByClass
<1>5. RemovedByClass'
  BY <1>1, <1>4 DEF RemovedByClass
<1> QED
  BY <1>5 DEF SafeInv, EachOnce

LEMMA SafeSame ==
  ASSUME DispatchInv, UNCHANGED <<objects, heap, freed, removed, undefined>>
  PROVE  SafeInv'
BY SafeStays DEF DispatchInv, SafeInv, RemovedByClass

-----------------------------------------------------------------------------
(* The operations                                                          *)

LEMMA PluginKeeps ==
  ASSUME DispatchInv, NEW f \in protos, NEW parameter \in Options, RunPlugin(f, parameter)
  PROVE  DispatchInv'
<1>1. /\ UNCHANGED <<protos, objects, heap, rpc_method_map, freed, removed, requests, served>>
      /\ UNCHANGED <<copy, started, offered, undefined>>
  BY DEF RunPlugin, mapVars, callVars
<1>2. /\ files \subseteq files'
      /\ generated' \subseteq protos /\ \A g \in generated' : g = f \/ g \in generated
  BY DEF RunPlugin, DispatchInv, ProgramInv
<1>3. f \in generated' /\ f \notin generated => Basename(file[f]) \o <<".h">> \in files'
  <2>1. CASE KnownOptions(parameter)
    <3>1. [path |-> Basename(file[f]) \o <<".h">>,
           content |-> GenerateHeader(file[f], parameter # NoOption)]
             \in Generate(file[f], parameter)
      BY <2>1 DEF Generate
    <3>2. Basename(file[f]) \o <<".h">> \in {g.path : g \in Generate(file[f], parameter)}
      BY <3>1
    <3> QED
      BY <3>2 DEF RunPlugin
  <2>2. CASE ~KnownOptions(parameter)
    BY <2>2 DEF RunPlugin
  <2> QED
    BY <2>1, <2>2
<1>4. ProgramInv'
  <2>1. ASSUME NEW g \in generated'
        PROVE  Basename(file[g]) \o <<".h">> \in files'
    <3>1. CASE g \in generated
      BY <1>2, <3>1 DEF DispatchInv, ProgramInv
    <3>2. CASE g \notin generated
      BY <1>2, <1>3, <3>2
    <3> QED
      BY <3>1, <3>2
  <2> QED
    BY <1>1, <1>2, <2>1 DEF ProgramInv, DispatchInv
<1> QED
  BY <1>1, <1>4, MethodSame, CallSame, SafeSame DEF DispatchInv

(* A map stays right when RpcMethods and objects are added that are not in *)
(* it,                                                                     *)
LEMMA MapStable ==
  ASSUME NEW map, NEW k \in Nat, NEW a, NEW b, NEW s, NEW t, MapRight(map, k, a, s),
         \A n \in DOMAIN a : n \in DOMAIN b /\ b[n] = a[n],
         \A n \in 1 .. k : t[n] = s[n]
  PROVE  MapRight(map, k, b, t)
BY DEF MapRight

(* and when the names that it does not have get RpcMethods of a new one.   *)
LEMMA MapExtended ==
  ASSUME NEW map, NEW k \in Nat, NEW a, NEW b, NEW s, NEW t, MapRight(map, k, a, s),
         \A n \in DOMAIN a : n \in DOMAIN b /\ b[n] = a[n],
         \A n \in 1 .. k : t[n] = s[n],
         NEW more, DOMAIN more = DOMAIN map \cup Names(t[k + 1].class),
         \A op \in DOMAIN map : more[op] = map[op],
         \A op \in Names(t[k + 1].class) \ DOMAIN map :
           /\ more[op] \in DOMAIN b /\ full_name(b[more[op]].method) = op
           /\ b[more[op]].service = k + 1
  PROVE  MapRight(more, k + 1, b, t)
<1>0. \A n \in 1 .. k + 1 : n \in 1 .. k \/ n = k + 1
  OBVIOUS
<1>1. ASSUME NEW op \in DOMAIN map
      PROVE  /\ more[op] \in DOMAIN b /\ full_name(b[more[op]].method) = op
             /\ b[more[op]].service \in 1 .. k + 1
             /\ \A n \in 1 .. k + 1 :
                  op \in Names(t[n].class) => b[more[op]].service <= n
  <2>1. /\ map[op] \in DOMAIN a /\ full_name(a[map[op]].method) = op
        /\ a[map[op]].service \in 1 .. k
        /\ \A n \in 1 .. k : op \in Names(s[n].class) => a[map[op]].service <= n
    BY DEF MapRight
  <2>2. more[op] = map[op] /\ map[op] \in DOMAIN b /\ b[map[op]] = a[map[op]]
    BY <2>1
  <2>3. a[map[op]].service \in 1 .. k + 1 /\ a[map[op]].service <= k + 1
    BY <2>1
  <2> QED
    BY <1>0, <2>1, <2>2, <2>3
<1>2. ASSUME NEW op \in Names(t[k + 1].class) \ DOMAIN map
      PROVE  /\ b[more[op]].service \in 1 .. k + 1
             /\ \A n \in 1 .. k + 1 :
                  op \in Names(t[n].class) => b[more[op]].service <= n
  <2>1. \A n \in 1 .. k : op \notin Names(t[n].class)
    BY DEF MapRight
  <2> QED
    BY <1>0, <2>1
<1>3. \A n \in 1 .. k + 1 : Names(t[n].class) \subseteq DOMAIN more
  BY <1>0 DEF MapRight
<1> QED
  BY <1>1, <1>2, <1>3 DEF MapRight

LEMMA RegisterKeeps ==
  ASSUME DispatchInv, NEW c \in Class, NEW own, RegisterService(c, own)
  PROVE  DispatchInv'
<1> DEFINE k == Len(objects)
           l == Len(heap)
           new == NewMethods(c)
<1>1. /\ protos \in Programs /\ Runnable /\ Known(c) /\ descriptor(c) = c
      /\ UNCHANGED <<protos, generated, files, freed, removed, requests, served, copy,
                     started, offered, undefined>>
  BY RunnableClass DEF RegisterService, DispatchInv, ProgramInv, genVars, callVars
<1>2. /\ objects' \in Seq(ToSet(objects')) /\ Len(objects') = k + 1 /\ k \in Nat
      /\ DOMAIN objects = 1 .. k /\ DOMAIN objects' = 1 .. k + 1
      /\ \A n \in 1 .. k : objects'[n] = objects[n]
      /\ objects'[k + 1].class = c
  BY Appended DEF RegisterService, DispatchInv, MethodInv
<1>3. /\ new \in Seq(ToSet(new)) /\ \A n \in DOMAIN new : KnownMethod(<<c, n - 1>>)
      /\ \A n \in DOMAIN new : new[n] =
           [service  |-> k + 1,
            request  |-> ClassName(TheMethod(<<c, n - 1>>).input),
            response |-> ClassName(TheMethod(<<c, n - 1>>).output),
            method   |-> <<c, n - 1>>]
      /\ Opcodes(c) = Names(c)
  BY <1>1, NewObject
<1>4. /\ heap' \in Seq(ToSet(heap')) /\ l \in Nat /\ Len(new) \in Nat
      /\ DOMAIN heap = 1 .. l /\ DOMAIN new = 1 .. Len(new)
      /\ DOMAIN heap' = 1 .. l + Len(new)
      /\ \A n \in 1 .. l : heap'[n] = heap[n]
      /\ \A n \in DOMAIN new : heap'[l + n] = new[n]
  <2>1. heap' = heap \o new /\ heap \in Seq(ToSet(heap))
    BY DEF RegisterService, DispatchInv, MethodInv
  <2> HIDE DEF new
  <2> QED
    BY <1>3, <2>1, Joined
<1>6. ASSUME NEW d, Known(d)
      PROVE  Known(d)'
  BY <1>1, <1>6 DEF Known
<1>7. ASSUME NEW n \in DOMAIN heap'
      PROVE  Made(heap[n])'
  <2>1. CASE n \in 1 .. l
    <3>1. PICK h : h = heap[n] /\ h = heap'[n] /\ Made(h)
      BY <1>4, <2>1 DEF DispatchInv, MethodInv
    <3>2. h.service \in 1 .. k
      BY <1>2, <3>1 DEF Made
    <3>3. objects'[h.service] = objects[h.service] /\ h.service \in DOMAIN objects'
      BY <1>2, <3>2
    <3>4. Made(h)'
      BY <1>6, <3>1, <3>3 DEF Made, KnownMethod
    <3> QED
      BY <3>1, <3>4
  <2>2. CASE n \notin 1 .. l
    <3>1. n - l \in DOMAIN new /\ l + (n - l) = n
      BY <1>4, <2>2
    <3>2. heap'[n] = new[n - l]
      BY <1>4, <3>1
    <3>3. PICK i : i = (n - l) - 1 /\ KnownMethod(<<c, i>>)
      BY <1>3, <3>1
    <3>4. PICK h : /\ h = heap'[n]
                   /\ h = [service  |-> k + 1,
                           request  |-> ClassName(TheMethod(<<c, i>>).input),
                           response |-> ClassName(TheMethod(<<c, i>>).output),
                           method   |-> <<c, i>>]
      BY <1>3, <3>1, <3>2, <3>3
    <3>5. KnownMethod(<<c, i>>)'
      BY <1>6, <3>3 DEF KnownMethod
    <3>6. k + 1 \in DOMAIN objects'
      BY <1>2
    <3>7. Made(h)'
      BY <1>2, <3>4, <3>5, <3>6 DEF Made
    <3> QED
      BY <3>4, <3>7
  <2> QED
    BY <2>1, <2>2
<1>8. MapRight(rpc_method_map', k + 1, heap', objects')
  <2>1. /\ DOMAIN rpc_method_map' = DOMAIN rpc_method_map \cup Entered(c)
        /\ \A op \in DOMAIN rpc_method_map \cup Entered(c) : rpc_method_map'[op] =
             IF op \in Entered(c) THEN NewIndex(c, op) ELSE rpc_method_map[op]
    BY DEF RegisterService
  <2>2. Entered(c) = Names(c) \ DOMAIN rpc_method_map
    BY <1>3 DEF Entered
  <2>3. /\ DOMAIN rpc_method_map' = DOMAIN rpc_method_map \cup Names(objects'[k + 1].class)
        /\ \A op \in DOMAIN rpc_method_map : rpc_method_map'[op] = rpc_method_map[op]
    BY <1>2, <2>1, <2>2
  <2>4. ASSUME NEW op \in Names(objects'[k + 1].class) \ DOMAIN rpc_method_map
        PROVE  /\ rpc_method_map'[op] \in DOMAIN heap'
               /\ full_name(heap'[rpc_method_map'[op]].method) = op
               /\ heap'[rpc_method_map'[op]].service = k + 1
    <3>1. rpc_method_map'[op] = NewIndex(c, op) /\ op \in Names(c)
      BY <1>2, <2>1, <2>2
    <3>2. PICK n \in DOMAIN new : /\ NewIndex(c, op) = l + n
                                  /\ full_name(new[n].method) = op
      BY <1>1, <3>1, NewIndexOf
    <3>3. heap'[l + n] = new[n] /\ l + n \in DOMAIN heap' /\ new[n].service = k + 1
      <4>0. n \in DOMAIN new
        BY <3>2
      <4>2. new[n].service = k + 1
        <5>1. PICK q, a, m : new[n] = [service |-> k + 1, request |-> q, response |-> a, method |-> m]
          BY <1>3, <4>0
        <5> QED
          BY <5>1
      <4> HIDE DEF new, l
      <4>1. heap'[l + n] = new[n] /\ l + n \in DOMAIN heap'
        <5>1. n \in 1 .. Len(new)
          BY <1>4, <4>0
        <5>2. l + n \in 1 .. l + Len(new)
          BY <1>4, <5>1
        <5> QED
          BY <1>4, <4>0, <5>2
      <4> QED
        BY <4>1, <4>2
    <3> QED
      BY <3>1, <3>2, <3>3
  <2>5. MapRight(rpc_method_map, k, heap, objects)
    BY DEF DispatchInv, MethodInv
  <2>6. \A n \in DOMAIN heap : n \in DOMAIN heap' /\ heap'[n] = heap[n]
    BY <1>4
  <2> HIDE DEF k, l, new
  <2> QED
    BY <1>2, <2>3, <2>4, <2>5, <2>6, MapExtended
<1>9. CallInv'
  <2>1. CallInv /\ offered \in 0 .. k /\ offered \in Nat
    BY <1>2 DEF DispatchInv, CallInv
  <2>2. MapRight(copy, offered, heap', objects')
    <3>1. MapRight(copy, offered, heap, objects)
      BY <2>1 DEF CallInv
    <3>2. \A n \in DOMAIN heap : n \in DOMAIN heap' /\ heap'[n] = heap[n]
      BY <1>4
    <3>3. \A n \in 1 .. offered : objects'[n] = objects[n]
      BY <1>2, <2>1
    <3> QED
      BY <2>1, <3>1, <3>2, <3>3, MapStable
  <2>3. ASSUME NEW r, Asked(r)
        PROVE  Asked(r)'
    BY <1>6, <2>3 DEF Asked, KnownMethod
  <2>4. ASSUME NEW r, RightAnswer(r)
        PROVE  RightAnswer(r)'
    <3>1. ASSUME r.object \in DOMAIN objects
          PROVE  r.object \in DOMAIN objects' /\ objects'[r.object] = objects[r.object]
      BY <1>2, <3>1
    <3> QED
      BY <2>3, <2>4, <3>1 DEF RightAnswer
  <2>5. ASSUME NEW r, FirstAnswer(r)
        PROVE  FirstAnswer(r)'
    <3>1. {n \in 1 .. offered' : objects'[n].class = r.request.called[1]}
            = {n \in 1 .. offered : objects[n].class = r.request.called[1]}
      BY <1>1, <1>2, <2>1
    <3> QED
      BY <2>5, <3>1 DEF FirstAnswer
  <2>6. offered \in 0 .. Len(objects')
    BY <1>2, <2>1
  <2> QED
    BY <1>1, <2>1, <2>2, <2>3, <2>4, <2>5, <2>6 DEF CallInv
<1>10. SafeInv'
  <2>1. SafeInv /\ MethodInv
    BY DEF DispatchInv
  <2>2. /\ \A n \in DOMAIN heap : n \in DOMAIN heap' /\ heap'[n] = heap[n]
        /\ \A n \in DOMAIN heap : heap[n].service \in DOMAIN objects
    BY <1>4, <2>1 DEF MethodInv, Made
  <2>3. ASSUME NEW n \in DOMAIN heap' \ DOMAIN heap
        PROVE  /\ n - l \in DOMAIN new /\ n \in Nat
               /\ heap'[n].service = k + 1 /\ heap'[n].method = <<c, (n - l) - 1>>
    <3>1. n - l \in DOMAIN new /\ l + (n - l) = n /\ n \in Nat
      BY <1>4, <2>3
    <3>2. heap'[n] = new[n - l]
      BY <1>4, <3>1
    <3>3. PICK i, q, a : /\ i = (n - l) - 1
                         /\ new[n - l] = [service |-> k + 1, request |-> q,
                                          response |-> a, method |-> <<c, i>>]
      BY <1>3, <3>1
    <3> QED
      BY <3>1, <3>2, <3>3
  <2>4. EachOnce(heap')
    <3> SUFFICES ASSUME NEW a \in DOMAIN heap', NEW b \in DOMAIN heap',
                        heap'[a].service = heap'[b].service,
                        heap'[a].method = heap'[b].method
                 PROVE  a = b
      BY DEF EachOnce
    <3> HIDE DEF new, l, k
    <3>1. CASE a \in DOMAIN heap /\ b \in DOMAIN heap
      BY <2>1, <2>2, <3>1 DEF SafeInv, EachOnce
    <3>2. CASE a \notin DOMAIN heap /\ b \notin DOMAIN heap
      <4>1. (a - l) - 1 = (b - l) - 1 /\ a \in Nat /\ b \in Nat
        BY <2>3, <3>2
      <4> QED
        BY <1>4, <4>1
    <3>3. ASSUME NEW m \in DOMAIN heap, NEW n \in DOMAIN heap' \ DOMAIN heap
          PROVE  heap'[m].service # heap'[n].service
      BY <1>2, <2>2, <2>3, <3>3
    <3> QED
      BY <3>1, <3>2, <3>3
  <2>5. /\ \A j \in DOMAIN removed : removed[j] \in DOMAIN objects
        /\ \A j \in DOMAIN removed : objects'[removed[j]] = objects[removed[j]]
        /\ \A j \in DOMAIN removed : removed[j] \in DOMAIN objects'
        /\ removed' = removed
    BY <1>1, <1>2, <2>1 DEF SafeInv
  <2>6. ASSUME NEW d
        PROVE  Removals(d)' = Removals(d)
    BY <2>5 DEF Removals
  <2>7. ASSUME NEW n \in DOMAIN heap
        PROVE  OfTheFirst(n)' <=> OfTheFirst(n)
    <3>1. heap'[n] = heap[n] /\ heap[n].service \in 1 .. k
      BY <1>2, <2>2
    <3> QED
      BY <1>2, <3>1 DEF OfTheFirst
  <2>8. ASSUME NEW n \in DOMAIN heap' \ DOMAIN heap, OfTheFirst(n)',
               Removals(heap'[n].method[1]) # {}
        PROVE  FALSE
    <3>1. heap'[n].method[1] = c /\ heap'[n].service = k + 1
      BY <2>3
    <3>2. PICK j \in DOMAIN removed : objects[removed[j]].class = c
      BY <2>8, <3>1 DEF Removals
    <3>3. removed[j] \in 1 .. k /\ objects'[removed[j]].class = c
      BY <1>2, <2>5, <3>2
    <3>4. k + 1 <= removed[j]
      BY <1>2, <2>8, <3>1, <3>3 DEF OfTheFirst
    <3> QED
      BY <1>2, <3>3, <3>4
  <2>9. RemovedByClass'
    BY <1>1, <2>1, <2>2, <2>6, <2>7, <2>8 DEF SafeInv, RemovedByClass
  <2> QED
    BY <2>1, <2>4, <2>5, <2>9 DEF SafeInv
<1>11. ASSUME NEW n \in DOMAIN objects'
       PROVE  Known(objects[n].class)'
  <2>1. PICK d : d = objects'[n].class /\ Known(d)
    <3>1. CASE n \in 1 .. k
      BY <1>2, <3>1 DEF DispatchInv, MethodInv
    <3>2. CASE n = k + 1
      BY <1>1, <1>2, <3>2
    <3> QED
      BY <1>2, <3>1, <3>2
  <2>2. Known(d)'
    BY <1>6, <2>1
  <2> QED
    BY <2>1, <2>2
<1>12. MethodInv'
  BY <1>2, <1>4, <1>7, <1>8, <1>11 DEF MethodInv
<1> QED
  BY <1>1, <1>9, <1>10, <1>12, ProgramSame DEF DispatchInv, genVars

(* What RemoveService finds under the opcodes of a class are the           *)
(* RpcMethods of the first object of that class, all of them.              *)
LEMMA FoundOfFirst ==
  ASSUME DispatchInv, Runnable, NEW c \in Class
  PROVE  Deleted(c) = {n \in DOMAIN heap : heap[n].method[1] = c /\ OfTheFirst(n)}
<1>1. protos \in Programs /\ Known(c) /\ Opcodes(c) = Names(c)
  BY RunnableClass, NewObject DEF DispatchInv, ProgramInv
<1>2. \A n \in DOMAIN heap : Made(heap[n])
  BY DEF DispatchInv, MethodInv
<1>3. DOMAIN objects = 1 .. Len(objects) /\ Len(objects) \in Nat
  BY LenProperties DEF DispatchInv, MethodInv
<1>4. ASSUME NEW op \in Names(c) \cap DOMAIN rpc_method_map,
             NEW n, n = rpc_method_map[op]
      PROVE  /\ n \in DOMAIN heap /\ full_name(heap[n].method) = op
             /\ heap[n].method[1] = c /\ OfTheFirst(n)
  <2>1. /\ n \in DOMAIN heap /\ full_name(heap[n].method) = op
        /\ \A k \in 1 .. Len(objects) :
             op \in Names(objects[k].class) => heap[n].service <= k
    BY <1>4 DEF DispatchInv, MethodInv, MapRight
  <2>2. PICK i \in Indices(Service(c)) : op = full_name(<<c, i>>)
    BY DEF Names
  <2>3. KnownMethod(heap[n].method) /\ KnownMethod(<<c, i>>)
    BY <1>1, <1>2, <2>1 DEF Made, KnownMethod
  <2>4. heap[n].method = <<c, i>>
    BY <1>1, <2>1, <2>2, <2>3, FullNames
  <2>5. OfTheFirst(n)
    BY <1>3, <2>1, <2>4 DEF OfTheFirst
  <2> QED
    BY <2>1, <2>4, <2>5
<1>5. ASSUME NEW n \in DOMAIN heap, heap[n].method[1] = c, OfTheFirst(n)
      PROVE  \E op \in Names(c) \cap DOMAIN rpc_method_map : n = rpc_method_map[op]
  <2>1. /\ KnownMethod(heap[n].method) /\ heap[n].service \in 1 .. Len(objects)
        /\ objects[heap[n].service].class = c
    BY <1>2, <1>3, <1>5 DEF Made
  <2>2. PICK op : op = full_name(heap[n].method) /\ op \in Names(c)
    BY <1>5, <2>1 DEF KnownMethod, Names
  <2>3. op \in DOMAIN rpc_method_map
    BY <2>1, <2>2 DEF DispatchInv, MethodInv, MapRight
  <2>4. PICK m : m = rpc_method_map[op]
    OBVIOUS
  <2>5. /\ m \in DOMAIN heap /\ full_name(heap[m].method) = op
        /\ heap[m].method[1] = c /\ OfTheFirst(m)
    BY <1>4, <2>2, <2>3, <2>4
  <2>6. /\ heap[m].service \in 1 .. Len(objects)
        /\ objects[heap[m].service].class = c /\ KnownMethod(heap[m].method)
    BY <1>2, <1>3, <2>5 DEF Made
  <2>7. heap[m].method = heap[n].method
    BY <1>1, <2>1, <2>2, <2>5, <2>6, FullNames
  <2>8. heap[m].service <= heap[n].service /\ heap[n].service <= heap[m].service
    BY <1>3, <1>5, <2>1, <2>5, <2>6 DEF OfTheFirst
  <2>9. heap[m].service = heap[n].service
    BY <2>1, <2>6, <2>8
  <2>10. m = n
    BY <2>5, <2>7, <2>9 DEF DispatchInv, SafeInv, EachOnce
  <2> QED
    BY <2>2, <2>3, <2>4, <2>10
<1> QED
  BY <1>1, <1>4, <1>5 DEF Deleted, Found

LEMMA RemoveKeeps ==
  ASSUME DispatchInv, NEW n \in DOMAIN objects, RemoveService(n)
  PROVE  DispatchInv'
<1>1. PICK c : c = objects[n].class
  OBVIOUS
<1>2. /\ Runnable
      /\ UNCHANGED <<genVars, protos, objects, heap, rpc_method_map, requests, served,
                     copy, started, offered>>
      /\ freed' = freed \cup Deleted(c)
      /\ undefined' = IF Deleted(c) \cap freed = {} THEN {}
                      ELSE {[what |-> "delete", class |-> c]}
  BY <1>1 DEF RemoveService, genVars, callVars
<1>3. removed' = Append(removed, n)
  BY DEF RemoveService
<1>4. c \in Class
  <2>1. Known(c)
    BY <1>1 DEF DispatchInv, MethodInv
  <2>2. PICK f \in protos : \E k \in DOMAIN file[f].services : c = <<f, k>>
    BY <2>1 DEF Known
  <2>3. c \in {f} \X DOMAIN file[f].services
    BY <2>2
  <2> QED
    BY <2>3 DEF Class
<1>5. Deleted(c) = {m \in DOMAIN heap : heap[m].method[1] = c /\ OfTheFirst(m)}
  BY <1>2, <1>4, FoundOfFirst
<1>6. SafeInv
  BY DEF DispatchInv
<1>7. /\ removed' \in Seq(ToSet(removed')) /\ Len(removed) \in Nat
      /\ DOMAIN removed = 1 .. Len(removed) /\ DOMAIN removed' = 1 .. Len(removed) + 1
      /\ \A k \in 1 .. Len(removed) : removed'[k] = removed[k]
      /\ removed'[Len(removed) + 1] = n
  <2>1. removed \in Seq(ToSet(removed))
    BY <1>6 DEF SafeInv
  <2> QED
    BY <1>3, <2>1, Appended
<1>8. /\ UNCHANGED objects /\ objects[n].class = c
      /\ UNCHANGED heap
  BY <1>1, <1>2
<1>9. ASSUME NEW d
      PROVE  Removals(d)' = Removals(d) \cup IF d = c THEN {Len(removed) + 1} ELSE {}
  BY <1>7, <1>8 DEF Removals
<1>10. ASSUME NEW m
       PROVE  OfTheFirst(m)' <=> OfTheFirst(m)
  BY <1>8 DEF OfTheFirst
<1>11. ASSUME NEW m \in DOMAIN heap
       PROVE  m \in freed' <=> OfTheFirst(m) /\ Removals(heap[m].method[1])' # {}
  <2>1. PICK d : d = heap[m].method[1] /\ d = heap'[m].method[1]
    BY <1>8
  <2>2. m \in freed <=> OfTheFirst(m) /\ Removals(d) # {}
    BY <1>6, <2>1 DEF SafeInv, RemovedByClass
  <2>3. m \in Deleted(c) <=> d = c /\ OfTheFirst(m)
    BY <1>5, <2>1
  <2>4. Removals(d)' # {} <=> Removals(d) # {} \/ d = c
    BY <1>9
  <2> QED
    BY <1>2, <2>1, <2>2, <2>3, <2>4
<1>12. freed' \subseteq DOMAIN heap
  BY <1>2, <1>5, <1>6 DEF SafeInv, RemovedByClass
<1>13. ASSUME NEW u \in undefined'
       PROVE  /\ Removals(u.class)' # {}
              /\ \E j, k \in Removals(u.class)' : j # k
  <2>1. u.class = c
    <3>1. PICK e : e = [what |-> "delete", class |-> c]
      OBVIOUS
    <3>2. undefined' \subseteq {e}
      BY <1>2, <3>1
    <3> QED
      BY <1>13, <3>1, <3>2
  <2>2. PICK m \in Deleted(c) : m \in freed
    BY <1>2, <1>13
  <2>3. PICK j : j \in Removals(c)
    BY <1>5, <1>6, <2>2 DEF SafeInv, RemovedByClass
  <2>4. j # Len(removed) + 1
    BY <1>7, <2>3 DEF Removals
  <2>5. j \in Removals(c)' /\ Len(removed) + 1 \in Removals(c)'
    BY <1>9, <2>3
  <2> QED
    BY <2>1, <2>4, <2>5
<1>14. RemovedByClass'
  <2>1. freed' = {m \in DOMAIN heap' :
                    OfTheFirst(m)' /\ Removals(heap[m].method[1])' # {}}
    BY <1>8, <1>10, <1>11, <1>12
  <2> QED
    BY <1>13, <2>1 DEF RemovedByClass
<1>15. ASSUME NEW k \in DOMAIN removed'
       PROVE  removed'[k] \in DOMAIN objects'
  BY <1>6, <1>7, <1>8 DEF SafeInv
<1>16. SafeInv'
  BY <1>6, <1>7, <1>8, <1>14, <1>15 DEF SafeInv, EachOnce
<1> QED
  BY <1>2, <1>16, ProgramSame, MethodSame, CallSame DEF DispatchInv

LEMMA StartKeeps ==
  ASSUME DispatchInv, Start
  PROVE  DispatchInv'
<1>1. /\ ~started /\ started' = TRUE /\ copy' = rpc_method_map /\ offered' = Len(objects)
      /\ UNCHANGED <<genVars, protos, objects, heap, rpc_method_map, freed, removed,
                     requests, served, undefined>>
  BY DEF Start, genVars, mapVars, callVars
<1>2. served = <<>> /\ ToSet(served) = {}
  <2>1. served = <<>>
    BY <1>1 DEF DispatchInv, CallInv
  <2> QED
    BY <2>1 DEF ToSet
<1>3. ASSUME NEW r, Asked(r)
      PROVE  Asked(r)'
  BY <1>1, <1>3 DEF Asked, KnownMethod, Known
<1>4. Len(objects) \in Nat
  BY LenProperties DEF DispatchInv, MethodInv
<1>5. MapRight(rpc_method_map, Len(objects), heap, objects)
  BY DEF DispatchInv, MethodInv
<1>6. CallInv'
  BY <1>1, <1>2, <1>3, <1>4, <1>5 DEF DispatchInv, CallInv
<1> QED
  BY <1>1, <1>6, ProgramSame, MethodSame, SafeSame DEF DispatchInv

LEMMA StubKeeps ==
  ASSUME DispatchInv, NEW c \in Class, NEW i \in Indices(Service(c)), StubSend(c, i)
  PROVE  DispatchInv'
<1>1. /\ protos \in Programs /\ Known(c) /\ descriptor(c) = c
      /\ UNCHANGED <<genVars, protos, objects, heap, rpc_method_map, freed, removed, served,
                     copy, started, offered, undefined>>
  BY RunnableClass DEF StubSend, DispatchInv, ProgramInv, genVars, mapVars
<1>2. requests' = requests \cup {[called |-> <<c, i>>, opcode |-> full_name(<<c, i>>)]}
  BY <1>1, KnownCode DEF StubSend
<1>3. ASSUME NEW r, Asked(r)
      PROVE  Asked(r)'
  BY <1>1, <1>3 DEF Asked, KnownMethod, Known
<1>4. Asked([called |-> <<c, i>>, opcode |-> full_name(<<c, i>>)])
  BY <1>1 DEF Asked, KnownMethod
<1>5. ASSUME NEW r \in requests'
      PROVE  Asked(r)'
  BY <1>2, <1>3, <1>4 DEF DispatchInv, CallInv
<1>6. ASSUME NEW r, RightAnswer(r) /\ FirstAnswer(r)
      PROVE  (RightAnswer(r) /\ FirstAnswer(r))'
  BY <1>1, <1>3, <1>6 DEF RightAnswer, FirstAnswer
<1>7. CallInv'
  BY <1>1, <1>5, <1>6 DEF DispatchInv, CallInv
<1> QED
  BY <1>1, <1>7, ProgramSame, MethodSame, SafeSame DEF DispatchInv

-----------------------------------------------------------------------------
(* The worker                                                              *)

LEMMA AnswersKept ==
  ASSUME DispatchInv, NEW a, started, served' = Append(served, a),
         requests' \subseteq requests, RightAnswer(a), FirstAnswer(a),
         UNCHANGED <<protos, objects, heap, copy, started, offered>>
  PROVE  CallInv'
<1>1. CallInv
  BY DEF DispatchInv
<1>2. served' \in Seq(ToSet(served')) /\ ToSet(served') = ToSet(served) \cup {a}
  BY <1>1, Appended DEF CallInv
<1>3. ASSUME NEW r, Asked(r)
      PROVE  Asked(r)'
  BY <1>3 DEF Asked, KnownMethod, Known
<1>4. ASSUME NEW r, RightAnswer(r) /\ FirstAnswer(r)
      PROVE  (RightAnswer(r) /\ FirstAnswer(r))'
  BY <1>3, <1>4 DEF RightAnswer, FirstAnswer
<1> QED
  BY <1>1, <1>2, <1>3, <1>4 DEF CallInv

(* Nobody who was registered before Start has the method.                  *)
LEMMA NobodyServes ==
  ASSUME DispatchInv, NEW r \in requests, r.opcode \notin DOMAIN copy,
         NEW a, a = [request |-> r, outcome |-> "ZEC_NOSUCHMETHOD", object |-> 0,
                     name |-> r.opcode[3], types |-> {}]
  PROVE  RightAnswer(a) /\ FirstAnswer(a)
<1>1. Asked(r)
  BY DEF DispatchInv, CallInv
<1>2. r.opcode[3] = TheMethod(r.called).name
  BY <1>1 DEF Asked, full_name, TheMethod
<1>3. {n \in 1 .. offered : objects[n].class = r.called[1]} = {}
  <2> SUFFICES ASSUME NEW n \in 1 .. offered, objects[n].class = r.called[1]
               PROVE  FALSE
    OBVIOUS
  <2>1. r.opcode \in Names(objects[n].class)
    BY <1>1 DEF Asked, KnownMethod, Names
  <2> QED
    BY <2>1 DEF DispatchInv, CallInv, MapRight
<1> QED
  BY <1>1, <1>2, <1>3 DEF RightAnswer, FirstAnswer

(* The RpcMethod under the opcode is that of the method the stub is for,   *)
(* and its object the first of its class that was there at Start.          *)
LEMMA FirstObjectServes ==
  ASSUME DispatchInv, NEW r \in requests, r.opcode \in DOMAIN copy,
         NEW h, h = heap[copy[r.opcode]],
         NEW a, NEW cs,
         cs = Code(r.called[1]).CallMethod[r.called[2]],
         a = [request |-> r,
              outcome |-> IF cs.calls \in objects[h.service].own THEN "ZEC_SUCCESS"
                          ELSE Code(r.called[1]).defaults[cs.calls],
              object |-> h.service, name |-> cs.calls,
              types |-> {<<Stub(r).request, h.request, cs.request>>,
                         <<Stub(r).response, h.response, cs.response>>}]
  PROVE  /\ h.method = r.called /\ objects[h.service].class = r.called[1]
         /\ RightAnswer(a) /\ FirstAnswer(a)
<1> DEFINE c == r.called[1]
           i == r.called[2]
           m == TheMethod(r.called)
<1>1. Asked(r) /\ KnownMethod(r.called) /\ protos \in Programs /\ Known(c)
      /\ i \in Indices(Service(c)) /\ r.called = <<c, i>>
  BY DEF DispatchInv, ProgramInv, CallInv, Asked, KnownMethod
<1>2. /\ copy[r.opcode] \in DOMAIN heap /\ full_name(h.method) = r.opcode
      /\ h.service \in 1 .. offered
      /\ \A n \in 1 .. offered : r.opcode \in Names(objects[n].class) => h.service <= n
  BY DEF DispatchInv, CallInv, MapRight
<1>3. Made(h)
  BY <1>2 DEF DispatchInv, MethodInv
<1>4. h.method = r.called
  BY <1>1, <1>2, <1>3, FullNames DEF Made, Asked
<1>5. /\ objects[h.service].class = c
      /\ h.service \in DOMAIN objects
      /\ h.request = ClassName(m.input) /\ h.response = ClassName(m.output)
  BY <1>3, <1>4 DEF Made
<1>6. /\ cs.calls = m.name /\ cs.request = ClassName(m.input)
      /\ cs.response = ClassName(m.output)
      /\ Code(c).defaults[m.name] = "ZEC_METHODNOTIMPLEMENTED"
      /\ Stub(r).request = ClassName(m.input) /\ Stub(r).response = ClassName(m.output)
  <2>1. m = MethodAt(Service(c), i)
    BY DEF TheMethod
  <2>2. /\ Code(c).CallMethod[i] = [calls |-> m.name, request |-> ClassName(m.input),
                                    response |-> ClassName(m.output)]
        /\ Code(c).defaults[m.name] = "ZEC_METHODNOTIMPLEMENTED"
        /\ Code(c).stub[i].request = ClassName(m.input)
        /\ Code(c).stub[i].response = ClassName(m.output)
    BY <1>1, <2>1, KnownCode
  <2> HIDE DEF m
  <2>3. Stub(r) = Code(c).stub[i]
    BY DEF Stub
  <2>4. cs = [calls |-> m.name, request |-> ClassName(m.input), response |-> ClassName(m.output)]
    BY <2>2
  <2> QED
    BY <2>2, <2>3, <2>4
<1>7. RightAnswer(a)
  <2>1. /\ a.request = r /\ a.name = m.name /\ a.object = h.service
        /\ a.types = {<<ClassName(m.input), ClassName(m.input), ClassName(m.input)>>,
                      <<ClassName(m.output), ClassName(m.output), ClassName(m.output)>>}
    BY <1>5, <1>6
  <2>2. a.outcome = "ZEC_SUCCESS" => a.name \in objects[a.object].own
    BY <1>6
  <2>3. a.types \subseteq {<<t, t, t>> : t \in {Stub(r).request, Stub(r).response}}
    <3> HIDE DEF m, c, i
    <3> QED
      BY <1>6, <2>1
  <2> QED
    BY <1>1, <1>5, <2>1, <2>2, <2>3 DEF RightAnswer
<1>8. FirstAnswer(a)
  <2>1. a.request = r /\ a.object = h.service
    OBVIOUS
  <2> DEFINE candidates == {n \in 1 .. offered : objects[n].class = c}
  <2>2. h.service \in candidates
    BY <1>2, <1>5
  <2>3. \A n \in candidates : h.service <= n
    <3>1. r.opcode \in Names(c)
      BY <1>1 DEF Asked, Names
    <3> QED
      BY <1>2, <3>1
  <2> QED
    BY <2>1, <2>2, <2>3 DEF FirstAnswer
<1> QED
  BY <1>4, <1>5, <1>7, <1>8

LEMMA ServeKeeps ==
  ASSUME DispatchInv, NEW r \in requests, WorkerServes(r)
  PROVE  DispatchInv'
<1>1. /\ started /\ requests' = requests \ {r}
      /\ UNCHANGED <<genVars, protos, objects, heap, rpc_method_map, freed, removed,
                     copy, started, offered>>
  BY DEF WorkerServes, genVars, mapVars
<1>2. CASE NoSuchMethod(r)
  <2>1. PICK a : /\ a = [request |-> r, outcome |-> "ZEC_NOSUCHMETHOD", object |-> 0,
                         name |-> r.opcode[3], types |-> {}]
                 /\ served' = Append(served, a)
    BY <1>2 DEF NoSuchMethod, Served
  <2>2. r.opcode \notin DOMAIN copy /\ undefined' = undefined
    BY <1>2 DEF NoSuchMethod
  <2>3. CallInv'
    BY <1>1, <2>1, <2>2, NobodyServes, AnswersKept
  <2> QED
    BY <1>1, <2>2, <2>3, ProgramSame, MethodSame, SafeSame DEF DispatchInv
<1>3. CASE r.opcode \in DOMAIN copy /\ UsesFreed(r, copy[r.opcode])
  <2>1. /\ copy[r.opcode] \in freed /\ served' = served
        /\ undefined' = {[what |-> "use", class |-> r.called[1]]}
    BY <1>3 DEF UsesFreed
  <2>2. SafeInv'
    <3>1. SafeInv
      BY DEF DispatchInv
    <3>2. heap[copy[r.opcode]].method = r.called
      BY <1>3, FirstObjectServes
    <3>3. PICK n, c : n = copy[r.opcode] /\ c = r.called[1] /\ n \in freed
                      /\ heap[n].method[1] = c
      BY <2>1, <3>2
    <3>4. Removals(c) # {}
      BY <3>1, <3>3 DEF SafeInv, RemovedByClass
    <3>5. \A u \in undefined' : u.class = c /\ u.what # "delete"
      <4>1. PICK e : e = [what |-> "use", class |-> c]
        OBVIOUS
      <4>2. undefined' = {e}
        BY <2>1, <3>3, <4>1
      <4> QED
        BY <4>1, <4>2
    <3> QED
      BY <1>1, <3>1, <3>4, <3>5, SafeStays
  <2>3. ASSUME NEW q, Asked(q)
        PROVE  Asked(q)'
    BY <1>1, <2>3 DEF Asked, KnownMethod, Known
  <2>4. ASSUME NEW q, RightAnswer(q) /\ FirstAnswer(q)
        PROVE  (RightAnswer(q) /\ FirstAnswer(q))'
    BY <1>1, <2>3, <2>4 DEF RightAnswer, FirstAnswer
  <2>5. CallInv'
    BY <1>1, <2>1, <2>3, <2>4 DEF DispatchInv, CallInv
  <2> QED
    BY <1>1, <2>2, <2>5, ProgramSame, MethodSame DEF DispatchInv
<1>4. CASE r.opcode \in DOMAIN copy /\ CallMethod(r, heap[copy[r.opcode]])
  <2>1. PICK h, cs, a :
          /\ h = heap[copy[r.opcode]] /\ cs = Code(r.called[1]).CallMethod[r.called[2]]
          /\ a = [request |-> r,
                  outcome |-> IF cs.calls \in objects[h.service].own THEN "ZEC_SUCCESS"
                              ELSE Code(r.called[1]).defaults[cs.calls],
                  object |-> h.service, name |-> cs.calls,
                  types |-> {<<Stub(r).request, h.request, cs.request>>,
                             <<Stub(r).response, h.response, cs.response>>}]
    OBVIOUS
  <2>2. /\ h.method = r.called /\ objects[h.service].class = r.called[1]
        /\ RightAnswer(a) /\ FirstAnswer(a)
    BY <1>4, <2>1, FirstObjectServes
  <2>3. served' = Append(served, a) /\ UNCHANGED undefined
    BY <1>4, <2>1, <2>2 DEF CallMethod, Served
  <2>4. CallInv'
    BY <1>1, <2>2, <2>3, AnswersKept
  <2> QED
    BY <1>1, <2>3, <2>4, ProgramSame, MethodSame, SafeSame DEF DispatchInv
<1> QED
  BY <1>2, <1>3, <1>4 DEF WorkerServes

-----------------------------------------------------------------------------
(* The theorems                                                            *)

LEMMA DispatchNext ==
  ASSUME DispatchInv, [Next]_vars
  PROVE  DispatchInv'
<1>1. ASSUME NEW f \in protos, NEW parameter \in Options, RunPlugin(f, parameter)
      PROVE  DispatchInv'
  BY <1>1, PluginKeeps
<1>2. ASSUME NEW c \in Class, NEW own, RegisterService(c, own)
      PROVE  DispatchInv'
  BY <1>2, RegisterKeeps
<1>3. ASSUME NEW n \in DOMAIN objects, RemoveService(n)
      PROVE  DispatchInv'
  BY <1>3, RemoveKeeps
<1>4. ASSUME NEW c \in Class, NEW i \in Indices(Service(c)), StubSend(c, i)
      PROVE  DispatchInv'
  BY <1>4, StubKeeps
<1>5. CASE Start
  BY <1>5, StartKeeps
<1>6. ASSUME NEW r \in requests, WorkerServes(r)
      PROVE  DispatchInv'
  BY <1>6, ServeKeeps
<1>7. CASE UNCHANGED vars
  BY <1>7, ProgramSame, MethodSame, CallSame, SafeSame
     DEF vars, genVars, mapVars, callVars, DispatchInv
<1> QED
  BY <1>1, <1>2, <1>3, <1>4, <1>5, <1>6, <1>7 DEF Next

LEMMA DispatchInvariant == Spec => []DispatchInv
<1>1. DispatchInv /\ [Next]_vars => DispatchInv'
  BY DispatchNext
<1> QED
  BY Initially, <1>1, PTL DEF Spec

(* Whatever .proto files a program is made of, a call executes the method  *)
(* its stub is for and its data has that method's types from the stub to   *)
(* the service object: the indices in the generated tables, in the         *)
(* descriptors and in the map of the server agree.                         *)
THEOREM TheRightMethod == Spec => []RightMethod
<1>1. DispatchInv => RightMethod
  BY DEF DispatchInv, CallInv, RightAnswer, TheMethod, RightMethod
<1> QED
  BY DispatchInvariant, <1>1, PTL

(* Of all objects that were registered before Start, the first one with    *)
(* the method is called, and without one the answer is that there is none. *)
THEOREM TheFirstObject == Spec => []FirstServes
<1>1. DispatchInv => FirstServes
  BY DEF DispatchInv, CallInv, FirstAnswer, FirstServes
<1> QED
  BY DispatchInvariant, <1>1, PTL

(* Whichever object of a class RemoveService is called for, the RpcMethods *)
(* it deletes are those of the first object of that class, though it looks *)
(* them up by name in a map for all classes; a call whose class nobody     *)
(* removed uses none that is deleted, and one is only deleted twice by a   *)
(* second removal of its class.                                            *)
THEOREM RemovalGoesByClass == Spec => []RemovedByClass
<1>1. DispatchInv => RemovedByClass
  BY DEF DispatchInv, SafeInv
<1> QED
  BY DispatchInvariant, <1>1, PTL

-----------------------------------------------------------------------------
(* What is generated can be built                                          *)

(* The first two of a sequence, and how one ends in two.                   *)
LEMMA FirstTwo ==
  ASSUME NEW R, NEW s \in Seq(R), Len(s) >= 2, NEW a, NEW b
  PROVE  SubSeq(s, 1, 2) = <<a, b>> <=> s[1] = a /\ s[2] = b
<1> DEFINE t == SubSeq(s, 1, 2)
           U == R \cup {a, b}
<1>1. \A i \in 1 .. 2 : s[i] \in U
  BY LenProperties
<1>2. t \in Seq(U) /\ Len(t) = 2 /\ t[1] = s[1] /\ t[2] = s[2]
  <2>1. /\ t \in Seq(U)
        /\ Len(t) = (IF 1 <= 2 THEN 2 - 1 + 1 ELSE 0)
        /\ \A i \in 1 .. 2 - 1 + 1 : t[i] = s[1 + i - 1]
    <3>1. 1 \in Int /\ 2 \in Int
      OBVIOUS
    <3> QED
      BY <1>1, <3>1, SubSeqProperties
  <2> QED
    BY <2>1
<1>3. <<a, b>> \in Seq(U) /\ Len(<<a, b>>) = 2 /\ <<a, b>>[1] = a /\ <<a, b>>[2] = b
  OBVIOUS
<1>4. ASSUME s[1] = a, s[2] = b
      PROVE  t = <<a, b>>
  <2> HIDE DEF t, U
  <2>1. Len(t) = Len(<<a, b>>)
    BY <1>2, <1>3
  <2>2. \A i \in 1 .. Len(t) : t[i] = <<a, b>>[i]
    BY <1>2, <1>3, <1>4
  <2> QED
    BY <1>2, <1>3, <2>1, <2>2, SeqEqual
<1> HIDE DEF t
<1>5. t = <<a, b>> => s[1] = a /\ s[2] = b
  BY <1>2, <1>3
<1> QED
  BY <1>4, <1>5 DEF t

LEMMA EndsInTwo ==
  ASSUME NEW R, NEW n \in Seq(R), NEW a, NEW b
  PROVE  IsSuffix(<<a, b>>, n) <=> Len(n) >= 2 /\ n[Len(n) - 1] = a /\ n[Len(n)] = b
<1>1. PICK l \in Nat : l = Len(n) /\ DOMAIN n = 1 .. l
  BY LenProperties
<1>2. Reverse(n) = [i \in 1 .. l |-> n[(l - i) + 1]] /\ Reverse(n) \in Seq(R) /\ Len(Reverse(n)) = l
  <2>1. Reverse(n) = [i \in 1 .. l |-> n[(l - i) + 1]]
    BY <1>1 DEF Reverse
  <2>2. Reverse(n) \in [1 .. l -> R]
    <3>1. \A i \in 1 .. l : (l - i) + 1 \in 1 .. l
      OBVIOUS
    <3>2. n \in [1 .. l -> R]
      BY <1>1, LenProperties
    <3> QED
      BY <2>1, <3>1, <3>2
  <2>3. Reverse(n) \in Seq(R)
    BY <2>2, SeqDef
  <2>4. DOMAIN Reverse(n) = 1 .. Len(Reverse(n)) /\ Len(Reverse(n)) \in Nat
    BY <2>3, LenProperties
  <2> QED
    BY <2>1, <2>3, <2>4
<1>3. Reverse(<<a, b>>) = <<b, a>>
  <2>1. Len(<<a, b>>) = 2
    OBVIOUS
  <2>2. Reverse(<<a, b>>) = [i \in 1 .. 2 |-> <<a, b>>[(2 - i) + 1]]
    BY <2>1 DEF Reverse
  <2> QED
    BY <2>2
<1>4. IsSuffix(<<a, b>>, n) <=> 2 <= l /\ SubSeq(<<b, a>>, 1, 2) = SubSeq(Reverse(n), 1, 2)
  BY <1>2, <1>3 DEF IsSuffix, IsPrefix
<1>5. SubSeq(<<b, a>>, 1, 2) = <<b, a>>
  <2>1. <<b, a>> \in Seq({a, b}) /\ Len(<<b, a>>) = 2 /\ <<b, a>>[1] = b /\ <<b, a>>[2] = a
    OBVIOUS
  <2>2. 2 >= 2
    OBVIOUS
  <2> QED
    BY <2>1, <2>2, FirstTwo
<1>6. ASSUME 2 <= l
      PROVE  SubSeq(Reverse(n), 1, 2) = <<b, a>> <=> n[l - 1] = a /\ n[l] = b
  <2>1. Reverse(n)[1] = n[l] /\ Reverse(n)[2] = n[l - 1]
    BY <1>2, <1>6
  <2>2. Len(Reverse(n)) >= 2
    BY <1>2, <1>6
  <2>3. SubSeq(Reverse(n), 1, 2) = <<b, a>> <=> Reverse(n)[1] = b /\ Reverse(n)[2] = a
    BY <1>2, <2>2, FirstTwo
  <2> QED
    BY <2>1, <2>3
<1> QED
  <2>1. IsSuffix(<<a, b>>, n) <=> 2 <= l /\ n[l - 1] = a /\ n[l] = b
    BY <1>4, <1>5, <1>6
  <2> QED
    BY <1>1, <2>1

LEMMA OneAndOne ==
  ASSUME NEW R, NEW a \in R, NEW b \in R
  PROVE  <<a>> \o <<b>> = <<a, b>>
<1>1. <<a>> \in Seq(R) /\ <<b>> \in Seq(R) /\ <<a, b>> \in Seq(R)
  OBVIOUS
<1>2. Len(<<a>>) = 1 /\ Len(<<b>>) = 1 /\ Len(<<a, b>>) = 2 /\ <<a>>[1] = a /\ <<b>>[1] = b
      /\ <<a, b>>[1] = a /\ <<a, b>>[2] = b
  OBVIOUS
<1>3. PICK t \in Seq(R) : t = <<a>> \o <<b>> /\ Len(t) = 2 /\ t[1] = a /\ t[2] = b
  <2>1. /\ <<a>> \o <<b>> \in Seq(R)
        /\ Len(<<a>> \o <<b>>) = Len(<<a>>) + Len(<<b>>)
        /\ \A i \in 1 .. Len(<<a>>) + Len(<<b>>) : (<<a>> \o <<b>>)[i] =
                     IF i <= Len(<<a>>) THEN <<a>>[i] ELSE <<b>>[i - Len(<<a>>)]
    BY <1>1, ConcatProperties
  <2>2. PICK t \in Seq(R) : t = <<a>> \o <<b>>
    BY <2>1
  <2>3. Len(t) = 2 /\ \A i \in 1 .. 2 : t[i] = IF i <= 1 THEN <<a>>[i] ELSE <<b>>[i - 1]
    BY <1>2, <2>1, <2>2
  <2>4. t[1] = a /\ t[2] = b
    BY <1>2, <2>3
  <2> QED
    BY <2>2, <2>3, <2>4
<1>4. <<a, b>> = t
  <2>1. ASSUME NEW i \in 1 .. 2
        PROVE  t[i] = <<a, b>>[i]
    <3>1. t[1] = <<a, b>>[1] /\ t[2] = <<a, b>>[2]
      BY <1>2, <1>3
    <3>2. i = 1 \/ i = 2
      OBVIOUS
    <3> QED
      BY <3>1, <3>2
  <2>2. Len(t) = Len(<<a, b>>) /\ Len(t) = 2
    BY <1>2, <1>3
  <2> QED
    BY <1>1, <2>1, <2>2, SeqEqual
<1> QED
  BY <1>3, <1>4

(* The source includes its header by the name the header was written       *)
(* under.                                                                  *)
LEMMA HeaderName ==
  ASSUME NEW f \in Proto, EndsInProto(f)
  PROVE  StripProto(file[f].name) \o <<".zqrpc", ".h">> = Basename(file[f]) \o <<".h">>
<1> DEFINE n == file[f].name
           X == StripSuffixString(n, <<".", "proto">>)
           U == ToSet(n) \cup {".zqrpc", ".h"}
<1>1. n \in Seq(ToSet(n)) /\ Len(n) \in Nat /\ \A i \in 1 .. Len(n) : n[i] \in U
  <2>1. n \in Seq(ToSet(n))
    BY FileAssumption
  <2> QED
    BY <2>1, LenProperties
<1>2. n[Len(n)] = "proto" /\ ~IsSuffix(<<".", "protodevel">>, n)
  <2>1. n[Len(n)] = "proto"
    BY <1>1, EndsInTwo DEF EndsInProto
  <2> QED
    BY <1>1, <2>1, EndsInTwo
<1>3. StripProto(n) = X /\ X = SubSeq(n, 1, Len(n) - Len(<<".", "proto">>))
  BY <1>2 DEF StripProto, StripSuffixString, EndsInProto
<1>4. X \in Seq(U)
  <2>1. Len(<<".", "proto">>) = 2
    OBVIOUS
  <2>2. PICK k \in Int : k = Len(n) - 2 /\ k <= Len(n)
    <3> HIDE DEF n
    <3> QED
      BY <1>1
  <2>3. \A i \in 1 .. k : n[i] \in U
    BY <1>1, <2>2
  <2>4. SubSeq(n, 1, k) \in Seq(U)
    BY <2>3, SubSeqProperties
  <2> QED
    BY <1>3, <2>1, <2>2, <2>4
<1>5. (X \o <<".zqrpc">>) \o <<".h">> = X \o <<".zqrpc", ".h">>
  <2>1. ".zqrpc" \in U /\ ".h" \in U
    OBVIOUS
  <2> HIDE DEF X, U
  <2>2. <<".zqrpc">> \in Seq(U) /\ <<".h">> \in Seq(U)
    BY <2>1
  <2>3. <<".zqrpc">> \o <<".h">> = <<".zqrpc", ".h">>
    BY <2>1, OneAndOne
  <2> QED
    BY <1>4, <2>2, <2>3, ConcatAssociative
<1> QED
  BY <1>3, <1>5 DEF Basename

(* What is generated for a .proto file, unless it is named .protodevel or  *)
(* compiled with LITE_RUNTIME, can be built, whatever else the program is  *)
(* made of and in which order the plugin is run on it.                     *)
THEOREM GeneratedBuilds == Spec => []Builds
<1>1. DispatchInv => Builds
  <2> SUFFICES ASSUME DispatchInv, NEW f \in generated, EndsInProto(f), ~file[f].lite
               PROVE  Links(f)
    BY DEF Builds
  <2>1. f \in Proto /\ Basename(file[f]) \o <<".h">> \in files
    BY DispatchAssumption DEF DispatchInv, ProgramInv
  <2>2. \A i \in DOMAIN Source[f].services :
          Source[f].services[i].uses \in Source[f].descriptors.locals
    BY <2>1 DEF Source, GenerateSource, GenerateImplementation,
                GenerateBuildDescriptors, HasDescriptorMethods
  <2> QED
    BY <2>1, <2>2, HeaderName DEF Links
<1> QED
  BY <1>1, DispatchInvariant, PTL

-----------------------------------------------------------------------------
(* Induction, by the least number in a set: without one the numbers below  *)
(* would count more places than there are.                                 *)

LEMMA Least ==
  ASSUME NEW T \in SUBSET Nat, NEW a \in T
  PROVE  \E n \in T : \A m \in T : n <= m
<1> SUFFICES ASSUME \A n \in T : \E m \in T : m < n
             PROVE  FALSE
  <2>1. \A n, m \in T : n <= m \/ m < n
    OBVIOUS
  <2> QED
    BY <2>1
<1> DEFINE S == {n \in T : n <= a}
           Below(n) == {m \in S : m < n}
<1>1. IsFiniteSet(S)
  <2>1. S \in SUBSET Nat /\ \A n \in S : n <= a
    OBVIOUS
  <2> HIDE DEF S
  <2> QED
    BY <2>1, FS_BoundedSetOfNaturals
<1>2. PICK k \in Nat : Cardinality(S) = k
  BY <1>1, FS_CardinalityType
<1>3. \A n \in S : \E m \in S : m < n
  OBVIOUS
<1>4. a \in S
  OBVIOUS
<1>5. S \subseteq Nat
  OBVIOUS
<1> HIDE DEF S
<1>6. ASSUME NEW n \in S
      PROVE  Cardinality(Below(n)) \in 1 .. k - 1
  <2>1. IsFiniteSet(Below(n)) /\ Cardinality(Below(n)) <= Cardinality(S)
        /\ (Cardinality(Below(n)) = Cardinality(S) => S = Below(n))
    <3>1. Below(n) \in SUBSET S
      OBVIOUS
    <3> HIDE DEF Below
    <3> QED
      BY <1>1, <3>1, FS_Subset
  <2>2. Below(n) # S
    BY <1>5
  <2>3. Below(n) # {}
    BY <1>3
  <2> HIDE DEF Below
  <2>4. PICK j \in Nat : j = Cardinality(Below(n)) /\ j # 0
    BY <2>1, <2>3, FS_CardinalityType, FS_EmptySet
  <2> QED
    BY <1>2, <2>1, <2>2, <2>4
<1>7. ASSUME NEW n \in S, NEW m \in S, m < n
      PROVE  Cardinality(Below(m)) # Cardinality(Below(n))
  <2>1. Below(m) \in SUBSET Below(n) /\ Below(m) # Below(n)
    <3>1. m \in Below(n) /\ m \notin Below(m)
      BY <1>5, <1>7
    <3>2. \A x \in S : x < m => x < n
      BY <1>5, <1>7
    <3> QED
      BY <3>1, <3>2
  <2>2. IsFiniteSet(Below(n))
    <3>1. Below(n) \in SUBSET S
      OBVIOUS
    <3> HIDE DEF Below
    <3> QED
      BY <1>1, <3>1, FS_Subset
  <2> HIDE DEF Below
  <2> QED
    BY <2>1, <2>2, FS_Subset
<1> DEFINE f == [n \in S |-> Cardinality(Below(n))]
<1>8. f \in [S -> 1 .. k - 1]
  BY <1>6
<1>9. \A n, m \in S : n # m => f[n] # f[m]
  <2> HIDE DEF Below
  <2>1. \A n \in S : f[n] = Cardinality(Below(n))
    OBVIOUS
  <2>2. \A n, m \in S : n # m => n < m \/ m < n
    BY <1>5
  <2> HIDE DEF f
  <2> QED
    BY <1>7, <2>1, <2>2
<1>10. IsFiniteSet(1 .. k - 1) /\ Cardinality(1 .. k - 1) < k
  <2>1. k # 0
    BY <1>1, <1>2, <1>4, FS_EmptySet
  <2>2. PICK j \in Nat : j = k - 1
    BY <2>1
  <2>3. IsFiniteSet(1 .. j) /\ Cardinality(1 .. j) = IF 1 > j THEN 0 ELSE j - 1 + 1
    <3>1. 1 \in Int /\ j \in Int
      OBVIOUS
    <3> QED
      BY <3>1, FS_Interval
  <2> QED
    BY <2>1, <2>2, <2>3
<1> HIDE DEF f
<1> QED
  BY <1>1, <1>2, <1>8, <1>9, <1>10, FS_PigeonHole

-----------------------------------------------------------------------------
(* What FlattenSeq computes                                                *)

(* f is the concatenation of the first so many of s. *)
Partial(f, s, R) ==
  /\ f \in [0 .. Len(s) -> Seq(R)] /\ f[0] = <<>>
  /\ \A i \in 1 .. Len(s) : f[i] = f[i - 1] \o s[i]

LEMMA PartialExists ==
  ASSUME NEW R, NEW s \in Seq(Seq(R))
  PROVE  \E f : Partial(f, s, R)
<1> DEFINE Good(f, k) == /\ f \in [0 .. k -> Seq(R)] /\ f[0] = <<>>
                         /\ \A i \in 1 .. k : f[i] = f[i - 1] \o s[i]
           Bad == {k \in 0 .. Len(s) : \A f \in [0 .. k -> Seq(R)] : ~Good(f, k)}
<1>1. PICK l \in Nat : l = Len(s) /\ \A i \in 1 .. l : s[i] \in Seq(R)
  BY LenProperties
<1>2. Good([i \in 0 .. 0 |-> <<>>], 0)
  OBVIOUS
<1>3. ASSUME NEW k \in 1 .. l, NEW f, Good(f, k - 1)
      PROVE  \E g \in [0 .. k -> Seq(R)] : Good(g, k)
  <2> DEFINE g == [i \in 0 .. k |-> IF i = k THEN f[k - 1] \o s[k] ELSE f[i]]
  <2>1. f[k - 1] \o s[k] \in Seq(R)
    <3>1. f[k - 1] \in Seq(R) /\ s[k] \in Seq(R)
      BY <1>1, <1>3
    <3> QED
      BY <3>1, ConcatProperties
  <2>2. g[k] = f[k - 1] \o s[k] /\ \A i \in 0 .. k - 1 : g[i] = f[i]
    <3>1. \A i \in 0 .. k : g[i] = IF i = k THEN f[k - 1] \o s[k] ELSE f[i]
      OBVIOUS
    <3>2. k \in 0 .. k /\ \A i \in 0 .. k - 1 : i \in 0 .. k /\ i # k
      OBVIOUS
    <3> HIDE DEF g
    <3> QED
      BY <3>1, <3>2
  <2>3. g \in [0 .. k -> Seq(R)]
    BY <1>3, <2>1
  <2> HIDE DEF g
  <2>4. g[0] = <<>>
    BY <1>3, <2>2
  <2>5. ASSUME NEW i \in 1 .. k
        PROVE  g[i] = g[i - 1] \o s[i]
    <3>1. CASE i = k
      <4>1. k - 1 \in 0 .. k - 1
        OBVIOUS
      <4>2. g[k - 1] = f[k - 1]
        BY <2>2, <4>1
      <4> QED
        BY <2>2, <3>1, <4>2
    <3>2. CASE i # k
      <4>1. i \in 1 .. k - 1 /\ i \in 0 .. k - 1 /\ i - 1 \in 0 .. k - 1
        BY <3>2
      <4>2. g[i] = f[i] /\ g[i - 1] = f[i - 1]
        BY <2>2, <4>1
      <4>3. f[i] = f[i - 1] \o s[i]
        BY <1>3, <4>1
      <4> QED
        BY <4>2, <4>3
    <3> QED
      BY <3>1, <3>2
  <2> QED
    BY <2>3, <2>4, <2>5
<1> HIDE DEF Good
<1>4. Bad = {}
  <2> SUFFICES ASSUME Bad # {}
               PROVE  FALSE
    OBVIOUS
  <2>1. Bad \in SUBSET Nat
    OBVIOUS
  <2>2. PICK k \in Bad : \A j \in Bad : k <= j
    BY <2>1, Least
  <2>3. k \in 0 .. l
    BY <1>1
  <2>4. k # 0
    <3>1. [i \in 0 .. 0 |-> <<>>] \in [0 .. 0 -> Seq(R)]
      OBVIOUS
    <3> QED
      BY <1>2, <3>1
  <2>5. k - 1 \in 0 .. l /\ ~(k <= k - 1) /\ k \in 1 .. l
    BY <2>3, <2>4
  <2>6. k - 1 \notin Bad
    BY <2>2, <2>5
  <2>7. PICK f : Good(f, k - 1)
    BY <1>1, <2>5, <2>6
  <2> QED
    BY <1>3, <2>5, <2>7
<1>5. \E f : Good(f, l)
  BY <1>1, <1>4
<1> QED
  BY <1>1, <1>5 DEF Good, Partial

(* The definition of FlattenSeq by recursion has such a function.          *)
LEMMA Flattened ==
  ASSUME NEW R, NEW s \in Seq(Seq(R)), NEW f, Partial(f, s, R)
  PROVE  FlattenSeq(s) = f[Len(s)]
<1>1. PICK l \in Nat : l = Len(s) /\ \A i \in 1 .. l : s[i] \in Seq(R)
  BY LenProperties
<1>2. CASE l = 0
  <2>1. s = <<>>
    BY <1>1, <1>2, EmptySeq
  <2> QED
    BY <1>1, <1>2, <2>1 DEF FlattenSeq, Partial
<1>3. CASE l # 0
  <2> DEFINE IsFlat(g) == g = [i \in 1 .. Len(s) |-> IF i = 1 THEN s[i] ELSE g[i - 1] \o s[i]]
             h == [i \in 1 .. l |-> f[i]]
             c == CHOOSE g : IsFlat(g)
  <2>1. FlattenSeq(s) = c[Len(s)]
    BY <1>1, <1>3 DEF FlattenSeq
  <2>2. IsFlat(h)
    <3>1. ASSUME NEW i \in 1 .. l
          PROVE  h[i] = IF i = 1 THEN s[i] ELSE h[i - 1] \o s[i]
      <4> \A j \in 1 .. l : h[j] = f[j]
        OBVIOUS
      <4> HIDE DEF h
      <4>1. f[i] = f[i - 1] \o s[i]
        BY <1>1 DEF Partial
      <4>2. CASE i = 1
        <5>1. f[0] = <<>> /\ s[1] \in Seq(R)
          BY <1>1, <4>2 DEF Partial
        <5>2. <<>> \o s[1] = s[1]
          BY <5>1, ConcatEmptySeq
        <5>3. 1 - 1 = 0
          OBVIOUS
        <5>4. f[1] = f[0] \o s[1]
          BY <4>1, <4>2, <5>3
        <5>5. f[1] = s[1]
          BY <5>1, <5>2, <5>4
        <5> QED
          BY <4>2, <5>5
      <4>3. CASE i # 1
        <5>1. i - 1 \in 1 .. l
          BY <4>3
        <5> QED
          BY <4>1, <4>3, <5>1
      <4> QED
        BY <4>2, <4>3
    <3> QED
      BY <1>1, <3>1
  <2>3. IsFlat(c)
    <3> HIDE DEF IsFlat
    <3> QED
      BY <2>2
  <2>4. \A i \in 1 .. l : c[i] = IF i = 1 THEN s[i] ELSE c[i - 1] \o s[i]
    BY <1>1, <2>3
  <2> HIDE DEF c
  <2> DEFINE Bad == {i \in 1 .. l : c[i] # f[i]}
  <2>5. Bad = {}
    <3> SUFFICES ASSUME Bad # {}
                 PROVE  FALSE
      OBVIOUS
    <3>1. PICK i \in Bad : \A j \in Bad : i <= j
      <4>1. Bad \in SUBSET Nat
        OBVIOUS
      <4> QED
        BY <4>1, Least
    <3>2. h[i] = IF i = 1 THEN s[i] ELSE h[i - 1] \o s[i]
      BY <1>1, <2>2
    <3>3. CASE i = 1
      BY <2>4, <3>2, <3>3
    <3>4. CASE i # 1
      <4>1. i - 1 \in 1 .. l /\ ~(i <= i - 1)
        BY <3>4
      <4>2. c[i - 1] = f[i - 1]
        BY <3>1, <4>1
      <4>3. c[i] = c[i - 1] \o s[i] /\ f[i] = f[i - 1] \o s[i]
        BY <2>4, <3>2, <3>4, <4>1
      <4> QED
        BY <4>2, <4>3
    <3> QED
      BY <3>3, <3>4
  <2> QED
    BY <1>1, <1>3, <2>1, <2>5
<1> QED
  BY <1>2, <1>3

(* q is t behind p, item by item.                                           *)
Extended(q, p, t) ==
  /\ Len(p) \in Nat /\ Len(t) \in Nat /\ Len(q) \in Nat
  /\ Len(q) = Len(p) + Len(t)
  /\ \A x \in 1 .. Len(p) : q[x] = p[x]
  /\ \A x \in 1 .. Len(t) : q[Len(p) + x] = t[x]

Begins(p, q) ==
  /\ Len(p) \in Nat /\ Len(q) \in Nat /\ Len(p) <= Len(q)
  /\ \A x \in 1 .. Len(p) : q[x] = p[x]

LEMMA PrefixStep ==
  ASSUME NEW R, NEW s \in Seq(Seq(R)), NEW f, Partial(f, s, R), NEW i \in 1 .. Len(s)
  PROVE  Extended(f[i], f[i - 1], s[i])
<1>1. Len(s) \in Nat /\ s[i] \in Seq(R)
  BY LenProperties
<1>2. i - 1 \in 0 .. Len(s) /\ i \in 0 .. Len(s)
  BY <1>1
<1>3. f[i - 1] \in Seq(R) /\ f[i] \in Seq(R) /\ f[i] = f[i - 1] \o s[i]
  BY <1>2 DEF Partial
<1>4. PICK p \in Seq(R) : p = f[i - 1]
  BY <1>3
<1>5. PICK t \in Seq(R) : t = s[i]
  BY <1>1
<1>6. Len(p) \in Nat /\ Len(t) \in Nat
  BY LenProperties
<1>7. /\ Len(p \o t) = Len(p) + Len(t)
      /\ \A x \in 1 .. Len(p) + Len(t) : (p \o t)[x] = IF x <= Len(p) THEN p[x] ELSE t[x - Len(p)]
  BY ConcatProperties
<1>8. PICK q \in Seq(R) : q = f[i] /\ q = p \o t
  BY <1>3, <1>4, <1>5
<1>9. \A x \in 1 .. Len(p) : q[x] = p[x]
  BY <1>6, <1>7, <1>8
<1>10. \A x \in 1 .. Len(t) : q[Len(p) + x] = t[x]
  <2>1. ASSUME NEW x \in 1 .. Len(t)
        PROVE  q[Len(p) + x] = t[x]
    <3>1. Len(p) + x \in 1 .. Len(p) + Len(t) /\ ~(Len(p) + x <= Len(p))
          /\ (Len(p) + x) - Len(p) = x
      BY <1>6
    <3> QED
      BY <1>7, <1>8, <3>1
  <2> QED
    BY <2>1
<1>11. Len(q) = Len(p) + Len(t) /\ Len(q) \in Nat
  BY <1>6, <1>7, <1>8
<1> QED
  <2>1. Extended(q, p, t)
    BY <1>6, <1>9, <1>10, <1>11 DEF Extended
  <2> QED
    BY <1>4, <1>5, <1>8, <2>1

(* What the first so many are joined to stays the beginning of the whole.  *)
LEMMA PrefixStays ==
  ASSUME NEW R, NEW s \in Seq(Seq(R)), NEW f, Partial(f, s, R),
         NEW j \in 0 .. Len(s), NEW k \in j .. Len(s)
  PROVE  Begins(f[j], f[k])
<1> DEFINE Stays(i) == /\ Len(f[i]) \in Nat /\ Len(f[j]) <= Len(f[i])
                       /\ \A x \in 1 .. Len(f[j]) : f[i][x] = f[j][x]
           Bad == {i \in j .. Len(s) : ~Stays(i)}
<1>1. PICK l \in Nat : l = Len(s)
  BY LenProperties
<1>2. \A i \in 0 .. l : Len(f[i]) \in Nat
  <2>1. \A i \in 0 .. l : f[i] \in Seq(R)
    BY <1>1 DEF Partial
  <2> QED
    BY <2>1, LenProperties
<1>3. Len(f[j]) \in Nat /\ Stays(j)
  BY <1>1, <1>2
<1>4. ASSUME NEW i \in 1 .. l, j <= i - 1, Stays(i - 1)
      PROVE  Stays(i)
  <2>1. PICK p : p = f[i - 1]
    OBVIOUS
  <2>2. PICK q : q = f[i]
    OBVIOUS
  <2>3. PICK b : b = f[j] /\ Len(b) \in Nat
    BY <1>3
  <2>4. Extended(f[i], f[i - 1], s[i])
    <3>1. i \in 1 .. Len(s)
      BY <1>1
    <3> HIDE DEF Stays
    <3> QED
      BY <3>1, PrefixStep
  <2>5. PICK t : t = s[i]
    OBVIOUS
  <2>6. /\ Len(p) \in Nat /\ Len(q) \in Nat /\ Len(t) \in Nat /\ Len(q) = Len(p) + Len(t)
        /\ \A x \in 1 .. Len(p) : q[x] = p[x]
    <3>1. Extended(q, p, t)
      BY <2>1, <2>2, <2>4, <2>5
    <3> HIDE DEF Stays
    <3> QED
      BY <3>1 DEF Extended
  <2>7. Len(b) <= Len(p) /\ \A x \in 1 .. Len(b) : p[x] = b[x]
    BY <1>4, <2>1, <2>3
  <2>8. \A x \in 1 .. Len(b) : q[x] = b[x]
    BY <2>3, <2>6, <2>7
  <2>9. Len(b) <= Len(q)
    BY <2>3, <2>6, <2>7
  <2> QED
    BY <2>2, <2>3, <2>6, <2>8, <2>9
<1> HIDE DEF Stays
<1>5. Bad = {}
  <2> SUFFICES ASSUME Bad # {}
               PROVE  FALSE
    OBVIOUS
  <2>1. PICK i \in Bad : \A m \in Bad : i <= m
    <3>1. Bad \in SUBSET Nat
      BY <1>1
    <3> QED
      BY <3>1, Least
  <2>2. i \in 1 .. l /\ j <= i - 1 /\ i - 1 \in j .. l /\ ~(i <= i - 1)
    <3>1. i # j /\ i \in j .. l
      BY <1>1, <1>3
    <3> QED
      BY <1>1, <3>1
  <2>3. Stays(i - 1)
    BY <1>1, <2>1, <2>2
  <2> QED
    BY <1>4, <2>2, <2>3
<1>6. Stays(k)
  BY <1>5
<1> QED
  BY <1>3, <1>6 DEF Stays, Begins

-----------------------------------------------------------------------------
(* Identifiers for file names                                              *)

Token(c) == IF c \in {"/", ".", "_"} THEN <<"_">> \o Hex(c) ELSE <<c>>

LEMMA TokenIs ==
  ASSUME NEW c
  PROVE  /\ \A U : {c, "_", "2", "5", "e", "f"} \subseteq U => Token(c) \in Seq(U)
         /\ c \notin {"/", ".", "_"} => Len(Token(c)) = 1 /\ Token(c)[1] = c
         /\ c \in {"/", ".", "_"} =>
              /\ Len(Token(c)) = 3 /\ Token(c)[1] = "_"
              /\ Token(c)[2] = IF c = "_" THEN "5" ELSE "2"
              /\ Token(c)[3] = IF c = "." THEN "e" ELSE "f"
<1>1. ASSUME NEW a, NEW b, NEW d
      PROVE  <<a>> \o <<b, d>> = <<a, b, d>>
  <2> DEFINE R == {a, b, d}
  <2>1. <<a>> \in Seq(R) /\ <<b, d>> \in Seq(R) /\ <<a, b, d>> \in Seq(R)
    OBVIOUS
  <2>2. Len(<<a>>) = 1 /\ Len(<<b, d>>) = 2 /\ Len(<<a, b, d>>) = 3 /\ <<a>>[1] = a
        /\ <<b, d>>[1] = b /\ <<b, d>>[2] = d
        /\ <<a, b, d>>[1] = a /\ <<a, b, d>>[2] = b /\ <<a, b, d>>[3] = d
    OBVIOUS
  <2> HIDE DEF R
  <2>3. PICK p \in Seq(R), q \in Seq(R), w \in Seq(R) :
          p = <<a>> /\ q = <<b, d>> /\ w = <<a, b, d>>
    BY <2>1
  <2>4. Len(p) = 1 /\ Len(q) = 2 /\ Len(w) = 3 /\ p[1] = a /\ q[1] = b /\ q[2] = d
        /\ w[1] = a /\ w[2] = b /\ w[3] = d
    BY <2>2, <2>3
  <2>5. /\ p \o q \in Seq(R) /\ Len(p \o q) = Len(p) + Len(q)
        /\ \A i \in 1 .. Len(p) + Len(q) : (p \o q)[i] = IF i <= Len(p) THEN p[i] ELSE q[i - Len(p)]
    BY ConcatProperties
  <2>6. PICK t \in Seq(R) : t = p \o q
    BY <2>5
  <2>7. Len(t) = 3 /\ t[1] = a /\ t[2] = b /\ t[3] = d
    <3>1. Len(t) = 3 /\ \A i \in 1 .. 3 : t[i] = IF i <= 1 THEN p[i] ELSE q[i - 1]
      BY <2>4, <2>5, <2>6
    <3> QED
      BY <2>4, <3>1
  <2>8. t = w
    <3>1. ASSUME NEW i \in 1 .. Len(t)
          PROVE  t[i] = w[i]
      <4>1. i = 1 \/ i = 2 \/ i = 3
        BY <2>7
      <4> QED
        BY <2>4, <2>7, <4>1
    <3>2. Len(t) = Len(w)
      BY <2>4, <2>7
    <3> QED
      BY <3>1, <3>2, SeqEqual
  <2> QED
    BY <2>3, <2>6, <2>8
<1>2. c = "/" => Hex(c) = <<"2", "f">>
  BY DEF Hex
<1>3. c = "_" => Hex(c) = <<"5", "f">>
  BY DEF Hex
<1>4. c = "." => Hex(c) = <<"2", "e">>
  BY DEF Hex
<1>5. /\ c = "/" => Token(c) = <<"_", "2", "f">>
      /\ c = "_" => Token(c) = <<"_", "5", "f">>
      /\ c = "." => Token(c) = <<"_", "2", "e">>
  BY <1>1, <1>2, <1>3, <1>4 DEF Token
<1>6. PICK t : t = Token(c)
  OBVIOUS
<1>11. ASSUME NEW U, NEW a \in U, NEW b \in U, NEW d \in U
       PROVE  <<a, b, d>> \in Seq(U)
  OBVIOUS
<1>7. CASE c \notin {"/", ".", "_"}
  <2>1. t = <<c>>
    BY <1>6, <1>7 DEF Token
  <2>2. Len(t) = 1 /\ t[1] = c
    BY <2>1
  <2>3. ASSUME NEW U, c \in U
        PROVE  t \in Seq(U)
    BY <2>1, <2>3
  <2> QED
    BY <1>6, <1>7, <2>2, <2>3
<1>8. CASE c = "/"
  <2>1. t = <<"_", "2", "f">>
    BY <1>5, <1>6, <1>8
  <2>2. /\ Len(t) = 3 /\ t[1] = "_" /\ t[2] = "2" /\ t[3] = "f"
    BY <2>1
  <2>3. ASSUME NEW U, "_" \in U, "2" \in U, "f" \in U
        PROVE  t \in Seq(U)
    <3>1. <<"_", "2", "f">> \in Seq(U)
      BY <1>11, <2>3
    <3> QED
      BY <2>1, <3>1
  <2> QED
    BY <1>6, <1>8, <2>2, <2>3
<1>9. CASE c = "_"
  <2>1. t = <<"_", "5", "f">>
    BY <1>5, <1>6, <1>9
  <2>2. /\ Len(t) = 3 /\ t[1] = "_" /\ t[2] = "5" /\ t[3] = "f"
    BY <2>1
  <2>3. ASSUME NEW U, "_" \in U, "5" \in U, "f" \in U
        PROVE  t \in Seq(U)
    <3>1. <<"_", "5", "f">> \in Seq(U)
      BY <1>11, <2>3
    <3> QED
      BY <2>1, <3>1
  <2> QED
    BY <1>6, <1>9, <2>2, <2>3
<1>10. CASE c = "."
  <2>1. t = <<"_", "2", "e">>
    BY <1>5, <1>6, <1>10
  <2>2. /\ Len(t) = 3 /\ t[1] = "_" /\ t[2] = "2" /\ t[3] = "e"
    BY <2>1
  <2>3. ASSUME NEW U, "_" \in U, "2" \in U, "e" \in U
        PROVE  t \in Seq(U)
    <3>1. <<"_", "2", "e">> \in Seq(U)
      BY <1>11, <2>3
    <3> QED
      BY <2>1, <3>1
  <2> QED
    BY <1>6, <1>10, <2>2, <2>3
<1> QED
  BY <1>7, <1>8, <1>9, <1>10

(* Where different characters have different codes.                        *)
LEMMA TokensDiffer ==
  ASSUME NEW c, NEW d, c # d
  PROVE  \E x \in Nat : /\ x \in 1 .. Len(Token(c)) /\ x \in 1 .. Len(Token(d))
                        /\ Token(c)[x] # Token(d)[x]
<1>1. CASE c \notin {"/", ".", "_"} \/ d \notin {"/", ".", "_"}
  <2>1. Len(Token(c)) \in {1, 3} /\ Len(Token(d)) \in {1, 3} /\ Token(c)[1] # Token(d)[1]
    BY <1>1, TokenIs
  <2>2. 1 \in 1 .. Len(Token(c)) /\ 1 \in 1 .. Len(Token(d))
    BY <2>1
  <2> QED
    BY <2>1, <2>2
<1>2. CASE c \in {"/", ".", "_"} /\ d \in {"/", ".", "_"}
  <2>1. Token(c)[2] # Token(d)[2] \/ Token(c)[3] # Token(d)[3]
    <3>1. /\ Token(c)[2] = (IF c = "_" THEN "5" ELSE "2")
          /\ Token(c)[3] = (IF c = "." THEN "e" ELSE "f")
      BY <1>2, TokenIs
    <3>2. /\ Token(d)[2] = (IF d = "_" THEN "5" ELSE "2")
          /\ Token(d)[3] = (IF d = "." THEN "e" ELSE "f")
      BY <1>2, TokenIs
    <3> QED
      BY <1>2, <3>1, <3>2
  <2>2. 2 \in 1 .. 3 /\ 3 \in 1 .. 3
    OBVIOUS
  <2>3. Len(Token(c)) = 3 /\ Len(Token(d)) = 3
    BY <1>2, TokenIs
  <2> QED
    BY <2>1, <2>2, <2>3
<1> QED
  BY <1>1, <1>2

(* f spells n, character by character.                                     *)
Spells(f, n) ==
  /\ f[0] = <<>> /\ FilenameIdentifier(n) = f[Len(n)]
  /\ \A i \in 1 .. Len(n) : /\ f[i] = f[i - 1] \o Token(n[i])
                            /\ Extended(f[i], f[i - 1], Token(n[i]))
  /\ \A i \in 0 .. Len(n) : \A k \in i .. Len(n) : Begins(f[i], f[k])
  /\ \E U : FilenameIdentifier(n) \in Seq(U)

LEMMA Spelled ==
  ASSUME NEW R, NEW n \in Seq(R)
  PROVE  \E f : Spells(f, n)
<1> DEFINE U == R \cup {"_", "2", "5", "e", "f"}
           s == [i \in DOMAIN n |-> Token(n[i])]
<1>1. PICK l \in Nat : l = Len(n) /\ DOMAIN n = 1 .. l /\ \A i \in 1 .. l : n[i] \in R
  BY LenProperties
<1>2. \A i \in 1 .. l : s[i] = Token(n[i])
  BY <1>1
<1>3. ASSUME NEW c \in R
      PROVE  Token(c) \in Seq(U)
  <2>1. {c, "_", "2", "5", "e", "f"} \subseteq U
    OBVIOUS
  <2> HIDE DEF U
  <2> QED
    BY <2>1, TokenIs
<1>4. s \in [1 .. l -> Seq(U)]
  <2> HIDE DEF U
  <2> QED
    BY <1>1, <1>3
<1> HIDE DEF U
<1>5. s \in Seq(Seq(U)) /\ Len(s) = l
  <2>1. s \in Seq(Seq(U)) /\ DOMAIN s = 1 .. l
    BY <1>4, SeqDef
  <2> HIDE DEF s
  <2>2. Len(s) \in Nat /\ DOMAIN s = 1 .. Len(s)
    BY <2>1, LenProperties
  <2> QED
    BY <2>1, <2>2
<1>6. FilenameIdentifier(n) = FlattenSeq(s)
  BY DEF FilenameIdentifier, Token
<1> HIDE DEF s
<1>7. PICK f : Partial(f, s, U)
  BY <1>5, PartialExists
<1>8. FlattenSeq(s) = f[Len(s)]
  BY <1>5, <1>7, Flattened
<1>9. FilenameIdentifier(n) = f[Len(n)]
  BY <1>1, <1>5, <1>6, <1>8
<1>10. ASSUME NEW i \in 1 .. l
       PROVE  f[i] = f[i - 1] \o Token(n[i]) /\ Extended(f[i], f[i - 1], Token(n[i]))
  <2>1. i \in 1 .. Len(s)
    BY <1>5
  <2>2. Extended(f[i], f[i - 1], s[i])
    BY <1>5, <1>7, <2>1, PrefixStep
  <2>3. f[i] = f[i - 1] \o s[i]
    BY <1>7, <2>1 DEF Partial
  <2> QED
    BY <1>2, <2>2, <2>3
<1>11. ASSUME NEW i \in 0 .. l, NEW k \in i .. l
       PROVE  Begins(f[i], f[k])
  BY <1>5, <1>7, PrefixStays
<1>12. f[0] = <<>>
  BY <1>7 DEF Partial
<1>13. FilenameIdentifier(n) \in Seq(U)
  BY <1>1, <1>5, <1>7, <1>9 DEF Partial
<1> QED
  BY <1>1, <1>9, <1>10, <1>11, <1>12, <1>13 DEF Spells

(* What two names start with is spelled the same.                          *)
LEMMA SameStart ==
  ASSUME NEW R, NEW a \in Seq(R), NEW b \in Seq(R), NEW f, NEW g,
         Spells(f, a), Spells(g, b),
         NEW k \in 0 .. Len(a), k \in 0 .. Len(b), \A j \in 1 .. k : a[j] = b[j]
  PROVE  f[k] = g[k]
<1> DEFINE Bad == {j \in 0 .. k : f[j] # g[j]}
<1>1. Len(a) \in Nat /\ Len(b) \in Nat /\ k \in Nat
  BY LenProperties
<1>2. Bad = {}
  <2> SUFFICES ASSUME Bad # {}
               PROVE  FALSE
    OBVIOUS
  <2>1. PICK j \in Bad : \A m \in Bad : j <= m
    <3>1. Bad \in SUBSET Nat
      OBVIOUS
    <3> QED
      BY <3>1, Least
  <2>2. j # 0
    BY DEF Spells
  <2>3. /\ j \in 1 .. k /\ j - 1 \in 0 .. k /\ ~(j <= j - 1)
        /\ j \in 1 .. Len(a) /\ j \in 1 .. Len(b)
    BY <1>1, <2>2
  <2>4. f[j - 1] = g[j - 1] /\ a[j] = b[j]
    BY <2>1, <2>3
  <2>5. f[j] = f[j - 1] \o Token(a[j]) /\ g[j] = g[j - 1] \o Token(b[j])
    BY <2>3 DEF Spells
  <2> QED
    BY <2>4, <2>5
<1> QED
  BY <1>1, <1>2

(* The place where they differ.                                            *)
LEMMA SpellingsDiffer ==
  ASSUME NEW R, NEW a \in Seq(R), NEW b \in Seq(R), NEW k \in 1 .. Len(a),
         k \in 1 .. Len(b), a[k] # b[k], \A j \in 1 .. k - 1 : a[j] = b[j]
  PROVE  FilenameIdentifier(a) # FilenameIdentifier(b)
<1>1. PICK f : Spells(f, a)
  BY Spelled
<1>2. PICK g : Spells(g, b)
  BY Spelled
<1>3. /\ Len(a) \in Nat /\ Len(b) \in Nat /\ k - 1 \in 0 .. Len(a) /\ k - 1 \in 0 .. Len(b)
      /\ k \in 0 .. Len(a) /\ k \in 0 .. Len(b)
      /\ Len(a) \in k .. Len(a) /\ Len(b) \in k .. Len(b)
  <2>1. Len(a) \in Nat /\ Len(b) \in Nat
    BY LenProperties
  <2> QED
    BY <2>1
<1>4. PICK p : p = f[k - 1] /\ p = g[k - 1]
  BY <1>1, <1>2, <1>3, SameStart
<1>5. PICK x \in Nat : /\ x \in 1 .. Len(Token(a[k])) /\ x \in 1 .. Len(Token(b[k]))
                       /\ Token(a[k])[x] # Token(b[k])[x]
  BY TokensDiffer
<1>6. ASSUME NEW h, NEW n, NEW t, Extended(h, p, t), Begins(h, n), x \in 1 .. Len(t)
      PROVE  n[Len(p) + x] = t[x]
  <2>1. Len(p) \in Nat /\ Len(t) \in Nat /\ Len(h) = Len(p) + Len(t) /\ h[Len(p) + x] = t[x]
    BY <1>6 DEF Extended
  <2>2. Len(p) + x \in 1 .. Len(h)
    BY <1>6, <2>1
  <2> QED
    BY <1>6, <2>1, <2>2 DEF Begins
<1>7. Extended(f[k], p, Token(a[k])) /\ Begins(f[k], FilenameIdentifier(a))
  BY <1>1, <1>3, <1>4 DEF Spells
<1>8. Extended(g[k], p, Token(b[k])) /\ Begins(g[k], FilenameIdentifier(b))
  BY <1>2, <1>3, <1>4 DEF Spells
<1>9. FilenameIdentifier(a)[Len(p) + x] = Token(a[k])[x]
  BY <1>5, <1>6, <1>7
<1>10. FilenameIdentifier(b)[Len(p) + x] = Token(b[k])[x]
  BY <1>5, <1>6, <1>8
<1> QED
  BY <1>5, <1>9, <1>10

(* One that goes on after the other ends.                                  *)
LEMMA LongerSpelling ==
  ASSUME NEW R, NEW a \in Seq(R), NEW b \in Seq(R), Len(a) < Len(b),
         \A j \in 1 .. Len(a) : a[j] = b[j]
  PROVE  FilenameIdentifier(a) # FilenameIdentifier(b)
<1>1. PICK f : Spells(f, a)
  BY Spelled
<1>2. PICK g : Spells(g, b)
  BY Spelled
<1>3. PICK k \in Nat, l \in Nat : k = Len(a) /\ l = Len(b) /\ k < l
  BY LenProperties
<1>4. k \in 0 .. k /\ k \in 0 .. l /\ k + 1 \in 1 .. l /\ k + 1 \in 0 .. l /\ l \in k + 1 .. l
      /\ (k + 1) - 1 = k
  BY <1>3
<1>5. f[k] = g[k]
  BY <1>1, <1>2, <1>3, <1>4, SameStart
<1>6. Extended(g[k + 1], g[k], Token(b[k + 1])) /\ Begins(g[k + 1], g[l])
  <2>1. Extended(g[k + 1], g[(k + 1) - 1], Token(b[k + 1]))
    BY <1>2, <1>3, <1>4 DEF Spells
  <2>2. Begins(g[k + 1], g[l])
    BY <1>2, <1>3, <1>4 DEF Spells
  <2> QED
    BY <1>4, <2>1, <2>2
<1>7. Len(Token(b[k + 1])) \in {1, 3}
  BY TokenIs
<1>8. ASSUME NEW p, NEW q, NEW r, NEW t, Extended(q, p, t), Begins(q, r), Len(t) \in {1, 3}
      PROVE  p # r
  <2>1. Len(p) \in Nat /\ Len(q) \in Nat /\ Len(q) = Len(p) + Len(t)
    BY <1>8 DEF Extended
  <2>2. Len(r) \in Nat /\ Len(q) <= Len(r)
    BY <1>8 DEF Begins
  <2>3. PICK i \in Nat, j \in Nat, m \in Nat, d \in {1, 3} :
          i = Len(p) /\ j = Len(q) /\ m = Len(r) /\ d = Len(t)
    BY <1>8, <2>1, <2>2
  <2>4. j = i + d /\ j <= m
    BY <2>1, <2>2, <2>3
  <2>5. i # m
    BY <2>4
  <2> QED
    BY <2>3, <2>5
<1>9. g[k] # g[l]
  BY <1>6, <1>7, <1>8
<1> QED
  BY <1>1, <1>2, <1>3, <1>5, <1>9 DEF Spells

(* Different names have different identifiers.                             *)
LEMMA IdentifiersDiffer ==
  ASSUME NEW R, NEW a \in Seq(R), NEW b \in Seq(R), a # b
  PROVE  FilenameIdentifier(a) # FilenameIdentifier(b)
<1>1. PICK k \in Nat, l \in Nat : k = Len(a) /\ l = Len(b)
  BY LenProperties
<1> DEFINE Bad == {i \in 1 .. k : i <= l /\ a[i] # b[i]}
<1>2. CASE Bad # {}
  <2>1. PICK i \in Bad : \A j \in Bad : i <= j
    <3>1. Bad \in SUBSET Nat
      OBVIOUS
    <3> QED
      BY <1>2, <3>1, Least
  <2>2. i \in 1 .. k /\ i \in 1 .. l /\ a[i] # b[i]
    OBVIOUS
  <2>3. ASSUME NEW j \in 1 .. i - 1
        PROVE  a[j] = b[j]
    <3>1. j \in 1 .. k /\ j <= l /\ ~(i <= j)
      BY <2>2
    <3> QED
      BY <2>1, <3>1
  <2> QED
    BY <1>1, <2>2, <2>3, SpellingsDiffer
<1>3. CASE Bad = {}
  <2>1. \A i \in Nat : i \in 1 .. k /\ i \in 1 .. l => a[i] = b[i]
    BY <1>3
  <2>2. CASE k = l
    <3>1. \A i \in 1 .. Len(a) : a[i] = b[i]
      BY <1>1, <2>1, <2>2
    <3> QED
      BY <1>1, <2>2, <3>1, SeqEqual
  <2>3. CASE k < l
    <3>1. \A i \in 1 .. Len(a) : a[i] = b[i]
      BY <1>1, <2>1, <2>3
    <3> QED
      BY <1>1, <2>3, <3>1, LongerSpelling
  <2>4. CASE l < k
    <3>1. \A i \in 1 .. Len(b) : b[i] = a[i]
      BY <1>1, <2>1, <2>4
    <3> QED
      BY <1>1, <2>4, <3>1, LongerSpelling
  <2> QED
    BY <1>1, <2>2, <2>3, <2>4
<1> QED
  BY <1>2, <1>3

LEMMA Prepended ==
  ASSUME NEW S, NEW s \in Seq(S), NEW t \in Seq(S), NEW x, NEW y, <<x>> \o s = <<y>> \o t
  PROVE  s = t
<1> DEFINE U == S \cup {x, y}
<1>1. s \in Seq(U) /\ t \in Seq(U)
  <2>1. S \subseteq U
    OBVIOUS
  <2> HIDE DEF U
  <2> QED
    BY <2>1, SeqWider
<1>2. ASSUME NEW c \in U, NEW w \in Seq(U)
      PROVE  /\ Len(<<c>> \o w) = 1 + Len(w) /\ Len(w) \in Nat
             /\ \A i \in 1 .. Len(w) : (<<c>> \o w)[1 + i] = w[i]
  <2> HIDE DEF U
  <2>0. <<c>> \in Seq(U) /\ Len(<<c>>) = 1
    OBVIOUS
  <2>1. PICK p \in Seq(U) : p = <<c>> /\ Len(p) = 1
    BY <2>0
  <2>2. /\ Len(p \o w) = Len(p) + Len(w)
        /\ \A i \in 1 .. Len(p) + Len(w) : (p \o w)[i] = IF i <= Len(p) THEN p[i] ELSE w[i - Len(p)]
    BY ConcatProperties
  <2>3. Len(w) \in Nat
    BY LenProperties
  <2>4. \A i \in 1 .. Len(w) :
          1 + i \in 1 .. 1 + Len(w) /\ ~(1 + i <= 1) /\ (1 + i) - 1 = i
    BY <2>3
  <2>5. \A i \in 1 .. Len(w) : (p \o w)[1 + i] = w[i]
    BY <2>1, <2>2, <2>4
  <2> QED
    BY <2>1, <2>2, <2>3, <2>5
<1>3. x \in U /\ y \in U
  OBVIOUS
<1> HIDE DEF U
<1>4. PICK p : p = <<x>> \o s /\ p = <<y>> \o t
  OBVIOUS
<1>5. Len(p) = 1 + Len(s) /\ Len(s) \in Nat /\ \A i \in 1 .. Len(s) : p[1 + i] = s[i]
  BY <1>1, <1>2, <1>3, <1>4
<1>6. Len(p) = 1 + Len(t) /\ Len(t) \in Nat /\ \A i \in 1 .. Len(t) : p[1 + i] = t[i]
  BY <1>1, <1>2, <1>3, <1>4
<1>7. Len(s) = Len(t)
  BY <1>5, <1>6
<1>8. \A i \in 1 .. Len(s) : s[i] = t[i]
  BY <1>5, <1>6, <1>7
<1> QED
  BY <1>7, <1>8, SeqEqual

LEMMA BasenamesDiffer ==
  ASSUME NEW f \in Proto, NEW g \in Proto, EndsInProto(f), EndsInProto(g),
         Basename(file[f]) = Basename(file[g])
  PROVE  file[f].name = file[g].name
<1> DEFINE U == ToSet(file[f].name) \cup ToSet(file[g].name) \cup {".zqrpc"}
           Shape(h, n, k, b) ==
             /\ n = file[h].name /\ Len(n) = k + 2 /\ n[k + 1] = "." /\ n[k + 2] = "proto"
             /\ b = Basename(file[h]) /\ Len(b) = k + 1 /\ \A i \in 1 .. k : b[i] = n[i]
<1>1. ASSUME NEW h \in Proto, EndsInProto(h), ToSet(file[h].name) \subseteq U
      PROVE  \E n \in Seq(U), k \in Nat : \E b : Shape(h, n, k, b)
  <2>1. PICK n \in Seq(U) : n = file[h].name
    <3>1. file[h].name \in Seq(ToSet(file[h].name))
      BY FileAssumption
    <3> HIDE DEF U
    <3> QED
      BY <1>1, <3>1, SeqWider
  <2>2. ".zqrpc" \in U
    OBVIOUS
  <2> HIDE DEF U
  <2>3. IsSuffix(<<".", "proto">>, n)
    BY <1>1, <2>1 DEF EndsInProto
  <2>4. Len(n) >= 2 /\ n[Len(n) - 1] = "." /\ n[Len(n)] = "proto"
    BY <2>3, EndsInTwo
  <2>5. PICK k \in Nat : Len(n) = k + 2
    <3>1. Len(n) \in Nat
      BY LenProperties
    <3>2. Len(n) - 2 \in Nat /\ Len(n) = (Len(n) - 2) + 2
      BY <2>4, <3>1
    <3> QED
      BY <3>2
  <2>6. n[k + 1] = "." /\ n[k + 2] = "proto"
    <3>1. (k + 2) - 1 = k + 1
      OBVIOUS
    <3> QED
      BY <2>4, <2>5, <3>1
  <2>7. PICK m : m = SubSeq(n, 1, k)
    OBVIOUS
  <2>8. m \in Seq(U) /\ Len(m) = k /\ \A i \in 1 .. k : m[i] = n[i]
    <3>1. \A i \in 1 .. k : n[i] \in U
      BY <2>5, LenProperties
    <3>2. /\ SubSeq(n, 1, k) \in Seq(U)
          /\ Len(SubSeq(n, 1, k)) = (IF 1 <= k THEN k - 1 + 1 ELSE 0)
          /\ \A i \in 1 .. k - 1 + 1 : SubSeq(n, 1, k)[i] = n[1 + i - 1]
      BY <3>1, SubSeqProperties
    <3>3. k - 1 + 1 = k /\ \A i \in 1 .. k : 1 + i - 1 = i
      OBVIOUS
    <3> QED
      BY <2>7, <3>2, <3>3
  <2>9. Basename(file[h]) = m \o <<".zqrpc">>
    <3>1. Len(<<".", "proto">>) = 2 /\ (k + 2) - 2 = k
      OBVIOUS
    <3> QED
      BY <2>1, <2>3, <2>5, <2>7, <3>1 DEF Basename, StripSuffixString
  <2>10. PICK p \in Seq(U) : p = <<".zqrpc">> /\ Len(p) = 1
    <3>1. ASSUME NEW x \in U
          PROVE  <<x>> \in Seq(U) /\ Len(<<x>>) = 1
      OBVIOUS
    <3> QED
      BY <2>2, <3>1
  <2>11. /\ Len(m \o p) = Len(m) + Len(p)
         /\ \A i \in 1 .. Len(m) + Len(p) : (m \o p)[i] = IF i <= Len(m) THEN m[i] ELSE p[i - Len(m)]
    BY <2>8, ConcatProperties
  <2>12. PICK b : b = m \o p
    OBVIOUS
  <2>13. Len(b) = k + 1 /\ \A i \in 1 .. k : b[i] = m[i]
    BY <2>8, <2>10, <2>11, <2>12
  <2>14. b = Basename(file[h]) /\ \A i \in 1 .. k : b[i] = n[i]
    BY <2>8, <2>9, <2>10, <2>12, <2>13
  <2>15. Shape(h, n, k, b)
    BY <2>1, <2>5, <2>6, <2>13, <2>14
  <2> HIDE DEF Shape
  <2> QED
    BY <2>15
<1>2. ToSet(file[f].name) \subseteq U /\ ToSet(file[g].name) \subseteq U
  OBVIOUS
<1> HIDE DEF U, Shape
<1>3. PICK n \in Seq(U), k \in Nat : \E b : Shape(f, n, k, b)
  BY <1>1, <1>2
<1>4. PICK b : Shape(f, n, k, b)
  BY <1>3
<1>5. /\ n = file[f].name /\ Len(n) = k + 2 /\ n[k + 1] = "." /\ n[k + 2] = "proto"
      /\ b = Basename(file[f]) /\ Len(b) = k + 1 /\ \A i \in 1 .. k : b[i] = n[i]
  BY <1>4 DEF Shape
<1>6. PICK m \in Seq(U), l \in Nat : \E d : Shape(g, m, l, d)
  BY <1>1, <1>2
<1>7. PICK d : Shape(g, m, l, d)
  BY <1>6
<1>8. /\ m = file[g].name /\ Len(m) = l + 2 /\ m[l + 1] = "." /\ m[l + 2] = "proto"
      /\ d = Basename(file[g]) /\ Len(d) = l + 1 /\ \A i \in 1 .. l : d[i] = m[i]
  BY <1>7 DEF Shape
<1>9. b = d
  BY <1>5, <1>8
<1>10. k = l
  BY <1>5, <1>8, <1>9
<1>11. ASSUME NEW i \in 1 .. Len(n)
      PROVE  n[i] = m[i]
  <2>1. i \in 1 .. k \/ i = k + 1 \/ i = k + 2
    BY <1>5
  <2> QED
    BY <1>5, <1>8, <1>9, <1>10, <2>1
<1>12. Len(n) = Len(m)
  BY <1>5, <1>8, <1>10
<1>13. n = m
  BY <1>11, <1>12, SeqEqual
<1> QED
  BY <1>5, <1>8, <1>13

(* What one file exports is named after it.                                *)
LEMMA ExportsDiffer ==
  ASSUME NEW f \in Proto, NEW g \in Proto, NEW x \in Exported(f), x \in Exported(g)
  PROVE  file[f].name = file[g].name
<1> DEFINE Kinds == {"protobuf_AddDesc_", "protobuf_AssignDesc_", "protobuf_ShutdownFile_"}
           Id(h) == FilenameIdentifier(file[h].name)
<1>1. ASSUME NEW h \in Proto, x \in Exported(h)
      PROVE  \E v \in Kinds : x.name = <<"zqrpc_">> \o (<<v>> \o Id(h))
  BY <1>1 DEF Exported, Source, GenerateSource, GenerateBuildDescriptors, Zqrpc, Symbol,
              GlobalAddDescriptorsName, GlobalAssignDescriptorsName, GlobalShutdownFileName
<1> HIDE DEF Id
<1>2. PICK v \in Kinds, w \in Kinds : /\ x.name = <<"zqrpc_">> \o (<<v>> \o Id(f))
                                      /\ x.name = <<"zqrpc_">> \o (<<w>> \o Id(g))
  BY <1>1
<1> DEFINE R == ToSet(file[f].name) \cup ToSet(file[g].name)
<1>3. file[f].name \in Seq(R) /\ file[g].name \in Seq(R)
  <2>1. file[f].name \in Seq(ToSet(file[f].name)) /\ file[g].name \in Seq(ToSet(file[g].name))
    BY FileAssumption
  <2>2. ToSet(file[f].name) \subseteq R /\ ToSet(file[g].name) \subseteq R
    OBVIOUS
  <2> HIDE DEF R
  <2> QED
    BY <2>1, <2>2, SeqWider
<1> HIDE DEF R
<1>4. PICK U, V : Id(f) \in Seq(U) /\ Id(g) \in Seq(V)
  BY <1>3, Spelled DEF Spells, Id
<1> DEFINE W == U \cup V \cup Kinds
<1>5. Id(f) \in Seq(W) /\ Id(g) \in Seq(W) /\ v \in W /\ w \in W
  <2>1. U \subseteq W /\ V \subseteq W /\ v \in W /\ w \in W
    OBVIOUS
  <2> HIDE DEF W
  <2> QED
    BY <1>4, <2>1, SeqWider
<1> HIDE DEF W, Kinds
<1>6. <<v>> \o Id(f) \in Seq(W) /\ <<w>> \o Id(g) \in Seq(W)
  <2>1. <<v>> \in Seq(W) /\ <<w>> \in Seq(W)
    BY <1>5
  <2> QED
    BY <1>5, <2>1, ConcatProperties
<1>7. <<v>> \o Id(f) = <<w>> \o Id(g)
  BY <1>2, <1>6, Prepended
<1>8. Id(f) = Id(g)
  BY <1>5, <1>7, Prepended
<1> QED
  BY <1>3, <1>8, IdentifiersDiffer DEF Id

(* Two files of one program that the plugin was run on have different      *)
(* paths, include guards and exported functions, whatever they are called: *)
(* in an identifier the hex codes keep all names apart.  (Characters other *)
(* than slash, dot and underscore are letters and digits in Plugin.)       *)
THEOREM FilesApart == Spec => []NoClash
<1>1. DispatchInv => NoClash
  <2> SUFFICES ASSUME DispatchInv, NEW f \in generated, NEW g \in generated, f # g,
                      EndsInProto(f), EndsInProto(g)
               PROVE  /\ Basename(file[f]) # Basename(file[g])
                      /\ Header[f].guard # Header[g].guard
                      /\ Exported(f) \cap Exported(g) = {}
    BY DEF NoClash
  <2>1. f \in Proto /\ g \in Proto /\ file[f].name # file[g].name
    BY DispatchAssumption, FileAssumption DEF DispatchInv, ProgramInv
  <2>2. Basename(file[f]) # Basename(file[g])
    BY <2>1, BasenamesDiffer
  <2>3. Exported(f) \cap Exported(g) = {}
    BY <2>1, ExportsDiffer
  <2>4. Header[f].guard # Header[g].guard
    <3> DEFINE R == ToSet(file[f].name) \cup ToSet(file[g].name)
    <3>1. file[f].name \in Seq(R) /\ file[g].name \in Seq(R)
      <4>1. file[f].name \in Seq(ToSet(file[f].name)) /\ file[g].name \in Seq(ToSet(file[g].name))
        BY <2>1, FileAssumption
      <4>2. ToSet(file[f].name) \subseteq R /\ ToSet(file[g].name) \subseteq R
        OBVIOUS
      <4> HIDE DEF R
      <4> QED
        BY <4>1, <4>2, SeqWider
    <3> HIDE DEF R
    <3>2. FilenameIdentifier(file[f].name) # FilenameIdentifier(file[g].name)
      BY <2>1, <3>1, IdentifiersDiffer
    <3> QED
      BY <2>1, <3>2 DEF Header, GenerateHeader
  <2> QED
    BY <2>2, <2>3, <2>4
<1> QED
  BY <1>1, DispatchInvariant, PTL

=============================================================================
