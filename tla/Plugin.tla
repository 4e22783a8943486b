-------------------------------- MODULE Plugin --------------------------------
(***************************************************************************)
(* The code generator (src/plugin): what the pair of files contains that   *)
(* it writes for a .proto file, as far as that decides whether the files   *)
(* fit together, with each other and with those of other .proto files, and *)
(* what the generated classes do when they are called.  Dispatch runs      *)
(* them.                                                                   *)
(*                                                                         *)
(* Indices count from zero, as in the C++ code; sequences from one.  A     *)
(* .proto file is a record: name (a sequence of characters, where "proto"  *)
(* and "protodevel" count as one), package (its parts), lite (optimize_for *)
(* = LITE_RUNTIME), deps (the files it imports) and services, each with a  *)
(* name and methods, each with name, input and output.  A message type has *)
(* a package and a path, the names of the types it is nested in and its    *)
(* own, each a sequence of words that underscores separate.                *)
(***************************************************************************)
EXTENDS Integers, Sequences, SequencesExt

NoOption  == <<>>
Options   == {NoOption, <<"dllexport_decl">>, <<"dllexport_decl", "unknown">>}

-----------------------------------------------------------------------------
(* Names (cpp_helpers.cc)                                                  *)

StripSuffixString(name, suffix) ==
  IF IsSuffix(suffix, name) THEN SubSeq(name, 1, Len(name) - Len(suffix))
  ELSE name

StripProto(name) ==
  IF IsSuffix(<<".", "protodevel">>, name)
  THEN StripSuffixString(name, <<".", "protodevel">>)
  ELSE StripSuffixString(name, <<".", "proto">>)

Hex(c) == CASE c = "/" -> <<"2", "f">>
            [] c = "_" -> <<"5", "f">>
            [] c = "." -> <<"2", "e">>

KeepsUnderscore(name) == FlattenSeq([i \in DOMAIN name |->
  IF name[i] \in {"/", "."} THEN <<"_">> \o Hex(name[i]) ELSE <<name[i]>>])

(* Other characters than letters and digits become their hex codes.        *)
FilenameIdentifier(name) == FlattenSeq([i \in DOMAIN name |->
  IF name[i] \in {"/", ".", "_"} THEN <<"_">> \o Hex(name[i]) ELSE <<name[i]>>])

(* A symbol of C++: the namespace it is in, and its name.                  *)
Symbol(package, name) == [scope |-> package, name |-> name]

GlobalAddDescriptorsName(name) ==
  <<"protobuf_AddDesc_">> \o FilenameIdentifier(name)
GlobalAssignDescriptorsName(name) ==
  <<"protobuf_AssignDesc_">> \o FilenameIdentifier(name)
GlobalShutdownFileName(name) ==
  <<"protobuf_ShutdownFile_">> \o FilenameIdentifier(name)

DotsToUnderscores(path) == FlattenSeq(path)

(* The class of a nested message: its path joined by underscores.          *)
ClassName(type) == Symbol(type.package, DotsToUnderscores(type.path))

HasDescriptorMethods(f) == ~f.lite

-----------------------------------------------------------------------------
(* A service (ServiceGenerator.cc).  Methods are printed in their order,   *)
(* each with its index.                                                    *)

Indices(service) == 0 .. Len(service.methods) - 1
MethodAt(service, i) == service.methods[i + 1]

(* The signatures in the interface, and those of the stub, where each      *)
(* method makes three functions.                                           *)
Signature(m, prefix, takes) ==
  [name |-> <<m.name>> \o prefix, takes |-> takes]

GenerateMethodSignatures(service, stub) ==
  UNION {LET m == MethodAt(service, i) IN
    IF stub
    THEN {Signature(m, <<>>, <<ClassName(m.input), ClassName(m.output), "deadline">>),
          Signature(m, <<"_Send">>, <<ClassName(m.input)>>),
          Signature(m, <<"_Recv">>, <<ClassName(m.output), "deadline">>)}
    ELSE {Signature(m, <<>>, <<ClassName(m.input), ClassName(m.output)>>)}
    : i \in Indices(service)}

GenerateInterface(f, service, dllexport) ==
  [class   |-> Symbol(f.package, <<service.name>>), dllexport |-> dllexport,
   methods |-> GenerateMethodSignatures(service, FALSE)]

GenerateStubDefinition(f, service, dllexport) ==
  [class   |-> Symbol(f.package, <<service.name, "_Stub">>),
   dllexport |-> dllexport,
   methods |-> GenerateMethodSignatures(service, TRUE)]

GenerateDeclarations(f, service, dllexport) ==
  {GenerateInterface(f, service, dllexport),
   GenerateStubDefinition(f, service, dllexport)}

(* <classname>_descriptor_ = file->service(index)                          *)
GenerateDescriptorInitializer(service, index) ==
  [variable |-> service.name, index |-> index]

(* The bodies that a service object runs where it does not override them.  *)
GenerateNotImplementedMethods(service) ==
  [name \in {m.name : m \in ToSet(service.methods)} |->
     "ZEC_METHODNOTIMPLEMENTED"]

(* The switch on method->index(): what is called, and what the request and *)
(* the response are cast to.                                               *)
GenerateCallMethod(service) ==
  [i \in Indices(service) |->
     LET m == MethodAt(service, i) IN
     [calls |-> m.name, request |-> ClassName(m.input),
      response |-> ClassName(m.output)]]

SwapsPrototypes(service, which) ==
  [i \in Indices(service) |->
     LET m == MethodAt(service, i) IN
     ClassName(IF which = "REQUEST" THEN m.output ELSE m.input)]

GenerateGetPrototype(service, which) ==
  [i \in Indices(service) |->
     LET m == MethodAt(service, i) IN
     ClassName(IF which = "REQUEST" THEN m.input ELSE m.output)]

(* The stub's <name>_Send uses descriptor()->method(index); <name> is      *)
(* _Send and then _Recv.                                                   *)
GenerateStubMethods(service) ==
  [i \in Indices(service) |->
     LET m == MethodAt(service, i) IN
     [name |-> m.name, index |-> i, request |-> ClassName(m.input),
      response |-> ClassName(m.output)]]

GenerateImplementation(service) ==
  [uses             |-> "protobuf_AssignDescriptorsOnce",
   defaults         |-> GenerateNotImplementedMethods(service),
   CallMethod       |-> GenerateCallMethod(service),
   RequestPrototype |-> GenerateGetPrototype(service, "REQUEST"),
   ResponsePrototype |-> GenerateGetPrototype(service, "RESPONSE"),
   stub             |-> GenerateStubMethods(service)]

-----------------------------------------------------------------------------
(* The header and the source (FileGenerator.cc).  Everything but the       *)
(* includes is in the namespaces of the package.                           *)

Zqrpc(package, name) == Symbol(package, <<"zqrpc_">> \o name)

GenerateHeader(f, dllexport) ==
  [guard    |-> FilenameIdentifier(f.name),
   includes |-> {StripProto(d.name) \o <<".pb.h">> : d \in ToSet(f.deps)}
                  \cup {StripProto(f.name) \o <<".pb.h">>},
   declares |-> {Zqrpc(f.package, GlobalAssignDescriptorsName(f.name)),
                 Zqrpc(f.package, GlobalShutdownFileName(f.name))},
   classes  |-> UNION {GenerateDeclarations(f, s, dllexport)
                         : s \in ToSet(f.services)}]

(* AssignDescriptors and its Once only with descriptors; Shutdown and      *)
(* AddDescriptors always, the latter calling those of the imported files.  *)
GenerateBuildDescriptors(f) ==
  LET assign   == Zqrpc(f.package, GlobalAssignDescriptorsName(f.name))
      shutdown == Zqrpc(f.package, GlobalShutdownFileName(f.name))
      add      == Zqrpc(f.package, GlobalAddDescriptorsName(f.name))
  IN [defines |-> {shutdown, add} \cup
                    (IF HasDescriptorMethods(f) THEN {assign} ELSE {}),
      locals  |-> IF HasDescriptorMethods(f)
                  THEN {"protobuf_AssignDescriptorsOnce", "protobuf_RegisterTypes"}
                  ELSE {},
      assigns |-> IF HasDescriptorMethods(f)
                  THEN {GenerateDescriptorInitializer(f.services[i], i - 1)
                          : i \in DOMAIN f.services}
                  ELSE {},
      calls   |-> {Symbol(d.package, GlobalAddDescriptorsName(d.name))
                     : d \in ToSet(f.deps)}]

GenerateSource(f) ==
  [includes    |-> {StripProto(f.name) \o <<".zqrpc", ".h">>,
                    StripProto(f.name) \o <<".pb.h">>},
   variables   |-> {s.name : s \in ToSet(f.services)},
   descriptors |-> GenerateBuildDescriptors(f),
   services    |-> [i \in DOMAIN f.services |->
                      GenerateImplementation(f.services[i])]]

-----------------------------------------------------------------------------
(* Generate (ZqrpcCppGenerator.cc): the files opened and what they contain *)

KnownOptions(parameter) ==
  \A i \in DOMAIN parameter : parameter[i] = "dllexport_decl"

KeepsExtension(f) == f.name \o <<".zqrpc">>

Basename(f) == StripSuffixString(f.name, <<".", "proto">>) \o <<".zqrpc">>

Generate(f, parameter) ==
  IF KnownOptions(parameter)
  THEN {[path |-> Basename(f) \o <<".h">>,
         content |-> GenerateHeader(f, parameter # NoOption)],
        [path |-> Basename(f) \o <<".cc">>, content |-> GenerateSource(f)]}
  ELSE {}

=============================================================================
