------------------------------ MODULE MCDispatch ------------------------------
(* Instances of Dispatch for TLC.                                          *)
EXTENDS Dispatch

Message(package, path) == [package |-> package, path |-> path]
Ask    == Message(<<"p">>, <<<<"Ask">>>>)
Reply  == Message(<<"p">>, <<<<"Reply">>>>)
Nested == Message(<<"p">>, <<<<"Reply">>, <<"Part">>>>)

M(name, input, output) == [name |-> name, input |-> input, output |-> output]

File(stem, suffix, lite, deps, services) ==
  [name |-> stem \o <<".", suffix>>, package |-> <<"p">>, lite |-> lite,
   deps |-> deps, services |-> services]

Imported == [name |-> <<"t", ".", "proto">>, package |-> <<"q">>]

Files == [
  two   |-> File(<<"a">>, "proto", FALSE, <<Imported>>,
    << [name |-> "S", methods |-> <<M("F", Ask, Reply), M("G", Ask, Nested)>>],
       [name |-> "T", methods |-> <<M("F", Reply, Ask)>>] >>),
  slash |-> File(<<"b", "/">>, "proto", FALSE, <<>>, <<>>),
  hex   |-> File(<<"b", "_", "2", "f">>, "proto", FALSE, <<>>, <<>>),
  lite  |-> File(<<"l">>, "proto", TRUE, <<>>,
    << [name |-> "L", methods |-> <<M("F", Ask, Reply)>>] >>),
  devel |-> File(<<"d">>, "protodevel", FALSE, <<>>,
    << [name |-> "D", methods |-> <<M("F", Ask, Reply)>>] >>)]

FileNames    == DOMAIN Files
FourPrograms == {{"two"}, {"slash", "hex"}, {"lite"}, {"devel"}}

=============================================================================
