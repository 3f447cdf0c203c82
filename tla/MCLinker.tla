-------------------------------- MODULE MCLinker --------------------------------
EXTENDS Linker

MCNames == <<"a", "b", "c", "k", "l", "n", "stdlib">>
MCLibraries == {"k", "l"}       \* n is not found
MCFunctionCount == [x \in ToSet(MCNames) |-> CASE x = "a" -> 1 [] x \in {"b", "k"} -> 3 [] OTHER -> 2]

(* Modules a, b and c import each other by paths, and libraries by names;  *)
(* a library imports another, and one a module; a names a library by a     *)
(* path.                                                                   *)
Arrows ==
  {<<"a", "b", "user">>, <<"a", "c", "user">>, <<"b", "a", "user">>, <<"b", "c", "user">>, <<"c", "a", "user">>, <<"c", "b", "user">>,
   <<"a", "l", "sys">>, <<"b", "l", "sys">>, <<"l", "k", "sys">>, <<"k", "l", "sys">>, <<"a", "n", "sys">>, <<"l", "n", "sys">>,
   <<"k", "c", "user">>, <<"a", "k", "user">>}
ImportsBy(arrows) == [m \in ToSet(MCNames) |-> {[name |-> r[2], kind |-> r[3]] : r \in {x \in arrows : x[1] = m}}]

CONSTANT MaxArrows
MCPrograms ==
  {[users |-> us, imports |-> ImportsBy(A), entry |-> "a", stdlib |-> std, exporters |-> ex] :
     us \in {<<"a", "b", "c">>}, A \in UNION {kSubset(n, Arrows) : n \in 0..MaxArrows}, std \in BOOLEAN,
     ex \in {{"b", "c", "l"}, {"a", "b", "k"}}}
  \cup {[users |-> us, imports |-> ImportsBy({<<"a", "l", "sys">>}), entry |-> "", stdlib |-> std, exporters |-> {}] :
     us \in {<<"a">>, <<"a", "b">>}, std \in BOOLEAN}
  \cup {[users |-> <<"b">>, imports |-> ImportsBy({}), entry |-> "", stdlib |-> FALSE, exporters |-> {}]}
=============================================================================
