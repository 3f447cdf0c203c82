--------------------------------- MODULE MCNames ---------------------------------
(* Four programs.  Two make closures and call them, the first one closure    *)
(* within another (4, 6), the second one within itself (4), on a variable of *)
(* the boot and others.  The third bends and fills the prototype of all      *)
(* functions (2), which has a getter, and an object of its own (4).  The     *)
(* fourth constructs objects (6, 7) by a function (4) and makes them         *)
(* prototypes in their turn.                                                 *)
EXTENDS Names

Seven == [type |-> "integer", is |-> 7]
FloatKey == [type |-> "float", is |-> 0]
MCLiterals == {Seven}
MCPrograms == {
  [does |-> {"declvar", "load", "store", "arg", "function", "call", "ret"}, keys |-> {}, keeps |-> {4, 6},
   max |-> [envs |-> 6, vars |-> 2, things |-> 7, props |-> 1, calls |-> 3]],
  [does |-> {"declvar", "load", "store", "arg", "function", "call", "ret"}, keys |-> {}, keeps |-> {4},
   max |-> [envs |-> 5, vars |-> 3, things |-> 5, props |-> 1, calls |-> 3]],
  [does |-> {"object", "set", "get"}, keys |-> {Proto, Call, Undefined, Null, FloatKey}, keeps |-> {2, 4},
   max |-> [envs |-> 2, vars |-> 1, things |-> 4, props |-> 2, calls |-> 1]],
  [does |-> {"function", "new", "set", "get", "ret"}, keys |-> {Prototype, Call}, keeps |-> {4, 6},
   max |-> [envs |-> 5, vars |-> 1, things |-> 7, props |-> 1, calls |-> 2]]}
================================================================================
