--------------------------------- MODULE MCCode ---------------------------------
(***************************************************************************)
(* Programs for Code.  A program of the first kind makes two values, works *)
(* on them, shows what comes out and ends; there is one for every operator *)
(* and every pair of values.  The others have branches, functions,         *)
(* parameters, calls, names and debug sections.                            *)
(***************************************************************************)
EXTENDS Code

(* Where an item comes from; some come from nowhere.                       *)
Loc(k) == <<k, 0, k, 9, 300 * k, 300 * k + 9>>

(* Registers in another order than the variables.                          *)
Function1(params, items, variables) ==
  [params |-> params, items |-> items,
   reg |-> [x \in 0 .. variables - 1 |-> variables - 1 - x], need |-> variables]

Empty == [id |-> 1, symbol |-> FALSE, body |-> <<>>]
LetterA == [id |-> 2, symbol |-> FALSE, body |-> <<97>>]
SymbolX == [id |-> 3, symbol |-> TRUE, body |-> <<120, 121>>]
Strings == <<Empty, LetterA, SymbolX>>

Program(functions, top, debug, cuttable) ==
  [functions |-> functions, top |-> top, data |-> Strings, exports |-> <<>>, imports |-> <<>>,
   debug |-> debug, cuttable |-> cuttable]

Halt == [type |-> "halt", loc |-> Nowhere]
Number(x, v) == [type |-> "load_number", reg |-> x, float |-> FALSE, value |-> v, loc |-> Loc(2)]
FloatNumber(x) == [type |-> "load_number", reg |-> x, float |-> TRUE, value |-> 7, loc |-> Loc(3)]
Plain(type, x) == [type |-> type, reg |-> x, loc |-> Loc(4)]
Truth(x, b) == [type |-> "load_bool", reg |-> x, value |-> b, loc |-> Loc(5)]
This(x) == [type |-> "this", dst |-> x, loc |-> Loc(6)]
Text(x, id) == [type |-> "load_string", reg |-> x, data |-> id, loc |-> Loc(7)]
Closure(x, n) == [type |-> "make_function", reg |-> x, func |-> n, loc |-> Loc(8)]
Label(l) == [type |-> "label", to |-> l, loc |-> Loc(9)]
Br(l) == [type |-> "br", dest |-> l, loc |-> Nowhere]
BrIf(x, l) == [type |-> "br_cond", cond |-> x, dest |-> l, loc |-> Loc(11)]
Op(type, x, l, r) == [type |-> type, dst |-> x, lhs |-> l, rhs |-> r, loc |-> Loc(12)]
Op1(type, x, s) == [type |-> type, dst |-> x, src |-> s, loc |-> Loc(13)]
Merge(x, t, c, a) == [type |-> "merge", dst |-> x, test |-> t, consequent |-> c, alternate |-> a, loc |-> Loc(14)]
Call(x, f, args) == [type |-> "call", dst |-> x, callee |-> f, bound |-> FALSE, arguments |-> args, loc |-> Loc(15)]
CallThis(x, f, this, args) ==
  [type |-> "call", dst |-> x, callee |-> f, this |-> this, bound |-> TRUE, arguments |-> args, loc |-> Loc(16)]
Construct(x, f, args) == [type |-> "new", dst |-> x, callee |-> f, arguments |-> args, loc |-> Loc(17)]

Limit == Body - 1
Integers == {0, 1, -1, 3, -7, 128, -129, Limit, -Limit}
Beyond == {-128, 127, 32767, 32768, -32768, -32769, Limit + 1, -Limit - 1, 2 * Limit + 2, 2 * Limit + 7}
Others(x) == {Truth(x, TRUE), Truth(x, FALSE), Plain("load_undefined", x), Plain("load_null", x),
              FloatNumber(x), Text(x, 1), Text(x, 2), Closure(x, 1), Closure(x, 2),
              Plain("load_object", x), Plain("load_array", x)}
Small(x) == {Number(x, v) : v \in {0, 1, -1, Limit}} \cup Others(x)
Numbers(x) == {Number(x, v) : v \in Integers}

Logical == {"binary_e2", "binary_ne2", "binary_e3", "binary_ne3", "binary_and", "binary_or"}
Operands2(type) ==
  IF type \in Logical THEN Small(0) \X Small(1)
  ELSE (Numbers(0) \X Numbers(1)) \cup (Others(0) \X {Number(1, -7), Text(1, 2), FloatNumber(1)})
       \cup ({Number(0, -7), Text(0, 2)} \X Others(1))

Returns == Function1(<<>>, <<Plain("load_undefined", 0), Plain("ret", 0)>>, 1)
Main(items, variables) ==
  Program(<<Returns, Function1(<<>>, items, variables)>>, 2, FALSE, FALSE)

Operating ==
  UNION {{Main(<<p[1], p[2], Op(type, 2, 0, 1), Plain("inspect", 2), Halt>>, 3) : p \in Operands2(type)} :
     type \in Binary}
  \cup {Main(<<a, Op1(type, 1, 0), Plain("inspect", 1), Halt>>, 2) :
     a \in Small(0) \cup Numbers(0) \cup {Number(0, v) : v \in Beyond}, type \in Unary}
  \cup {Main(<<a, Op(type, 1, 0, 0), Plain("inspect", 1), Halt>>, 2) :
     a \in Small(0), type \in {"binary_e2", "binary_ne3", "binary_and"}}
  \cup {Main(<<a, Number(1, 1), Number(2, 2), Merge(3, 0, 1, 2), Plain("inspect", 3),
               BrIf(0, "then"), Plain("inspect", 1), Label("then"), Halt>>, 4) : a \in Small(0)}

(* while (i < 3) { show(i); i = i + 1; }                                   *)
Counting ==
  <<Number(0, 0), Number(1, 1), Number(2, 3), [type |-> "nop", loc |-> Loc(18)], Label("test"), Op("binary_ge", 3, 0, 2),
    BrIf(3, "end"), [type |-> "alloca", loc |-> Loc(19)], Plain("inspect", 0), Op("binary_add", 0, 0, 1), Br("test"),
    Label("end"), Halt>>
Loop(debug, cuttable) ==
  Program(<<Function1(<<3>>, <<Text(0, 2), Plain("ret", 0)>>, 1), Function1(<<>>, Counting, 4),
            Function1(<<>>, <<This(0), Plain("ret", 0)>>, 2)>>, 2, debug, cuttable)

(* Code that is assembled and read back; most of it is not run here.       *)
ObjectGet(x, o, k) == [type |-> "object_get", dst |-> x, obj |-> o, member |-> k, loc |-> Loc(20)]
ObjectSet(x, o, k, s) == [type |-> "object_set", dst |-> x, obj |-> o, member |-> k, src |-> s, loc |-> Loc(21)]
Everything ==
  <<Text(0, 2), [type |-> "declvar", data |-> 3, loc |-> Loc(22)], [type |-> "store", reg |-> 0, data |-> 3, loc |-> Loc(23)],
    [type |-> "load", reg |-> 1, data |-> 3, loc |-> Loc(24)], ObjectGet(2, 1, 0), ObjectSet(3, 1, 0, 2),
    [type |-> "array_push", arr |-> 1, elem |-> 2, loc |-> Loc(25)], [type |-> "dynlib", exports |-> 1, module_name |-> 0, loc |-> Loc(26)],
    Closure(1, 3), Call(2, 1, <<0, 3>>), CallThis(3, 1, 0, <<>>), Construct(0, 1, <<2, 3, 1>>),
    Label("here"), This(1), Br("there"), Br("here"), Label("there"), Halt>>
Complete(debug) ==
  [Program(<<Function1(<<3, 3>>, <<Plain("load_undefined", 0), Plain("ret", 0)>>, 1),
             Function1(<<>>, Everything, 4),
             Function1(<<3>>, <<Label("here"), Number(1, 300), Br("here")>>, 2)>>, 2, debug, FALSE)
   EXCEPT !.exports = <<<<1, 3>>>>, !.imports = <<<<2, 3, 0>>, <<1, 3, 1>>>>]

Many(n) == [i \in 1 .. n |-> 0]
Wide(n) == Main(<<Closure(0, 1), Call(1, 0, Many(n)), Halt>>, 2)
Scoped == Main(<<[type |-> "push_scope", loc |-> Loc(27)], Halt>>, 1)

AllPrograms ==
  Operating \cup {Loop(d, c) : d, c \in BOOLEAN} \cup {Complete(TRUE), Complete(FALSE)}
  \cup {Wide(16), Wide(17), Scoped}
================================================================================
