------------------------------- MODULE MCCompile ------------------------------
(***************************************************************************)
(* Scripts, functions and modules around statements that are nested three  *)
(* deep.  The place p of a part is its name for what the program sees.     *)
(***************************************************************************)
EXTENDS Compile

Load(p) == [op |-> "load", of |-> p]
Inspect(p) == [op |-> "inspect", arg |-> Load(p), of |-> p \o "!"]
Var(p) == [op |-> "var", name |-> "x", arg |-> Load(p), of |-> p \o "="]
Return(p) == [op |-> "return", arg |-> Load(p)]
Break == [op |-> "break"]
Continue == [op |-> "continue"]
Block(items) == [op |-> "block", items |-> items]
Do1(e) == [op |-> "expression", arg |-> e]

If(p, c, a) == [op |-> "if", test |-> Load(p), consequent |-> c, alternate |-> a]
While(p, b) == [op |-> "while", test |-> Load(p), body |-> b]
DoWhile(p, b) == [op |-> "do", body |-> b, test |-> Load(p)]
For(p, b) == [op |-> "for", init |-> Load(p \o "1"), test |-> Load(p \o "2"),
              update |-> Load(p \o "3"), body |-> b]
ForEver(b) == [op |-> "for", init |-> None, test |-> None, update |-> None, body |-> b]

Leaves(p) == {Break, Continue, Var(p), Return(p), [op |-> "empty"]}

Loops(p, bodies) ==
  UNION {{While(p, b), DoWhile(p, b), For(p, b), ForEver(Block(<<Inspect(p), b>>))} : b \in bodies}
Ifs(p, sides) ==
  UNION {{If(p, s, None), If(p, s, Inspect(p \o "e")), If(p, Inspect(p \o "t"), s)} : s \in sides}
Pairs(p, firsts) == {Block(<<s, Inspect(p)>>) : s \in firsts}

Around(p, parts) == Loops(p, parts) \cup Ifs(p, parts)
Middle == Around("b", Leaves("a")) \cup Pairs("b", Leaves("a"))
Nested ==
  Around("c", Middle) \cup
  Loops("d", Loops("c", {If("b", s, None) : s \in {Break, Continue}}) \cup
             Pairs("c", {If("b", s, None) : s \in {Break, Continue}}))

Script(items) == [op |-> "script", items |-> items]
Fun(p, body) == [op |-> "fun", body |-> body, of |-> p]
Operate(op, p, args) == [op |-> op, args |-> args, of |-> p]
Array(p, a, b) == [op |-> "array", of |-> p, elements |-> <<[args |-> <<a>>, of |-> p \o "a"], [args |-> <<b>>, of |-> p \o "b"]>>]
Object(p, k, v) == [op |-> "object", of |-> p, elements |-> <<[args |-> <<k, v>>, of |-> p \o ":"]>>]
Modify(p, e) ==
  [op |-> "modify", name |-> "y", args |-> <<e>>, of |-> p, sum |-> p \o "+", stores |-> p \o "="]
Update(p, prefix) ==
  [op |-> "update", name |-> "y", prefix |-> prefix, of |-> p, sum |-> p \o "+", stores |-> p \o "="]
Cond(p, t, c, a) == Operate("cond", p, <<t, c, a>>)

Leaf(p) == Load(p \o "l")
Some(p) ==
  {Cond(p, Leaf(p), Load(p \o "y"), Load(p \o "n")), Update(p, FALSE),
   Operate("set", p, <<Leaf(p), Load(p \o "o"), Load(p \o "k")>>)}
Values(p) ==
  Some(p) \cup
  {Load(p), Operate("unary", p, <<Leaf(p)>>), Operate("call", p, <<Leaf(p), Load(p \o "r")>>),
   [op |-> "assign", name |-> "y", args |-> <<Leaf(p)>>, of |-> p],
   Array(p, Leaf(p), Load(p \o "r")), Modify(p, Leaf(p)), Update(p, TRUE),
   Fun(p, Block(<<Var(p \o "f")>>))}
Nests(p) ==
  {Operate("binary", p, <<v, w>>) : v \in Values("1"), w \in Some("2")} \cup
  UNION {{Cond(p, Load("t"), v, Update("w", FALSE)), Array(p, v, Load("w")),
          Operate("new", p, <<v, Load("w")>>), Operate("object_get", p, <<Load("w"), v>>)}
         : v \in Values("1")}
Literals(p) == {Object(p, Load("k"), v) : v \in Some("1")}

ImportOne == [op |-> "import", name |-> "imported"]
ExportVar == [op |-> "export", name |-> "x"]
ExportDefaults == {[op |-> "exportdefault", arg |-> v, of |-> "d="] : v \in Values("d")}
Module(items) == [op |-> "module", items |-> items]

Scripts ==
  {Script(<<s, Inspect("z")>>) : s \in Middle \cup Nested} \cup
  {Script(<<Do1(v)>>) : v \in Values("v") \cup Nests("v") \cup Literals("v")} \cup
  {Script(<<Do1(Fun("f", s)), Inspect("z")>>) : s \in Middle}

Modules ==
  {Module(<<ImportOne, Var("m"), e, ExportVar>>) : e \in ExportDefaults} \cup
  {Module(<<>>), Module(<<Inspect("m"), ImportOne>>), Module(<<ExportVar, Var("m")>>),
   Module(<<ImportOne, If("i", Inspect("m"), None)>>)}

(* Whether a continue within a part is for the loop around the part.       *)
RECURSIVE Continues(_)
Continues(w) ==
  CASE w.op = "continue" -> TRUE
    [] w.op = "block" -> \E i \in Range(w.items) : Continues(i)
    [] w.op = "if" -> Continues(w.consequent) \/ Continues(w.alternate)
    [] OTHER -> FALSE

(* Whether a continue within a part is for a do statement in that part.    *)
RECURSIVE ContinuesDo(_)
ContinuesDo(w) ==
  CASE w.op = "do" -> Continues(w.body) \/ ContinuesDo(w.body)
    [] w.op \in {"while", "for", "fun"} -> ContinuesDo(w.body)
    [] w.op \in {"block", "script", "module"} -> \E i \in Range(w.items) : ContinuesDo(i)
    [] w.op = "if" -> ContinuesDo(w.consequent) \/ ContinuesDo(w.alternate)
    [] w.op = "expression" -> ContinuesDo(w.arg)
    [] OTHER -> FALSE

DoContinues == {p \in Scripts : ContinuesDo(p)}
MCPrograms == (Scripts \ DoContinues) \cup Modules
===============================================================================
