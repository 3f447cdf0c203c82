-------------------------------- MODULE Meaning -------------------------------
(***************************************************************************)
(* What a program means, from its syntax (see C0): a machine that holds    *)
(* what is still to do, the nearest first.  Beside syntax nodes these are  *)
(* events, which the program sees, choices, and the ends of loop bodies.   *)
(*                                                                         *)
(* An event has with it the names of the values it works on (uses), each   *)
(* the of of what computed it, or "any".                                   *)
(*                                                                         *)
(* && and || compute both their values, as other operations do; what an    *)
(* assignment is worth is its right side, that of += too; a continue       *)
(* within a for statement goes on with the test, one within a do statement *)
(* at the body, which is the continue point that xjs_c0_dostatement names. *)
(***************************************************************************)
EXTENDS Integers, Sequences, SequencesExt

Event(of, uses) == [op |-> "event", of |-> of, uses |-> uses]
Choice(test, yes, no) == [op |-> "choice", uses |-> <<test>>, yes |-> yes, no |-> no]

(* The name of the value of an expression.                                 *)
RECURSIVE ValueOf(_)
ValueOf(e) ==
  CASE e.op \in {"assign", "set", "modify"} -> ValueOf(e.args[1])
    [] e.op = "update" /\ e.prefix -> e.sum
    [] OTHER -> e.of
ValuesOf(es) == [k \in DOMAIN es |-> ValueOf(es[k])]

(* Behind the body of a loop: what follows it, and what follows a continue *)
(* within it.  A break goes on behind this.                                *)
BodyEnd(again, continue) == [op |-> "bodyend", again |-> again, continue |-> continue]

IsGiven(part) == part.op # "none"
IfGiven(part) == IF IsGiven(part) THEN <<part>> ELSE <<>>

ForRound(s) ==
  LET next == [s EXCEPT !.init = [op |-> "none"]]
      round == <<s.body, BodyEnd(Append(IfGiven(s.update), next), <<next>>)>>
  IN  IF IsGiven(s.test) THEN <<s.test, Choice(ValueOf(s.test), round, <<>>)>> ELSE round

(* The names of an import or an export, in order.                          *)
NamesOf(items, op) ==
  LET named == SelectSeq(items, LAMBDA i : i.op = op)
  IN  [k \in DOMAIN named |-> Event(named[k].name, <<>>)]

ExportsOf(items) ==
  LET exports == SelectSeq(items, LAMBDA i : i.op \in {"export", "exportdefault"})
  IN  [k \in DOMAIN exports |->
        Event(IF exports[k].op = "export" THEN exports[k].name ELSE "default", <<>>)]

Expansion(w) ==
  CASE w.op \in {"load", "fun"} -> <<Event(w.of, <<>>)>>
    [] w.op \in {"unary", "binary", "object_get", "call", "new"} ->
         Append(w.args, Event(w.of, ValuesOf(w.args)))
    [] w.op = "cond" ->
         LET value == ValuesOf(w.args)
         IN  <<w.args[1], Choice(value[1],
               <<w.args[2], Event(w.of, <<value[1], value[2], "any">>)>>,
               <<w.args[3], Event(w.of, <<value[1], "any", value[3]>>)>>)>>
    [] w.op = "assign" -> Append(w.args, Event(w.of, ValuesOf(w.args)))
    [] w.op = "set" ->
         LET value == ValuesOf(w.args)
         IN  Append(w.args, Event(w.of, <<value[2], value[3], value[1]>>))
    [] w.op \in {"array", "object"} ->
         <<Event(w.of, <<>>)>> \o
         FlattenSeq([k \in DOMAIN w.elements |->
           Append(w.elements[k].args,
                  Event(w.elements[k].of, <<w.of>> \o ValuesOf(w.elements[k].args)))])
    [] w.op = "modify" ->
         w.args \o <<Event(w.of, <<>>), Event(w.sum, <<w.of, ValueOf(w.args[1])>>),
                     Event(w.stores, <<w.sum>>)>>
    [] w.op = "update" ->
         <<Event(w.of, <<>>), Event(w.sum, <<w.of, "any">>), Event(w.stores, <<w.sum>>)>>
    [] w.op \in {"empty", "import", "export"} -> <<>>
    [] w.op = "block" -> w.items
    [] w.op = "expression" -> <<w.arg>>
    [] w.op \in {"inspect", "exportdefault"} -> <<w.arg, Event(w.of, <<ValueOf(w.arg)>>)>>
    [] w.op = "return" -> <<w.arg, Event("return", <<ValueOf(w.arg)>>)>>
    [] w.op = "var" -> IF IsGiven(w.arg) THEN <<w.arg, Event(w.of, <<ValueOf(w.arg)>>)>> ELSE <<>>
    [] w.op = "if" -> <<w.test, Choice(ValueOf(w.test), <<w.consequent>>, IfGiven(w.alternate))>>
    [] w.op = "while" -> <<w.test, Choice(ValueOf(w.test), <<w.body, BodyEnd(<<w>>, <<w>>)>>, <<>>)>>
    [] w.op = "do" ->
         <<w.body, BodyEnd(<<w.test, Choice(ValueOf(w.test), <<w>>, <<>>)>>, <<w>>)>>
    [] w.op = "for" -> IfGiven(w.init) \o ForRound(w)
    [] w.op = "bodyend" -> w.again
    [] w.op \in {"script", "function"} -> Append(w.items, Event("end", <<>>))
    [] w.op = "module" ->
         NamesOf(w.items, "import") \o w.items \o ExportsOf(w.items) \o <<Event("end", <<>>)>>

(* The names that var declares within a part, but for functions in it.     *)
RECURSIVE VarsOf(_)
VarsOf(w) ==
  CASE w.op = "var" -> {w.name}
    [] w.op \in {"block", "script", "function", "module"} -> UNION {VarsOf(i) : i \in Range(w.items)}
    [] w.op = "if" -> VarsOf(w.consequent) \cup VarsOf(w.alternate)
    [] w.op \in {"while", "do", "for"} -> VarsOf(w.body)
    [] OTHER -> {}

IsSilent(todo) == todo # <<>> /\ Head(todo).op \notin {"event", "choice"}

(* What is to do after a step that the program does not see.               *)
Expanded(todo) ==
  LET ends == {k \in DOMAIN todo : todo[k].op = "bodyend"}
      end == CHOOSE k \in ends : \A j \in ends : k <= j
      behind == SubSeq(todo, end + 1, Len(todo))
  IN  CASE Head(todo).op = "break" -> behind
        [] Head(todo).op = "continue" -> todo[end].continue \o behind
        [] OTHER -> Expansion(Head(todo)) \o Tail(todo)

AfterEvent(todo) == IF Head(todo).of \in {"return", "end"} THEN <<>> ELSE Tail(todo)
AfterChoice(todo, yes) == (IF yes THEN Head(todo).yes ELSE Head(todo).no) \o Tail(todo)
===============================================================================
