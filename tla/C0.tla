---------------------------------- MODULE C0 ----------------------------------
(***************************************************************************)
(* C0, the stage of the compiler that turns the syntax tree of a program   *)
(* into the graphs of its functions (compiler/src/xjs_c0.c, xjs_c0_ctx.c,  *)
(* xjs_cfgbuilder.c).                                                      *)
(*                                                                         *)
(* A syntax node is a record with its kind in op; of is what the program   *)
(* sees of it.  Of expressions there are those that stand for themselves   *)
(* ("load"), operations on the values of args, with && and || among the    *)
(* binary ones, the conditional one ("cond"), functions ("fun"), literals  *)
(* with elements ("array", "object"), and those that store: in a name      *)
(* ("assign"), in a member ("set"), after an operation on it ("modify",    *)
(* which is +=, and "update", which is ++).                                *)
(*                                                                         *)
(* Every operator takes the state g of the builder and returns it, with    *)
(* the blocks where the part begins (in) and ends (out) and the variable   *)
(* that holds its value (var).                                             *)
(***************************************************************************)
EXTENDS Cfg, SequencesExt

None == [op |-> "none"]   \* a part of the syntax that is absent

(***************************************************************************)
(* The builder: the table of blocks, the count of variables, the stack of  *)
(* break and continue points, the functions that are done, the symbols     *)
(* imported and exported, and whether an error was found.                  *)
(***************************************************************************)
NoBuilder ==
  [blocks |-> <<>>, vars |-> 0, bps |-> <<>>, functions |-> <<>>,
   imports |-> <<>>, exports |-> <<>>, failed |-> FALSE]

Newest(g) == Len(g.blocks)
BlockNew(g) == [g EXCEPT !.blocks = Append(@, <<>>)]
AllocateVar(g) == [g EXCEPT !.vars = @ + 1]
PushBack(g, b, items) == [g EXCEPT !.blocks[b] = @ \o items]

(* The block goes on to dest.                                              *)
Link(g, src, dest) == PushBack(g, src, <<Jump(dest)>>)

PushPoints(g, break, continue) ==
  [g EXCEPT !.bps = Append(@, [node_break |-> break, node_continue |-> continue])]
PopPoints(g) == [g EXCEPT !.bps = SubSeq(@, 1, Len(@) - 1)]

Part(g, in, out) == [g |-> g, in |-> in, out |-> out]
Value(g, in, out, var) == [g |-> g, in |-> in, out |-> out, var |-> var]

(* A part goes on to a block; a part lies between two blocks.              *)
GoOn(p, to) == Link(p.g, p.out, to)
Between(from, p, to) == Link(Link(p.g, from, p.in), p.out, to)

(* A block of its own behind a part.                                       *)
Followed(p, items) ==
  LET b == Newest(p.g) + 1 IN Part(PushBack(GoOn([p EXCEPT !.g = BlockNew(@)], b), b, items), p.in, b)

(* A variable for the result, and the operation that computes it.          *)
Compute(op, v, srcs, of) == <<Item("alloca", {v}, <<>>, "none"), Item(op, {v}, srcs, of)>>

RECURSIVE Expression(_, _), Statement(_, _), Hoisted(_)

(***************************************************************************)
(* Functions.                                                              *)
(***************************************************************************)
(* A slip: the second part of an if statement is not looked at.            *)
HoistedConsequent(s) ==
  CASE s.op = "var" -> {s.name}
    [] s.op = "block" -> UNION {Hoisted(i) : i \in Range(s.items)}
    [] s.op = "if" -> Hoisted(s.consequent)
    [] s.op \in {"while", "do", "for"} -> Hoisted(s.body)
    [] OTHER -> {}

(* The names that var declares within a statement, not within functions.   *)
Hoisted(s) ==
  CASE s.op = "var" -> {s.name}
    [] s.op = "block" -> UNION {Hoisted(i) : i \in Range(s.items)}
    [] s.op = "if" -> Hoisted(s.consequent) \cup Hoisted(s.alternate)
    [] s.op \in {"while", "do", "for"} -> Hoisted(s.body)
    [] OTHER -> {}

(* A block in front that declares the names, if there are any.             *)
DeclareLocals(s, names) ==
  IF names = {} THEN s
  ELSE LET b == Newest(s.g) + 1
           decls == [k \in 1 .. Cardinality(names) |-> Named("declvar", SetToSeq(names)[k], <<>>, "none")]
       IN  Part(Link(PushBack(BlockNew(s.g), b, decls), b, s.in), b, s.out)

(* The last block ends the function, unless a return is among its items.   *)
Terminate(s, toplevel) ==
  LET v == s.g.vars IN
  IF toplevel
  THEN [s EXCEPT !.g = PushBack(@, s.out, <<Item("halt", {}, <<>>, "end")>>)]
  ELSE IF \E i \in Range(s.g.blocks[s.out]) : i.op = "return" THEN s
  ELSE [s EXCEPT !.g = PushBack(AllocateVar(@), s.out,
         Compute("load", v, <<>>, "none") \o <<Item("return", {}, <<v>>, "end")>>)]

FunctionScope(g, body) ==
  Terminate(DeclareLocals(Statement(g, body), Hoisted(body)), FALSE)

(***************************************************************************)
(* Expressions.                                                            *)
(***************************************************************************)
(* A literal or a name.                                                    *)
LoadExpression(g, e) ==
  LET v == g.vars
      b == Newest(g) + 1
  IN  Value(PushBack(AllocateVar(BlockNew(g)), b, Compute("load", v, <<>>, e.of)), b, b, v)

(* Expressions that are translated one after the other; as a chain the     *)
(* code goes from each to the next.                                        *)
Parts(g, args) ==
  LET add(p, x) == [g |-> x.g, parts |-> Append(p.parts, x)]
  IN  FoldLeft(LAMBDA p, e : add(p, Expression(p.g, e)), [g |-> g, parts |-> <<>>], args)

Chained(g, xs) ==
  [g |-> FoldLeft(LAMBDA h, k : Link(h, xs[k].out, xs[k + 1].in), g, [k \in 1 .. Len(xs) - 1 |-> k]),
   in |-> Head(xs).in, out |-> Last(xs).out, vars |-> [k \in DOMAIN xs |-> xs[k].var]]
Chain(p) == Chained(p.g, p.parts)

(* The part and an empty block behind it.                                  *)
WithTail(p) == LET b == Newest(p.g) + 1 IN Part(GoOn([p EXCEPT !.g = BlockNew(@)], b), p.in, b)

(* The operation follows the values; only calls have a block behind them.  *)
Operations == {"unary", "binary", "object_get", "call", "new"}
Operation(p, e) ==
  LET v == p.g.vars
      done == Followed([p EXCEPT !.g = AllocateVar(@)], Compute(e.op, v, p.vars, e.of))
      end == IF e.op \in {"call", "new"} THEN WithTail(done) ELSE done
  IN  Value(end.g, end.in, end.out, v)

(* A member is set; the right side, which comes first, is the value.       *)
SetWith(p, e, srcs) ==
  LET v == p.g.vars
      s == Followed([p EXCEPT !.g = AllocateVar(@)], Compute("object_set", v, srcs, e.of))
  IN  Value(s.g, s.in, s.out, p.vars[1])

(* A slip: the values are set in the order in which they come.             *)
SetInOrder(p, e) == SetWith(p, e, p.vars)

SetMember(p, e) == SetWith(p, e, <<p.vars[2], p.vars[3], p.vars[1]>>)

(* The literal is made empty, then each element is put into it.  Putting a *)
(* property has a result, "useless", for which variable 0 is taken: it is  *)
(* the first one of the program.                                           *)
Put(op, v, vars, of) ==
  IF op = "array" THEN Item("array_push", {}, <<v>> \o vars, of)
  ELSE Item("object_set", {0}, <<v>> \o vars, of)

LiteralExpression(g, e) ==
  LET v == g.vars
      add(p, x, of) ==
        Followed(Part(Link(x.g, p.out, x.in), p.in, x.out), <<Put(e.op, v, x.vars, of)>>)
      worth(p) == Value(p.g, p.in, p.out, v)
  IN  worth(FoldLeft(LAMBDA p, i : add(p, Chain(Parts(p.g, i.args)), i.of),
                     LoadExpression(g, e), e.elements))

(* += : the value of the whole is the right side.                          *)
Modified(p, e) ==
  LET v == p.g.vars
      done == Followed([p EXCEPT !.g.vars = @ + 2],
                       Compute("load", v, <<>>, e.of) \o Compute("binary", v + 1, <<v, p.vars[1]>>, e.sum)
                         \o <<Named("store", e.name, <<v + 1>>, e.stores)>>)
      end == WithTail(done)
  IN  Value(end.g, end.in, end.out, p.vars[1])

(* ++ : the value before or, as a prefix, behind the operation.            *)
UpdateExpression(g, e) ==
  LET v == g.vars
      b == Newest(g) + 1
      end == WithTail(Part(PushBack([BlockNew(g) EXCEPT !.vars = @ + 3], b,
               Compute("load", v, <<>>, e.of) \o Compute("load", v + 1, <<>>, "none")
                 \o Compute("binary", v + 2, <<v, v + 1>>, e.sum)
                 \o <<Named("store", e.name, <<v + 2>>, e.stores)>>), b, b))
  IN  Value(end.g, end.in, end.out, IF e.prefix THEN v + 2 ELSE v)

(* The test goes on to one of two parts, which meet to merge the value.    *)
Chosen(t, c, a, of) ==
  LET block == Newest(a.g) + 1
      tail == Newest(a.g) + 2
      v == a.g.vars
      linked == Link(Link(BlockNew(BlockNew(a.g)), c.out, tail), a.out, tail)
      branched == Link(PushBack(linked, block, <<Branch(t.var, c.in, a.in)>>), t.out, block)
  IN  Value(PushBack(AllocateVar(branched), tail,
                     Compute("merge", v, <<t.var, c.var, a.var>>, of)), t.in, tail, v)

ConditionalExpression(p, e) == Chosen(p.parts[1], p.parts[2], p.parts[3], e.of)

(* The value is stored in a block of its own, with an empty one behind it. *)
Assigned(p, e) ==
  LET end == WithTail(Followed(p, <<Named("store", e.name, <<p.vars[1]>>, e.of)>>))
  IN  Value(end.g, end.in, end.out, p.vars[1])

(* The body becomes a function of its own; the value is made from it.      *)
Made(s, e) ==
  LET v == s.g.vars
      b == Newest(s.g) + 1
      made == PushBack(AllocateVar(BlockNew(s.g)), b, Compute("make_function", v, <<>>, e.of))
      done == [body |-> s.in, source |-> [op |-> "function", items |-> <<e.body>>]]
  IN  Value(IF s.g.failed THEN s.g ELSE [made EXCEPT !.functions = Append(@, done)], b, b, v)

FunctionExpression(g, e) == Made(FunctionScope(g, e.body), e)

(* What is done with values that have been computed in their order.        *)
Applied(p, e) ==
  CASE e.op \in Operations -> Operation(p, e)
    [] e.op = "assign" -> Assigned(p, e)
    [] e.op = "set" -> SetMember(p, e)
    [] e.op = "modify" -> Modified(p, e)

Expression(g, e) ==
  CASE e.op = "load" -> LoadExpression(g, e)
    [] e.op \in Operations \cup {"assign", "set", "modify"} -> Applied(Chain(Parts(g, e.args)), e)
    [] e.op = "cond" -> ConditionalExpression(Parts(g, e.args), e)
    [] e.op \in {"array", "object"} -> LiteralExpression(g, e)
    [] e.op = "update" -> UpdateExpression(g, e)
    [] e.op = "fun" -> FunctionExpression(g, e)

(***************************************************************************)
(* Statements.                                                             *)
(***************************************************************************)
Fail(g) == [g EXCEPT !.failed = TRUE]

EmptyStatement(g) == LET b == Newest(g) + 1 IN Part(BlockNew(g), b, b)

ExpressionStatement(g, s) == Expression(g, s.arg)

(* The argument goes on to a block with the inspection or the return.      *)
Used(e, op, of) == Followed(e, <<Item(op, {}, <<e.var>>, of)>>)
InspectStatement(g, s) == Used(Expression(g, s.arg), "inspect", s.of)
ReturnStatement(g, s) == Used(Expression(g, s.arg), "return", "return")

(* A name that was declared gets its first value, if there is one.         *)
Initialized(e, s) ==
  [e EXCEPT !.g = PushBack(@, e.out, <<Named("store", s.name, <<e.var>>, s.of)>>)]
VariableDeclaration(g, s) ==
  IF s.arg = None THEN EmptyStatement(g) ELSE Initialized(Expression(g, s.arg), s)

(* A slip: the block jumps to itself.                                      *)
JumpSelf(g, point) ==
  LET b == Newest(g) + 1 IN Part(Link(BlockNew(BlockNew(g)), b, b), b, b + 1)

(* A block that jumps to the point, and an empty one for what follows.     *)
JumpStatement(g, point) ==
  LET b == Newest(g) + 1 IN Part(Link(BlockNew(BlockNew(g)), b, point), b, b + 1)

(* A slip: the innermost loop is not the one that is left.                 *)
BreakOutermost(g) ==
  IF g.bps = <<>> THEN EmptyStatement(Fail(g)) ELSE JumpStatement(g, Head(g.bps).node_break)

BreakStatement(g) ==
  IF g.bps = <<>> THEN EmptyStatement(Fail(g)) ELSE JumpStatement(g, Last(g.bps).node_break)

ContinueStatement(g) ==
  IF g.bps = <<>> THEN EmptyStatement(Fail(g)) ELSE JumpStatement(g, Last(g.bps).node_continue)

IfStatement(g, s) ==
  LET entry == Newest(g) + 1
      merge == Newest(g) + 2
      joined(t, c, a) ==
        Part(PushBack(IF s.alternate = None THEN a.g ELSE GoOn(a, merge),
                      entry, <<Branch(t.var, c.in, a.in)>>), t.in, merge)
      alternate(t, c) ==
        joined(t, c, IF s.alternate = None THEN Part(GoOn(c, merge), merge, merge)
                     ELSE Statement(GoOn(c, merge), s.alternate))
      consequent(t) == alternate(t, Statement(GoOn(t, entry), s.consequent))
  IN  consequent(Expression(BlockNew(BlockNew(g)), s.test))

WhileStatement(g, s) ==
  LET prelude == Newest(g) + 1
      entry == Newest(g) + 2
      again == Newest(g) + 3
      merge == Newest(g) + 4
      looped(t, b) ==
        PushBack(Link(GoOn(b, again), again, prelude), entry, <<Branch(t.var, b.in, merge)>>)
      body(t) == looped(t, Statement(Between(prelude, t, entry), s.body))
      pushed == PushPoints(BlockNew(BlockNew(BlockNew(BlockNew(g)))), merge, prelude)
  IN  Part(PopPoints(body(Expression(pushed, s.test))), prelude, merge)

DoStatement(g, s) ==
  LET prelude == Newest(g) + 1
      entry == Newest(g) + 2
      merge == Newest(g) + 3
      looped(b, t) == PushBack(Between(b.out, t, entry), entry, <<Branch(t.var, prelude, merge)>>)
      test(b) == looped(b, Expression(Link(b.g, prelude, b.in), s.test))
      pushed == PushPoints(BlockNew(BlockNew(BlockNew(g))), merge, merge)
  IN  Part(PopPoints(test(Statement(pushed, s.body))), prelude, merge)

(* A part of the loop that computes something and goes on, or just does.   *)
Optional(g, from, e, to) ==
  IF e = None THEN Link(g, from, to) ELSE Between(from, Expression(g, e), to)

ForStatement(g, s) ==
  LET init == Newest(g) + 1
      test == Newest(g) + 2
      update == Newest(g) + 3
      merge == Newest(g) + 4
      decided(b, t, block) ==
        PushBack(Between(test, t, block), block, <<Branch(t.var, b.in, merge)>>)
      tested(b) ==
        IF s.test = None THEN Link(GoOn(b, update), test, b.in)
        ELSE decided(b, Expression(BlockNew(GoOn(b, update)), s.test), Newest(b.g) + 1)
      pushed == PushPoints(BlockNew(BlockNew(BlockNew(BlockNew(g)))), merge, test)
      body == Statement(Optional(pushed, init, s.init, test), s.body)
  IN  Part(PopPoints(Optional(tested(body), update, s.update, test)), init, merge)

(* The parts follow each other, from a first block that is empty.          *)
Then(p, s) == Part(Link(s.g, p.out, s.in), p.in, s.out)
StatementList(g, items) == FoldLeft(LAMBDA p, i : Then(p, Statement(p.g, i)), EmptyStatement(g), items)

Statement(g, s) ==
  CASE s.op = "empty" -> EmptyStatement(g)
    [] s.op = "block" -> StatementList(g, s.items)
    [] s.op = "expression" -> ExpressionStatement(g, s)
    [] s.op = "inspect" -> InspectStatement(g, s)
    [] s.op = "return" -> ReturnStatement(g, s)
    [] s.op = "var" -> VariableDeclaration(g, s)
    [] s.op = "break" -> BreakStatement(g)
    [] s.op = "continue" -> ContinueStatement(g)
    [] s.op = "if" -> IfStatement(g, s)
    [] s.op = "while" -> WhileStatement(g, s)
    [] s.op = "do" -> DoStatement(g, s)
    [] s.op = "for" -> ForStatement(g, s)

(***************************************************************************)
(* Programs.                                                               *)
(***************************************************************************)
(* A default export stores its value under that name.  If the value cannot *)
(* be compiled the export is left out, and nobody is told.                 *)
Exported(e, s) ==
  LET stored == Followed(e, <<Named("declvar", "default", <<>>, "none"),
                              Named("store", "default", <<e.var>>, s.of)>>)
  IN  [stored EXCEPT !.g.exports = Append(@, "default")]

ExportDefault(p, e, s) ==
  IF e.g.failed THEN [p EXCEPT !.g = [e.g EXCEPT !.exports = p.g.exports, !.failed = p.g.failed]]
  ELSE Then(p, Exported(e, s))

(* Other exports and imports are noted only.                               *)
ModuleItem(p, s) ==
  CASE s.op = "import" -> [p EXCEPT !.g.imports = Append(@, s.name)]
    [] s.op = "export" -> [p EXCEPT !.g.exports = Append(@, s.name)]
    [] s.op = "exportdefault" -> ExportDefault(p, Expression(p.g, s.arg), s)
    [] OTHER -> Then(p, Statement(p.g, s))

ModuleItemList(g, items) == FoldLeft(ModuleItem, EmptyStatement(g), items)

(* In a module only the declarations among its own items are hoisted.      *)
HoistedModule(items) == {i.name : i \in {j \in Range(items) : j.op = "var"}}
HoistedList(items) == UNION {Hoisted(i) : i \in Range(items)}

(* The last block of a module writes the exports and returns.              *)
Export(s) ==
  LET one(g, name) ==
        PushBack([g EXCEPT !.vars = @ + 2], s.out,
                 Compute("load", g.vars, <<>>, "none") \o <<Item("alloca", {g.vars + 1}, <<>>, "none"),
                   Item("object_set", {g.vars + 1}, <<g.vars>>, name)>>)
      g1 == FoldLeft(one, s.g, s.g.exports)
  IN  [s EXCEPT !.g = PushBack(AllocateVar(g1), s.out,
         Compute("load", g1.vars, <<>>, "none") \o <<Item("return", {}, <<g1.vars>>, "end")>>)]

(* Its first block declares and stores the imports.                        *)
Import(s) ==
  LET b == Newest(s.g) + 1
      one(g, name) ==
        PushBack(AllocateVar(g), b, Compute("object_get", g.vars, <<>>, "none")
          \o <<Named("declvar", name, <<>>, "none"), Named("store", name, <<g.vars>>, name)>>)
  IN  Part(Link(FoldLeft(one, BlockNew(s.g), s.g.imports), b, s.in), b, s.out)

(* The builder when C0 is done; the program's own function comes last.     *)
Program(p) ==
  LET done(s) == [s.g EXCEPT !.functions = Append(@, [body |-> s.in, source |-> p])]
  IN  done(IF p.op = "script"
           THEN Terminate(DeclareLocals(StatementList(NoBuilder, p.items), HoistedList(p.items)), TRUE)
           ELSE Import(Export(DeclareLocals(ModuleItemList(NoBuilder, p.items), HoistedModule(p.items)))))
===============================================================================
