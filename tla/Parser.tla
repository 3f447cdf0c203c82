-------------------------------- MODULE Parser --------------------------------
(***************************************************************************)
(* The parser of the compiler, xjs_parser.c and xjs_parser_ctx.c: it makes *)
(* a program of the tokens of the lexer, by recursive descent.             *)
(*                                                                         *)
(* A state of the parser is a record: at is the iterator over the tokens,  *)
(* Len(tokens) + 1 when it has left the list; bad says whether an error    *)
(* was recorded; out is what the last routine returned, None for the null  *)
(* pointer.  Each routine of the code is an operator of its name from      *)
(* states to states.  The routines call each other through Parse, and so   *)
(* do the loops within them: a loop finds in out what it has collected.    *)
(*                                                                         *)
(* Memory that cannot be allocated, places in the source and the texts of  *)
(* the messages are left out.                                              *)
(***************************************************************************)
EXTENDS Lexer

VARIABLES
  mode,      \* "script" or "module"
  ps,        \* the state of the parser between two items; out is what script or module has collected
  parsing    \* "off" until the tokens are there, "on", "done", "failed", or "crashed"

parseVars == <<mode, ps, parsing>>

(* A part of a program: n says which, of is its operator, name or value,   *)
(* with are its parts.                                                     *)
Node(n, of, with) == [n |-> n, of |-> of, with |-> with]
Leaf(n, of) == Node(n, of, <<>>)
None == Leaf("none", "")
NoExpr == Leaf("absent", "")     \* a part that may be missing and is
List(es) == Node("list", "", es)
Add(list, e) == [list EXCEPT !.with = Append(@, e)]

Outside == [kind |-> "outside", value |-> ""]
Peek(s) == IF s.at <= Len(tokens) THEN tokens[s.at] ELSE Outside

Skip(s) == IF s.at <= Len(tokens) THEN [s EXCEPT !.at = @ + 1] ELSE s
Eof(s) == Peek(s).kind \in {"eof", "outside"}

(* A slip: nothing is recorded. *)
FailSilently(s) == [s EXCEPT !.out = None]

Give(s, node) == [s EXCEPT !.out = node]
Fail(s) == [s EXCEPT !.out = None, !.bad = TRUE]
Then(s, F(_)) == IF s.out = None THEN s ELSE F(s)

Punct(s, marks) == Peek(s).kind = "punctuator" /\ Peek(s).value \in marks
IsKind(s, kinds) == Peek(s).kind \in kinds

(* xjs_parser_keyword_type_resolve looks by length and has no "static". *)
Keyword(s) == IF IsKind(s, {"keyword"}) /\ Peek(s).value # "static" THEN Peek(s).value ELSE "unknown"

(* PARSE_ERROR_PRINTF_EXPECTED_BEFORE unless the next token is p. *)
Expect(s, p, F(_)) == IF Punct(s, {p}) THEN F(Skip(s)) ELSE Fail(s)

Literals == {"null", "boolean", "number", "string"}
Assignments == {"=", "+=", "-=", "*=", "/=", "%=", "**=", "<<=", ">>=", ">>>=", "&=", "|=", "^="}
Updates == {"++", "--"}
Unaries == {"+", "-", "~", "!"}
UnaryWords == {"delete", "void", "typeof"}

-----------------------------------------------------------------------------
(* xjs_parser_extract_string_literal_value: what the literal says, "" "no" *)
(* when it says nothing.  A literal that is not closed is taken as it is.  *)
(* TLA+ has no literals for the characters 0, 8 and 11: "@", "$" and "~"   *)
(* stand for them in a value.                                              *)
Escapes == [c \in {"'", "\"", "\\", "n", "r", "t", "f", "0", "b", "v"} |->
              CASE c = "n" -> "\n" [] c = "r" -> "\r" [] c = "t" -> "\t" [] c = "f" -> "\f"
                [] c = "0" -> "@" [] c = "b" -> "$" [] c = "v" -> "~" [] OTHER -> c]

StringValue(raw) ==
  LET c(i) == SubSeq(raw, i, i)
      rest[i \in 2..(Len(raw) + 1)] ==
        CASE i > Len(raw) -> <<"yes", "">>
          [] i <= Len(raw) /\ c(i) = c(1) -> <<IF i = Len(raw) THEN "yes" ELSE "no", "">>
          [] i <= Len(raw) /\ c(i) = "\\" ->
               IF i < Len(raw) /\ c(i + 1) \in DOMAIN Escapes
               THEN LET r == rest[i + 2] IN <<r[1], Escapes[c(i + 1)] \o r[2]>>
               ELSE <<IF i = Len(raw) THEN "yes" ELSE "no", "">>
          [] OTHER -> LET r == rest[i + 1] IN <<r[1], c(i) \o r[2]>>
  IN  rest[2]

(* xjs_parser_extract_number_literal_value, as <<digits, scale>>: the      *)
(* digits read so far as one number, and ten to the number of those behind *)
(* the dot; <<>> when the text is not one.  A letter is a digit in every   *)
(* base, the "x" and the "b" of a prefix, too.                             *)
DigitOf(c) ==
  LET all == "0123456789abcdefghijklmnopqrstuvwxyz"
      ALL == "0123456789ABCDEFGHIJKLMNOPQRSTUVWXYZ"
  IN  CHOOSE d \in 0..35 : c \in {SubSeq(all, d + 1, d + 1), SubSeq(ALL, d + 1, d + 1)}

(* A slip: numbers of base eight are read in base ten. *)
RadixDecimal(raw) == IF Len(raw) >= 2 /\ SubSeq(raw, 2, 2) \in {"x", "X"} THEN 16 ELSE 10

Radix(raw) ==
  CASE Len(raw) >= 2 /\ SubSeq(raw, 1, 1) = "0" /\ SubSeq(raw, 2, 2) \in OctDigits -> 8
    [] Len(raw) >= 2 /\ SubSeq(raw, 1, 1) = "0" /\ SubSeq(raw, 2, 2) \in {"x", "X"} -> 16
    [] OTHER -> 10

NumberValue(raw) ==
  LET c(i) == SubSeq(raw, i, i)
      upto[i \in 0..Len(raw)] ==
        IF i = 0 THEN [v |-> 0, scale |-> 1, dot |-> FALSE, ok |-> TRUE]
        ELSE LET u == upto[i - 1] IN
          CASE u.ok /\ ~u.dot /\ c(i) \in Letters \cup DecDigits ->
                 [u EXCEPT !.v = @ * Radix(raw) + DigitOf(c(i))]
            [] u.ok /\ ~u.dot /\ c(i) = "." -> [u EXCEPT !.dot = TRUE]
            [] u.ok /\ u.dot /\ c(i) \in DecDigits ->
                 [u EXCEPT !.v = @ * 10 + DigitOf(c(i)), !.scale = @ * 10]
            [] OTHER -> [u EXCEPT !.ok = FALSE]
  IN  IF upto[Len(raw)].ok THEN <<upto[Len(raw)].v, upto[Len(raw)].scale>> ELSE <<>>

-----------------------------------------------------------------------------
RECURSIVE Parse(_, _, _)
P(rule, s) == Parse(rule, 0, s)

(* rule, then F of what it gave *)
Do(rule, s, F(_)) == Then(P(rule, s), F)

ParseIdentifier(s) ==
  IF IsKind(s, {"identifier"}) THEN Give(Skip(s), Leaf("id", Peek(s).value)) ELSE Fail(s)

(* statementlistitem_declaration; the loop is "declarators" *)
Declaration(s) ==
  LET kw == Keyword(s) IN
  IF ~IsKind(Skip(s), {"identifier"}) THEN Fail(Skip(s))
  ELSE Do("declarators", Give(Skip(s), Node("declare", kw, <<>>)), LAMBDA t : t)

Declarators(s) ==
  LET id == Leaf("id", Peek(s).value)
      more(t, v) ==
        LET u == Give(t, Add(s.out, Node("declarator", "", <<id, v>>))) IN
        CASE Punct(u, {";"}) -> Skip(u)
          [] Punct(u, {","}) -> IF IsKind(Skip(u), {"identifier"}) THEN P("declarators", Skip(u)) ELSE Fail(Skip(u))
          [] OTHER -> Fail(u)
  IN  IF Punct(Skip(s), {"="})
      THEN Do("assignment", Skip(Skip(s)), LAMBDA t : more(t, t.out))
      ELSE more(Skip(s), NoExpr)

(* The literal of a token, and the error when its text makes no sense. *)
Literal(s) ==
  LET t == Peek(s)
      value == StringValue(t.value)
  IN  CASE t.kind \in {"null", "boolean"} -> Give(Skip(s), Leaf(t.kind, t.value))
        [] t.kind = "number" -> IF NumberValue(t.value) = <<>> THEN Fail(Skip(s))
                                ELSE Give(Skip(s), Leaf("number", t.value))
        [] t.kind = "string" -> IF value[1] = "no" THEN Fail(Skip(s))
                                ELSE Give(Skip(s), Leaf("string", value[2]))

(* new callee(arguments): behind a "," only a name or the ")" may follow.  *)
(* When the tokens end within the arguments the closing parenthesis is     *)
(* skipped all the same.                                                   *)
NewExpression(s) ==
  Do("lhs", Skip(s), LAMBDA c :
    IF Punct(c, {"("})
    THEN Do("newarguments", Give(Skip(c), List(<<>>)), LAMBDA t : Give(t, Node("new", "", <<c.out, t.out>>)))
    ELSE Give(c, Node("new", "", <<c.out, List(<<>>)>>)))

NewArguments(s) ==
  IF Eof(s) \/ Punct(s, {")"}) THEN Skip(s)
  ELSE Do("assignment", s, LAMBDA t :
         LET u == Give(t, Add(s.out, t.out)) IN
         CASE ~Punct(u, {","}) -> P("newarguments", u)
           [] Punct(u, {","}) /\ (Punct(Skip(u), {")"}) \/ IsKind(Skip(u), {"identifier"})) ->
                P("newarguments", Skip(u))
           [] OTHER -> Fail(Skip(u)))

(* The list of parameters behind "(", the loop of functionexpression. *)
Parameters(s) ==
  CASE IsKind(s, {"identifier"}) ->
         LET t == Give(Skip(s), Add(s.out, Leaf("id", Peek(s).value))) IN
         CASE Punct(t, {")"}) -> Skip(t)
           [] Punct(t, {","}) -> P("parameters", Skip(t))
           [] OTHER -> Fail(t)
    [] Punct(s, {")"}) -> Skip(s)
    [] OTHER -> Fail(s)

FunctionExpression(s) ==
  LET named == IsKind(Skip(s), {"identifier"})
      name == IF named THEN Peek(Skip(s)).value ELSE ""
      body(t) == IF Punct(t, {"{"})
                 THEN Do("item", t, LAMBDA b : Give(b, Node("function", name, <<t.out, b.out>>)))
                 ELSE Fail(t)
  IN  Expect(IF named THEN Skip(Skip(s)) ELSE Skip(s), "(",
             LAMBDA t : Do("parameters", Give(t, List(<<>>)), body))

(* Behind "=>" both this routine and block_statement skip a token when the *)
(* body is a block.                                                        *)
ArrowBody(s) ==
  Expect(s, "=>", LAMBDA t :
    IF Punct(t, {"{"})
    THEN Do("block", Give(Skip(Skip(t)), List(<<>>)), LAMBDA b : Give(b, Node("arrow", "", <<s.out, b.out>>)))
    ELSE Do("assignment", t, LAMBDA e : Give(e, Node("arrow", "", <<s.out, e.out>>))))

ArrowFunction(s) ==
  CASE Punct(s, {"("}) -> Do("parameters", Give(Skip(s), List(<<>>)), ArrowBody)
    [] IsKind(s, {"identifier"}) -> ArrowBody(Give(Skip(s), List(<<Leaf("id", Peek(s).value)>>)))
    [] OTHER -> Fail(s)

(* at_beginning_of_arrowfunctionexpr: it saves the iterator, looks for a   *)
(* list of parameters with "=>" behind it, and puts the iterator back.     *)
ArrowAhead(s) ==
  LET after[i \in 1..(Len(tokens) + 1)] ==     \* behind the list that goes on at i, 0 when it is none
        LET name == tokens[i].kind = "identifier"
            is(j, p) == j <= Len(tokens) /\ tokens[j].kind = "punctuator" /\ tokens[j].value = p
        IN  CASE i <= Len(tokens) /\ is(i, ")") -> i + 1
              [] i <= Len(tokens) /\ name /\ is(i + 1, ")") -> i + 2
              [] i <= Len(tokens) /\ name /\ is(i + 1, ",") -> after[i + 2]
              [] OTHER -> 0
      j == IF Punct(s, {"("}) THEN after[s.at + 1] ELSE s.at + 1
  IN  j # 0 /\ Punct([s EXCEPT !.at = j], {"=>"})

(* property, one round of the loop of object_initializer *)
Property(s) ==
  LET value(k) == Expect(k, ":", LAMBDA t :
                    Do("assignment", t, LAMBDA v : Give(v, Node("property", "", <<k.out, v.out>>))))
  IN  IF IsKind(s, {"identifier"}) THEN value(Give(Skip(s), Leaf("string", Peek(s).value)))
      ELSE Do("assignment", s, value)

PastComma(s) == IF Punct(s, {","}) THEN Skip(s) ELSE s

(* The loops of object_initializer and array_initializer: commas may be    *)
(* left out.                                                               *)
Properties(s) ==
  IF Punct(s, {"}"}) THEN Skip(s)
  ELSE Then(Property(s), LAMBDA t : P("properties", PastComma(Give(t, Add(s.out, t.out)))))

Elements(s) ==
  IF Punct(s, {"]"}) THEN Skip(s)
  ELSE Do("assignment", s, LAMBDA t : P("elements", PastComma(Give(t, Add(s.out, t.out)))))

ObjectInitializer(s) == P("properties", Give(Skip(s), Leaf("object", "")))
ArrayInitializer(s) == P("elements", Give(Skip(s), Leaf("array", "")))

Primary(s) ==
  CASE IsKind(s, Literals) -> Literal(s)
    [] (IsKind(s, {"identifier"}) \/ Punct(s, {"("})) /\ ArrowAhead(s) -> ArrowFunction(s)
    [] IsKind(s, {"identifier"}) /\ ~ArrowAhead(s) -> ParseIdentifier(s)
    [] Keyword(s) = "function" -> FunctionExpression(s)
    [] Keyword(s) = "this" -> Give(Skip(s), Leaf("this", ""))
    [] Punct(s, {"{"}) -> ObjectInitializer(s)
    [] Punct(s, {"["}) -> ArrayInitializer(s)
    [] Punct(s, {"("}) /\ ~ArrowAhead(s) ->
         Do("assignment", Skip(s), LAMBDA t : Expect(t, ")", LAMBDA u : u))
    [] OTHER -> Fail(s)

(* arguments, behind the "(": a "," asks for another one *)
Arguments(s) ==
  Do("assignment", s, LAMBDA t :
    LET u == Give(t, Add(s.out, t.out)) IN
    CASE Punct(u, {")"}) -> Skip(u)
      [] Punct(u, {","}) -> P("arguments", Skip(u))
      [] OTHER -> Fail(u))

CallExpression(s) ==
  LET t == Give(Skip(s), List(<<>>))
      call(u) == Give(u, Node("call", "", <<s.out, u.out>>))
  IN  IF Punct(t, {")"}) THEN call(Skip(t)) ELSE Do("arguments", t, call)

(* lhsexpression_opt; the loop is "members" and "membersandcalls" *)
Lhs(rule, s) ==
  Then(IF Keyword(s) = "new" THEN NewExpression(s) ELSE Primary(s), LAMBDA t : P(rule, t))

Members(rule, s) ==
  CASE Punct(s, {"."}) ->
         Then(ParseIdentifier(Skip(s)), LAMBDA t : P(rule, Give(t, Node("member", "", <<s.out, t.out>>))))
    [] Punct(s, {"("}) /\ rule = "membersandcalls" -> Then(CallExpression(s), LAMBDA t : P(rule, t))
    [] Punct(s, {"["}) ->
         Do("assignment", Skip(s), LAMBDA t :
           Expect(t, "]", LAMBDA u : P(rule, Give(u, Node("computed", "", <<s.out, t.out>>)))))
    [] OTHER -> s

Update(s) ==
  IF Punct(s, Updates)
  THEN Do("update", Skip(s), LAMBDA t : Give(t, Node("prefix", Peek(s).value, <<t.out>>)))
  ELSE Then(Lhs("membersandcalls", s), LAMBDA t :
         IF Punct(t, Updates) THEN Give(Skip(t), Node("postfix", Peek(t).value, <<t.out>>)) ELSE t)

(* exponentiationexpression calls unaryexpression and does nothing else. *)
Unary(s) ==
  IF Punct(s, Unaries) \/ Keyword(s) \in UnaryWords
  THEN Do("unary", Skip(s), LAMBDA t : Give(t, Node("unary", Peek(s).value, <<t.out>>)))
  ELSE P("update", s)

(* binary_op_precedence *)
Precedence(s) ==
  LET v == Peek(s).value IN
  CASE Punct(s, {"*", "/", "%"}) -> 14
    [] Punct(s, {"+", "-"}) -> 13
    [] Punct(s, {"<<", ">>", ">>>"}) -> 12
    [] Punct(s, {"<", ">", "<=", ">="}) \/ Keyword(s) \in {"instanceof", "in"} -> 11
    [] Punct(s, {"==", "!=", "===", "!=="}) -> 10
    [] Punct(s, {"&"}) -> 9
    [] Punct(s, {"^"}) -> 8
    [] Punct(s, {"|"}) -> 7
    [] Punct(s, {"&&"}) -> 6
    [] Punct(s, {"||"}) -> 5
    [] OTHER -> 0

(* binaryexpression1; the loop is "operators" *)
Binary(limit, s) == Then(P("unary", s), LAMBDA t : Parse("operators", limit, t))

(* A slip: operators of one level group to the right. *)
OperatorsRight(limit, s) ==
  IF Precedence(s) = 0 \/ Precedence(s) < limit THEN s
  ELSE Then(Parse("binary", Precedence(s), Skip(s)), LAMBDA t :
         Parse("operators", limit, Give(t, Node("binary", Peek(s).value, <<s.out, t.out>>))))

Operators(limit, s) ==
  IF Precedence(s) <= limit THEN s
  ELSE Then(Parse("binary", Precedence(s), Skip(s)), LAMBDA t :
         Parse("operators", limit,
           Give(t, Node(IF Peek(s).value \in {"&&", "||"} THEN "logical" ELSE "binary",
                        Peek(s).value, <<s.out, t.out>>))))

Conditional(s) ==
  Do("binary", s, LAMBDA test :
    IF ~Punct(test, {"?"}) THEN test
    ELSE Do("assignment", Skip(test), LAMBDA c :
           Expect(c, ":", LAMBDA u :
             Do("assignment", u, LAMBDA a : Give(a, Node("conditional", "", <<test.out, c.out, a.out>>))))))

(* assignmentexpression, which is expression, too *)
Assignment(s) ==
  Then(Conditional(s), LAMBDA l :
    IF Punct(l, Assignments)
    THEN Do("assignment", Skip(l), LAMBDA r : Give(r, Node("assign", Peek(l).value, <<l.out, r.out>>)))
    ELSE l)

-----------------------------------------------------------------------------
EmptyStatement(s) == Give(Skip(s), Leaf("empty", ""))

(* A slip: the end of the text closes a block. *)
BlockUnclosed(s) ==
  IF Punct(s, {"}"}) \/ Eof(s) THEN Give(Skip(s), Node("block", "", s.out.with))
  ELSE Do("item", s, LAMBDA t : P("block", Give(t, Add(s.out, t.out))))

(* The loop of block_statement, behind the "{". *)
Block(s) ==
  IF Punct(s, {"}"}) THEN Give(Skip(s), Node("block", "", s.out.with))
  ELSE Do("item", s, LAMBDA t : P("block", Give(t, Add(s.out, t.out))))

BlockStatement(s) == P("block", Give(Skip(s), List(<<>>)))

PastSemicolon(s) == IF Punct(s, {";"}) THEN Skip(s) ELSE s

(* The ";" behind an expression may be left out. *)
ExpressionStatement(s) ==
  Do("assignment", s, LAMBDA t : PastSemicolon(Give(t, Node("expression", "", <<t.out>>))))

(* There are no labels: a name with ":" behind it is an error. *)
LabeledStatement(s) ==
  Do("assignment", s, LAMBDA t :
    IF t.out.n = "id" /\ Punct(t, {":"}) THEN Fail(t)
    ELSE PastSemicolon(Give(t, Node("expression", "", <<t.out>>))))

(* A slip: the ";" may be left out here, too. *)
InspectOpen(s) ==
  Do("assignment", Skip(s), LAMBDA t : PastSemicolon(Give(t, Node("inspect", "", <<t.out>>))))

InspectStatement(s) ==
  Do("assignment", Skip(s), LAMBDA t : Expect(t, ";", LAMBDA u : Give(u, Node("inspect", "", <<t.out>>))))

ReturnStatement(s) ==
  Do("assignment", Skip(s), LAMBDA t : Expect(t, ";", LAMBDA u : Give(u, Node("return", "", <<t.out>>))))

BreakStatement(s) == Expect(Skip(s), ";", LAMBDA u : Give(u, Leaf("break", "")))
ContinueStatement(s) == Expect(Skip(s), ";", LAMBDA u : Give(u, Leaf("continue", "")))

(* "(" expression ")", and F of the state behind it *)
Condition(s, F(_)) ==
  Expect(s, "(", LAMBDA t : Do("assignment", t, LAMBDA e : Expect(e, ")", F)))

(* A slip: the statement behind else is read and dropped. *)
IfElseDropped(s) ==
  Condition(Skip(s), LAMBDA c : Do("statement", c, LAMBDA t :
    LET if == Node("if", "", <<c.out, t.out, NoExpr>>)
    IN  IF Keyword(t) = "else" THEN Do("statement", Skip(t), LAMBDA e : Give(e, if)) ELSE Give(t, if)))

IfStatement(s) ==
  Condition(Skip(s), LAMBDA c : Do("statement", c, LAMBDA t :
    IF Keyword(t) = "else"
    THEN Do("statement", Skip(t), LAMBDA e : Give(e, Node("if", "", <<c.out, t.out, e.out>>)))
    ELSE Give(t, Node("if", "", <<c.out, t.out, NoExpr>>))))

WhileStatement(s) ==
  Condition(Skip(s), LAMBDA c : Do("statement", c, LAMBDA t : Give(t, Node("while", "", <<c.out, t.out>>))))

(* The statement is made before the ";" is looked for, and without one it  *)
(* is returned although the error is recorded.                             *)
DoStatement(s) ==
  Do("statement", Skip(s), LAMBDA t :
    IF Keyword(t) # "while" THEN Fail(t)
    ELSE Condition(Skip(t), LAMBDA c :
           LET u == Give(c, Node("do", "", <<t.out, c.out>>))
           IN  IF Punct(u, {";"}) THEN Skip(u) ELSE [u EXCEPT !.bad = TRUE]))

(* An expression of the head of a for statement, or none when p is next;   *)
(* p is skipped.                                                           *)
Part(s, p, F(_)) ==
  IF Punct(s, {p}) THEN F(Give(Skip(s), NoExpr))
  ELSE Do("assignment", s, LAMBDA t : Expect(t, p, F))

ForStatement(s) ==
  Expect(Skip(s), "(", LAMBDA t :
    IF Keyword(t) \in {"var", "const", "let"} THEN Fail(t)
    ELSE Part(t, ";", LAMBDA init : Part(init, ";", LAMBDA test : Part(test, ")", LAMBDA update :
           Do("statement", update, LAMBDA body :
             Give(body, Node("for", "", <<init.out, test.out, update.out, body.out>>)))))))

Statement(s) ==
  LET kw == Keyword(s) IN
  CASE kw = "inspect"  -> InspectStatement(s)
    [] kw = "break"    -> BreakStatement(s)
    [] kw = "continue" -> ContinueStatement(s)
    [] kw = "return"   -> ReturnStatement(s)
    [] kw = "if"       -> IfStatement(s)
    [] kw = "while"    -> WhileStatement(s)
    [] kw = "do"       -> DoStatement(s)
    [] kw = "for"      -> ForStatement(s)
    [] IsKind(s, {"identifier"}) -> LabeledStatement(s)
    [] Punct(s, {";"}) -> EmptyStatement(s)
    [] Punct(s, {"{"}) -> BlockStatement(s)
    [] kw = "this" \/ IsKind(s, Literals) \/ (IsKind(s, {"punctuator"}) /\ ~Punct(s, {";", "{"})) ->
         ExpressionStatement(s)
    [] OTHER -> Fail(s)     \* the end, and any other keyword, "function" and "new" as well

StatementListItem(s) ==
  IF Keyword(s) \in {"var", "const", "let"} THEN Declaration(s) ELSE P("statement", s)

Parse(rule, limit, s) ==
  CASE rule = "declarators"  -> Declarators(s)
    [] rule = "newarguments" -> NewArguments(s)
    [] rule = "parameters"   -> Parameters(s)
    [] rule = "properties"   -> Properties(s)
    [] rule = "elements"     -> Elements(s)
    [] rule = "arguments"    -> Arguments(s)
    [] rule = "lhs"          -> Lhs("members", s)
    [] rule \in {"members", "membersandcalls"} -> Members(rule, s)
    [] rule = "update"       -> Update(s)
    [] rule = "unary"        -> Unary(s)
    [] rule = "binary"       -> Binary(limit, s)
    [] rule = "operators"    -> Operators(limit, s)
    [] rule = "assignment"   -> Assignment(s)
    [] rule = "statement"    -> Statement(s)
    [] rule = "block"        -> Block(s)
    [] rule = "item"         -> StatementListItem(s)

-----------------------------------------------------------------------------
(* The names between braces of an import or an export, each with the name  *)
(* behind "as" or once more its own; commas may be left out.               *)
Specifier(s) ==
  LET name == Peek(s).value
      two(t, other) == PastComma(Give(t, Add(s.out, Node("specifier", "", <<Leaf("id", name), Leaf("id", other)>>))))
  IN  CASE ~IsKind(s, {"identifier"}) -> Fail(s)
        [] IsKind(s, {"identifier"}) /\ Keyword(Skip(s)) = "as" ->
             IF IsKind(Skip(Skip(s)), {"identifier"})
             THEN two(Skip(Skip(Skip(s))), Peek(Skip(Skip(s))).value)
             ELSE Fail(Skip(Skip(s)))
        [] OTHER -> two(Skip(s), name)

RECURSIVE Specifiers(_)
Specifiers(s) ==
  IF Punct(s, {"}"}) THEN Skip(s) ELSE Then(Specifier(s), LAMBDA t : Specifiers(t))

(* The string literal of a module, behind "from" unless first. *)
Source(s, F(_)) ==
  IF IsKind(s, {"string"}) THEN Then(Literal(s), F) ELSE Fail(s)
From(s, F(_)) == IF Keyword(s) = "from" THEN Source(Skip(s), F) ELSE Fail(s)

ImportDeclaration(s) ==
  LET t == Skip(s)
      import(names, src) == Expect(src, ";", LAMBDA u : Give(u, Node("import", "", <<names, src.out>>)))
  IN  CASE IsKind(t, {"string"}) -> Source(t, LAMBDA src : import(List(<<>>), src))
        [] Punct(t, {"{"}) -> Then(Specifiers(Give(Skip(t), List(<<>>))), LAMBDA names :
                                From(names, LAMBDA src : import(names.out, src)))
        [] IsKind(t, {"identifier"}) ->
             From(Skip(t), LAMBDA src : import(Leaf("default", Peek(t).value), src))
        [] OTHER -> Fail(t)

(* A default export that begins with a name is that name and no more; one  *)
(* that begins with a brace or a bracket is that object or array.          *)
ExportDefault(s) ==
  Then(CASE IsKind(s, {"identifier"}) -> ParseIdentifier(s)
         [] Punct(s, {"{"}) -> ObjectInitializer(s)
         [] Punct(s, {"["}) -> ArrayInitializer(s)
         [] OTHER -> P("assignment", s),
       LAMBDA t : Expect(t, ";", LAMBDA u : Give(u, Node("exportdefault", "", <<t.out>>))))

ExportNamed(s) ==
  Then(Specifiers(Give(Skip(s), List(<<>>))), LAMBDA t :
    Expect(t, ";", LAMBDA u : Give(u, Node("export", "", <<t.out>>))))

ExportDeclaration(s) ==
  CASE Keyword(Skip(s)) = "default" -> ExportDefault(Skip(Skip(s)))
    [] Punct(Skip(s), {"{"}) -> ExportNamed(Skip(s))
    [] OTHER -> Fail(Skip(s))

ModuleItem(s) ==
  CASE Keyword(s) = "import" -> ImportDeclaration(s)
    [] Keyword(s) = "export" -> ExportDeclaration(s)
    [] OTHER -> StatementListItem(s)

-----------------------------------------------------------------------------
Start0 == [at |-> 1, bad |-> FALSE, out |-> List(<<>>)]

ParseInit == ps = Start0 /\ parsing = "off"

(* xjs_parser_start_ex, when the lexer has not failed *)
Begin ==
  /\ lexing = "done" /\ parsing = "off"
  /\ parsing' = "on"
  /\ UNCHANGED <<lexVars, mode, ps>>

(* One item.  A routine that goes on behind the last token reads through a *)
(* null pointer.                                                           *)
Item ==
  /\ parsing = "on" /\ ~Eof(ps)
  /\ \E t \in {IF mode = "module" THEN ModuleItem(ps) ELSE P("item", ps)} :
     /\ ps' = IF t.out = None THEN t ELSE Give(t, Add(ps.out, t.out))
     /\ parsing' = CASE t.at > Len(tokens) -> "crashed"
                     [] t.at <= Len(tokens) /\ t.out = None -> "failed"
                     [] OTHER -> "on"
  /\ UNCHANGED <<lexVars, mode>>

EndOfProgram ==
  /\ parsing = "on" /\ Eof(ps)
  /\ parsing' = "done"
  /\ UNCHANGED <<lexVars, mode, ps>>

ParseNext == Begin \/ Item \/ EndOfProgram
=============================================================================
