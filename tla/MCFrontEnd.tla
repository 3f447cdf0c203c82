------------------------------ MODULE MCFrontEnd ------------------------------
(***************************************************************************)
(* Programs that put each kind of expression into each place of each       *)
(* other, each pair of operators side by side, and each kind of statement  *)
(* into each place of each other; all texts of three characters, and texts *)
(* that begin or end where the code makes a difference.                    *)
(***************************************************************************)
EXTENDS FrontEnd

a == Leaf("id", "a")
b == Leaf("id", "b")
c == Leaf("id", "c")
B(op, l, r) == Node(IF op \in {"&&", "||"} THEN "logical" ELSE "binary", op, <<l, r>>)
Operators1 == UNION {OperatorLevels[i] : i \in 1..Len(OperatorLevels)}

(* Every pair of binary operators, on either side. *)
PairsOf == {B(p, B(q, a, b), c) : p \in Operators1, q \in Operators1} \cup
           {B(p, a, B(q, b, c)) : p \in Operators1, q \in Operators1}

FunctionOf(body) == Node("function", "", <<List(<<a>>), Node("block", "", <<body>>)>>)
ReturnOf(e) == Node("return", "", <<e>>)

(* The expressions that have e at one of their places. *)
Over(e) ==
  {Node("member", "", <<e, b>>), Node("computed", "", <<e, b>>), Node("computed", "", <<a, e>>),
   Node("call", "", <<e, List(<<>>)>>), Node("call", "", <<a, List(<<e, b>>)>>), Node("call", "", <<a, List(<<b, e>>)>>),
   Node("new", "", <<e, List(<<a>>)>>), Node("new", "", <<a, List(<<e, b>>)>>),
   Node("prefix", "++", <<e>>), Node("postfix", "--", <<e>>),
   Node("unary", "-", <<e>>), Node("unary", "typeof", <<e>>), B("*", e, b), B("-", a, e), B("&&", e, b), B("in", a, e),
   Node("conditional", "", <<e, a, b>>), Node("conditional", "", <<a, e, b>>), Node("conditional", "", <<a, b, e>>),
   Node("assign", "+=", <<e, b>>), Node("assign", "=", <<a, e>>),
   Node("arrow", "", <<List(<<a, b>>), e>>), Node("arrow", "", <<List(<<>>), e>>),
   FunctionOf(ReturnOf(e)), Node("array", "", <<e, b>>), Node("array", "", <<a, e>>),
   Node("object", "", <<Node("property", "", <<Leaf("string", "k"), e>>)>>),
   Node("object", "", <<Node("property", "", <<e, b>>), Node("property", "", <<Leaf("string", "k"), a>>)>>)}
   
(* A name in front of ":" is a string, so no key of an object is a name. *)
Plain(e) ==
  /\ e.n = "property" => e.with[1].n \in {"string", "number"}
  /\ e.n \in {"prefix", "postfix", "assign"} => e.with[1].n \in {"id", "member", "computed", "call"}

LeavesOf == {a, Leaf("this", ""), Leaf("number", "10"), Leaf("boolean", "true"), Leaf("null", "null"), Leaf("string", "i'\\n\n\r\t\f@$~"),
             Leaf("array", ""), Leaf("object", "")}

RECURSIVE AllPlain(_)
AllPlain(e) == Plain(e) /\ \A i \in DOMAIN e.with : AllPlain(e.with[i])
Expressions ==
  LET one == UNION {Over(e) : e \in LeavesOf}
      two == UNION {Over(e) : e \in Over(a) \cup {Node("object", "", <<>>)}}
  IN  {e \in PairsOf \cup one \cup two : AllPlain(e)}

Statement1(e) == Node("expression", "", <<e>>)
If(s, t) == Node("if", "", <<a, s, t>>)
Simple ==
  {Leaf("empty", ""), Leaf("break", ""), Leaf("continue", ""), ReturnOf(a), Node("inspect", "", <<b>>), Statement1(c),
   Node("block", "", <<>>)}
Around(s) ==
  {If(s, NoExpr), If(Leaf("empty", ""), s), Node("while", "", <<a, s>>), Node("do", "", <<s, a>>),
   Node("for", "", <<NoExpr, NoExpr, NoExpr, s>>), Node("for", "", <<a, b, c, s>>), Node("for", "", <<NoExpr, b, NoExpr, s>>),
   Node("block", "", <<s, Statement1(b)>>), Node("block", "", <<Statement1(b), s>>)} \cup
  (IF OpenIf(s) THEN {} ELSE {If(s, Statement1(b)), If(s, If(Statement1(b), Leaf("empty", "")))})
Statements == LET one == UNION {Around(s) : s \in Simple} IN Simple \cup one \cup UNION {Around(s) : s \in one}

Declare(kw, e) == Node("declare", kw, <<Node("declarator", "", <<a, NoExpr>>), Node("declarator", "", <<b, e>>)>>)
From1 == Leaf("string", "m")
Spec2 == List(<<Node("specifier", "", <<a, a>>), Node("specifier", "", <<b, c>>)>>)
ModuleItems ==
  {Node("import", "", <<List(<<>>), From1>>), Node("import", "", <<Spec2, From1>>),
   Node("import", "", <<Leaf("default", "a"), From1>>), Node("export", "", <<Spec2>>),
   Node("exportdefault", "", <<a>>), Node("exportdefault", "", <<Leaf("array", "")>>),
   Node("exportdefault", "", <<Node("object", "", <<Node("property", "", <<Leaf("string", "k"), a>>)>>)>>),
   Node("exportdefault", "", <<Node("unary", "-", <<a>>)>>), Node("exportdefault", "", <<FunctionOf(ReturnOf(a))>>)}

Of(mode1, items) == [mode |-> mode1, items |-> items]
(* Each program has two statements, so that each item has a next one. *)
MCPrograms ==
  {Of("script", <<Statement1(e), Statement1(b)>>) : e \in Expressions} \cup
  {Of("script", <<s>>) : s \in Statements} \cup
  {Of("module", <<Declare(kw, e)>>) : kw \in {"var", "const", "let"}, e \in {x \in Over(a) : AllPlain(x)}} \cup
  {Of("module", <<x, y>>) : x \in ModuleItems, y \in ModuleItems \cup {Statement1(a)}}

Alphabet == CharsOf("ab0x9._ \n'\\/*=<>+-!&(){}[],;:?#|")
Fewer == CharsOf("a09x. \n'\\/*=>+(){};#")
Short == Alphabet \cup {x \o y : x \in Alphabet, y \in Alphabet} \cup
         {x \o y \o z : x \in Fewer, y \in Fewer, z \in Fewer}
Signs == CharsOf("=<>*!+")
MCTexts == [mode : {"script"}, text :
  {""} \cup Short \cup {w \o x \o y \o z : w \in Signs, x \in Signs, y \in Signs, z \in Signs} \cup
  {"/* a */b", "/*/ b", "/***/a", "//a\nb", "#!x\na", "0x1f", "010", "0b1;", "1.50", ".5;", "'\\", "\"a'b\"", "'a\\qb'", "'a\\0\\b\\v'",
   "static", "x=new a(", "x=new a(new b(", "{", "{a", "x=new a(b,1)", "x=new a(b c)", "new a;", "a=>{}", "()=>{return a;}}", "()=>{", "(a,)=>b", "(a,b)", "a=>{b c}",
   "do a;while(b)", "do{}while(a)b", "a:b", "if(a)if(b)c;else d", "f(a,)", "function(a,){}", "return", "[a b]", "{a:b}", "a={b:1 c:2}"}] \cup
  [mode : {"module"}, text : {"import{a b as c}from'm';", "export{a b};", "export default a+b;", "export default[]+b;",
     "import a from b;", "import'm'", "import*", "export{a as 1};", "export{", "export", "import{a as"}]

(* The sources of samples/error. *)
MCRefused ==
  {"foo(a", "true ? 1", "var ;", "var", "var a,;", "var a+", "do", "do {}", "do {} while", "do {} while (false",
   "var a = function;", "var a = function(;", "var a = function();", "var a = {\"a\"}", "if", "if (", "if (true", "inspect a",
   "#", "a[0", "function f() { }", "(1", "return a", "else;", "(else)", "&", "while", "while (", "while (true"}
=============================================================================
