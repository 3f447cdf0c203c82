------------------------------- MODULE FrontEnd -------------------------------
(***************************************************************************)
(* Lexer and parser one after the other, as xjs_compile in xjs/main.c and  *)
(* the modules of xjc call them, and what a program can rely on: it is     *)
(* read as it was written.                                                 *)
(***************************************************************************)
EXTENDS Parser

CONSTANTS
  Texts,      \* any texts, programs or not: records of a mode and the text
  Programs,   \* programs: records of a mode and the items
  Refused     \* texts that samples/error has, each refused by the compiler

VARIABLE written   \* the program that the source is the text of, or None

vars == <<source, at, tokens, lexing, mode, ps, parsing, written>>

-----------------------------------------------------------------------------
(***************************************************************************)
(* How a program is written: the tokens of a tree with as few parentheses  *)
(* as the grammar of JavaScript asks for, and their text.  This part knows *)
(* nothing of the parser but the shape of its trees; the levels are those  *)
(* of the table of precedences that xjs_parser.c refers to.                *)
(***************************************************************************)
(* The binary operators, the weakest first. *)
OperatorLevels ==
  << {"||"}, {"&&"}, {"|"}, {"^"}, {"&"}, {"==", "!=", "===", "!=="},
     {"<", ">", "<=", ">=", "instanceof", "in"}, {"<<", ">>", ">>>"}, {"+", "-"}, {"*", "/", "%"} >>

AssignLevel == 1
ConditionalLevel == 2
BinaryLevel(op) == 2 + CHOOSE i \in 1..Len(OperatorLevels) : op \in OperatorLevels[i]
UnaryLevel == 13
PostfixLevel == 14
CallLevel == 15
MemberLevel == 16

RECURSIVE Level(_)
Level(e) ==
  CASE e.n \in {"assign", "arrow"} -> AssignLevel
    [] e.n = "conditional" -> ConditionalLevel
    [] e.n \in {"binary", "logical"} -> BinaryLevel(e.of)
    [] e.n \in {"unary", "prefix"} -> UnaryLevel
    [] e.n = "postfix" -> PostfixLevel
    [] e.n = "call" -> CallLevel
    [] e.n \in {"member", "computed"} -> Level(e.with[1])
    [] OTHER -> MemberLevel

(* A string between quotes. *)
Escaped(c) ==
  CASE c \in {"'", "\\"} -> "\\" \o c
    [] c = "\n" -> "\\n" [] c = "\r" -> "\\r" [] c = "\t" -> "\\t" [] c = "\f" -> "\\f"
    [] c = "@" -> "\\0" [] c = "$" -> "\\b" [] c = "~" -> "\\v"
    [] OTHER -> c
Quoted(s) ==
  LET upto[i \in 0..Len(s)] == IF i = 0 THEN "'" ELSE upto[i - 1] \o Escaped(SubSeq(s, i, i))
  IN  upto[Len(s)] \o "'"

(* The tokens F gives of each member of es, with sep between them. *)
Joined(F(_), es, sep) ==
  LET upto[i \in 0..Len(es)] ==
        CASE i = 0 -> <<>> [] i = 1 -> F(es[1]) [] OTHER -> upto[i - 1] \o sep \o F(es[i])
  IN  upto[Len(es)]

RECURSIVE Tokens(_)
Each(es, sep) == Joined(Tokens, es, sep)
Paren(ts) == <<"(">> \o ts \o <<")">>

(* The tokens of an operand, between parentheses when it binds less than   *)
(* the place it stands at wants.                                           *)
Operand(e, level) == IF Level(e) < level THEN Paren(Tokens(e)) ELSE Tokens(e)

(* An expression at the beginning of a statement, or of the body of an     *)
(* arrow function: the parser takes none of these words as the first of a  *)
(* statement, and a brace there is that of a block.                        *)
Leading(e) ==
  LET ts == Tokens(e)
  IN  IF ts[1] \in {"{", "function", "new", "delete", "void", "typeof"} THEN Paren(ts) ELSE ts

Exp(e) == Operand(e, AssignLevel)
OrNothing(e) == IF e.n = "absent" THEN <<>> ELSE Exp(e)
Specs(list) ==
  LET spec(e) == IF e.with[1] = e.with[2] THEN <<e.with[1].of>> ELSE <<e.with[1].of, "as", e.with[2].of>>
  IN  Joined(spec, list.with, <<",">>)

Tokens(e) ==
  LET x == e.with IN
  CASE e.n \in {"id", "number", "boolean", "null"} -> <<e.of>>
    [] e.n = "string" -> <<Quoted(e.of)>>
    [] e.n = "this"   -> <<"this">>
    [] e.n = "list"   -> Each(x, <<",">>)
    [] e.n = "array"  -> <<"[">> \o Each(x, <<",">>) \o <<"]">>
    [] e.n = "object" -> <<"{">> \o Each(x, <<",">>) \o <<"}">>
    [] e.n = "property" -> Exp(x[1]) \o <<":">> \o Exp(x[2])
    [] e.n = "member" -> (IF x[1].n = "number" THEN Paren(Tokens(x[1])) ELSE Operand(x[1], CallLevel)) \o <<".", x[2].of>>
    [] e.n = "computed" -> Operand(x[1], CallLevel) \o <<"[">> \o Exp(x[2]) \o <<"]">>
    [] e.n = "call"   -> Operand(x[1], CallLevel) \o Paren(Tokens(x[2]))
    [] e.n = "new"    -> <<"new">> \o Operand(x[1], MemberLevel) \o Paren(Tokens(x[2]))
    [] e.n = "postfix" -> Operand(x[1], CallLevel) \o <<e.of>>
    [] e.n = "prefix" -> <<e.of>> \o Operand(x[1], CallLevel)
    [] e.n = "unary"  -> <<e.of>> \o Operand(x[1], UnaryLevel)
    [] e.n \in {"binary", "logical"} ->
         Operand(x[1], BinaryLevel(e.of)) \o <<e.of>> \o Operand(x[2], BinaryLevel(e.of) + 1)
    [] e.n = "conditional" ->
         Operand(x[1], ConditionalLevel + 1) \o <<"?">> \o Exp(x[2]) \o <<":">> \o Exp(x[3])
    [] e.n = "assign" -> Operand(x[1], CallLevel) \o <<e.of>> \o Exp(x[2])
    [] e.n = "arrow"  -> Paren(Tokens(x[1])) \o <<"=>">> \o Leading(x[2])
    [] e.n = "function" -> <<"function">> \o (IF e.of = "" THEN <<>> ELSE <<e.of>>) \o Paren(Tokens(x[1])) \o Tokens(x[2])
    [] e.n = "empty"  -> <<";">>
    [] e.n = "block"  -> <<"{">> \o Each(x, <<>>) \o <<"}">>
    [] e.n = "expression" -> Leading(x[1]) \o <<";">>
    [] e.n \in {"inspect", "return"} -> <<e.n>> \o Exp(x[1]) \o <<";">>
    [] e.n \in {"break", "continue"} -> <<e.n, ";">>
    [] e.n = "if"     -> <<"if">> \o Paren(Exp(x[1])) \o Tokens(x[2])
                           \o (IF x[3].n = "absent" THEN <<>> ELSE <<"else">> \o Tokens(x[3]))
    [] e.n = "while"  -> <<"while">> \o Paren(Exp(x[1])) \o Tokens(x[2])
    [] e.n = "do"     -> <<"do">> \o Tokens(x[1]) \o <<"while">> \o Paren(Exp(x[2])) \o <<";">>
    [] e.n = "for"    -> <<"for", "(">> \o OrNothing(x[1]) \o <<";">> \o OrNothing(x[2]) \o <<";">> \o OrNothing(x[3])
                           \o <<")">> \o Tokens(x[4])
    [] e.n = "declare" -> <<e.of>> \o Each(x, <<",">>) \o <<";">>
    [] e.n = "declarator" -> <<x[1].of>> \o (IF x[2].n = "absent" THEN <<>> ELSE <<"=">> \o Exp(x[2]))
    [] e.n = "import" -> <<"import">> \o (CASE x[1].n = "default" -> <<x[1].of, "from">>
                                            [] x[1].n = "list" /\ x[1].with = <<>> -> <<>>
                                            [] OTHER -> <<"{">> \o Specs(x[1]) \o <<"}", "from">>)
                           \o Tokens(x[2]) \o <<";">>
    [] e.n = "export" -> <<"export", "{">> \o Specs(x[1]) \o <<"}", ";">>
    [] e.n = "exportdefault" -> <<"export", "default">> \o Exp(x[1]) \o <<";">>

(* Whether a statement ends with an if that an else behind it would join.  *)
RECURSIVE OpenIf(_)
OpenIf(e) ==
  CASE e.n = "if" -> e.with[3].n = "absent" \/ OpenIf(e.with[3])
    [] e.n = "while" -> OpenIf(e.with[2])
    [] e.n = "for" -> OpenIf(e.with[4])
    [] OTHER -> FALSE

(* The text of tokens: a space stands where two tokens could be read as    *)
(* one, that is between two words and between two that are neither words   *)
(* nor brackets.                                                           *)
Shape(t) ==
  LET c == SubSeq(t, 1, 1) IN
  CASE t \in {"(", ")", "[", "]", "{", "}", ",", ";", ":", "?"} \/ c = "'" -> "mark"
    [] c \in {"+", "-", "*", "/", "%", "<", ">", "=", "!", "&", "|", "^", "~", "."} -> "sign"
    [] OTHER -> "word"

TextOf(ts) ==
  LET upto[i \in 0..Len(ts)] ==
        CASE i = 0 -> ""
          [] i > 1 /\ Shape(ts[i]) # "mark" /\ Shape(ts[i]) = Shape(ts[i - 1]) -> upto[i - 1] \o " " \o ts[i]
          [] OTHER -> upto[i - 1] \o ts[i]
  IN  upto[Len(ts)]

-----------------------------------------------------------------------------
(* The front end at work. *)
Init ==
  /\ LexInit /\ ParseInit
  /\ \/ \E t \in Texts : source = t.text /\ mode = t.mode /\ written = None
     \/ source \in Refused /\ mode \in {"script", "module"} /\ written = None
     \/ \E p \in Programs :
          /\ written = List(p.items) /\ mode = p.mode
          /\ source = TextOf(Each(p.items, <<>>))

Lex == LexNext /\ UNCHANGED <<mode, ps, parsing, written>>
Read1 == ParseNext /\ UNCHANGED written
Next == Lex \/ Read1
Spec == Init /\ [][Next]_vars

Accepted == parsing = "done" /\ ~ps.bad

-----------------------------------------------------------------------------
(* The variables have values of the kinds that the code gives them. *)
TypeOK ==
  /\ at \in 1..End /\ lexing \in {"on", "done", "failed"}
  /\ \A i \in DOMAIN tokens :
       tokens[i].kind \in {"eof", "identifier", "keyword", "punctuator"} \cup Literals
  /\ ps.at \in 1..(Len(tokens) + 1) \/ lexing = "on"
  /\ parsing \in {"off", "on", "done", "failed", "crashed"}
  /\ parsing = "done" => ps.out.n = "list"

(* A "#" that begins the text and no "!" behind it is skipped as if it     *)
(* were nothing; all other characters are in a token, in a comment, or     *)
(* white space.                                                            *)
HashSkipped == Char(1) = "#" /\ Char(2) # "!"

(* The tokens lie in the text in their order, each is its piece of the     *)
(* text, and between two of them there is nothing but spaces and comments: *)
(* the cutting loses and repeats no character.                             *)
Blank(i, j) ==
  LET blank[k \in i..j] ==
        \/ k = j
        \/ Char(k) \in Spaces /\ blank[k + 1]
        \/ \E m \in (k + 2)..j :
             /\ \/ /\ Text(k, k + 2) \in {"//", "#!"} /\ (m = End \/ Char(m) \in LineEnds)
                   /\ \A n \in k..(m - 1) : Char(n) \notin LineEnds
                \/ /\ m >= k + 4 /\ Text(k, k + 2) = "/*" /\ Text(m - 2, m) = "*/"
                   /\ \A n \in (k + 2)..(m - 3) : Text(n, n + 2) # "*/"
             /\ blank[m]
  IN  blank[i]

Cut ==
  ~HashSkipped =>
    /\ \A i \in DOMAIN tokens :
         /\ tokens[i].value = Text(tokens[i].from, tokens[i].to)
         /\ i > 1 => tokens[i - 1].to <= tokens[i].from
    /\ lexing # "failed" => \A i \in 1..(Len(tokens) + 1) :
         Blank(IF i = 1 THEN 1 ELSE tokens[i - 1].to, IF i > Len(tokens) THEN at ELSE tokens[i].from)

(* The punctuators of the page that xjs_lexer.c refers to, but "...".      *)
Punctuators ==
  {"{", "}", "(", ")", "[", "]", ".", ";", ",", "<", ">", "<=", ">=", "==", "!=", "===", "!==", "+", "-", "*", "/",
   "%", "**", "++", "--", "<<", ">>", ">>>", "&", "|", "^", "!", "~", "&&", "||", "?", ":", "=", "+=", "-=", "*=",
   "/=", "%=", "**=", "<<=", ">>=", ">>>=", "&=", "|=", "^=", "=>"}

(* A punctuator is the longest one that begins where it does: no sequence  *)
(* of signs is cut into other tokens than the language says.               *)
LongestPunctuator ==
  \A i \in DOMAIN tokens : tokens[i].kind = "punctuator" =>
    /\ tokens[i].value \in Punctuators
    /\ \A j \in (tokens[i].to + 1)..End :
         ~HashSkipped => Text(tokens[i].from, j) \notin Punctuators \cup {"//", "/*"}

(* A decimal or octal literal is worth what its digits say in their base.  *)
RECURSIVE Meaning(_, _)
Meaning(digits, base) ==
  IF digits = "" THEN 0
  ELSE DigitOf(SubSeq(digits, Len(digits), Len(digits))) + base * Meaning(SubSeq(digits, 1, Len(digits) - 1), base)

NumbersMeant ==
  \A i \in DOMAIN tokens : tokens[i].kind = "number" /\ CharsOf(tokens[i].value) \subseteq DecDigits =>
    LET v == tokens[i].value
        base == IF SubSeq(v, 1, 1) = "0" /\ CharsOf(v) \subseteq OctDigits THEN 8 ELSE 10
    IN  NumberValue(v) = <<Meaning(v, base), 1>>

(* The lexer loses nothing, cuts where the language says, and its literals *)
(* are worth what they say.                                                *)
TokensMeant == TypeOK /\ Cut /\ LongestPunctuator /\ NumbersMeant

(* A program is read as it was written: precedences, the side on which     *)
(* operators group, chains of calls, members and "new", the if that an     *)
(* else belongs to, the end of a list of parameters that only "=>" tells   *)
(* from parentheses, and the values of strings.                            *)
ReadAsWritten == parsing # "off" /\ written # None => parsing \in {"on", "done"} /\ (parsing = "done" => ps.out = written)

(* What an accepted text says is what its program says: no token but       *)
(* parentheses and the signs between the parts of a list is dropped or     *)
(* taken twice.  The body of an arrow function is excepted; there the      *)
(* first token of a block is lost.                                         *)
Said(t) == IF Initial(t) \in Quotes THEN StringValue(t)[2] ELSE t
Significant(ts) == SelectSeq([i \in DOMAIN ts |-> Said(ts[i])], LAMBDA t : t \notin {"(", ")", ",", ";", ""})
ArrowBlock(ts) == \E i \in 1..(Len(ts) - 1) : ts[i] = "=>" /\ ts[i + 1] = "{"
Values == [i \in DOMAIN tokens |-> tokens[i].value]
NothingLost ==
  Accepted /\ ~ArrowBlock(Values) => Significant(Values) = Significant(Each(ps.out.with, <<>>))

(* Whoever gets no program gets an error, and whoever gets an error gets   *)
(* no program, but behind a do statement that lacks its ";".               *)
ErrorOrProgram ==
  /\ parsing = "failed" => ps.bad
  /\ parsing = "done" /\ ps.bad => \E i \in DOMAIN tokens : tokens[i].value = "do"

(* What the samples of errors have is refused. *)
SamplesRefused == source \in Refused => ~Accepted

(* The parser looks behind the last token in two places only: in the list  *)
(* of arguments of a "new" and in the block of an arrow function, when     *)
(* the text ends there.                                                    *)
StaysInside ==
  parsing = "crashed" => ArrowBlock(Values) \/ \E i \in DOMAIN tokens : tokens[i].value = "new"

(* A text that is no program ends with an error, and not elsewhere.        *)
ErrorsMeant == ErrorOrProgram /\ SamplesRefused /\ StaysInside
=============================================================================
