-------------------------------- MODULE Lexer --------------------------------
(***************************************************************************)
(* The lexer of the compiler, xjs_lexer.c: it cuts a text into tokens.     *)
(*                                                                         *)
(* A text is a string; Char(i) is its i-th character and "" what the code  *)
(* reads behind the last one (the strings of the compiler end in a zero,   *)
(* which belongs to no class of characters).  One step is one round of the *)
(* loop of xjs_lexer_start_ex: a comment, a token or the end.              *)
(***************************************************************************)
EXTENDS Naturals, Sequences, FiniteSets

VARIABLES
  source,       \* the text
  at,           \* ctx.it, the position of the next character
  tokens,       \* new_list
  lexing        \* "on", "done", or "failed" when the list was given up

lexVars == <<source, at, tokens, lexing>>

CharsOf(s) == {SubSeq(s, i, i) : i \in 1..Len(s)}

Letters == CharsOf("abcdefghijklmnopqrstuvwxyzABCDEFGHIJKLMNOPQRSTUVWXYZ")
DecDigits == CharsOf("0123456789")
OctDigits == CharsOf("01234567")
BinDigits == CharsOf("01")
HexDigits == DecDigits \cup CharsOf("abcdefABCDEF")
IdStart == Letters \cup {"$", "_"}
IdContinue == IdStart \cup DecDigits
LineEnds == {"\n", "\r"}
Spaces == LineEnds \cup {"\t", " ", "\f"}
Quotes == {"'", "\""}

(* ec_string_match_with_keyword *)
Keywords ==
  {"await", "as", "break", "case", "catch", "class", "const", "continue", "debugger", "default", "delete", "do",
   "else", "export", "extends", "finally", "for", "from", "function", "if", "import", "in", "instanceof", "let",
   "new", "return", "static", "super", "switch", "this", "throw", "try", "typeof", "var", "void", "while", "with",
   "yield", "inspect"}

Char(i) == IF i <= Len(source) THEN SubSeq(source, i, i) ELSE ""
Text(i, j) == SubSeq(source, i, j - 1)
Initial(t) == IF t = "" THEN "" ELSE SubSeq(t, 1, 1)
End == Len(source) + 1

(* The first position from i on where the text has ended or P holds. *)
FirstFrom(i, P(_)) ==
  CHOOSE j \in i..End : (j = End \/ P(j)) /\ \A k \in i..(j - 1) : ~P(k)

-----------------------------------------------------------------------------
(* What one reading gives: the kind of the token, "none" when there is     *)
(* none, its first character and the character to go on with.              *)
Read(kind, first, next) == [kind |-> kind, first |-> first, next |-> next]

IdentifierKind(value) ==
  CASE value = "null" -> "null"
    [] value \in {"false", "true"} -> "boolean"
    [] value \in Keywords -> "keyword"
    [] OTHER -> "identifier"

Identifier(i) ==
  LET j == FirstFrom(i + 1, LAMBDA k : Char(k) \notin IdContinue)
  IN  Read(IdentifierKind(Text(i, j)), i, j)

(* A literal that the end of the text cuts off is a token all the same,    *)
(* unless it is cut off behind a backslash.                                *)
StringLiteral(i) ==
  LET end[j \in (i + 1)..(End + 1)] ==
        CASE j >= End -> j
          [] j < End /\ Char(j) = Char(i) -> j + 1
          [] j < End /\ Char(j) # Char(i) -> end[IF Char(j) = "\\" THEN j + 2 ELSE j + 1]
      j == end[i + 1]
  IN  IF j > End THEN Read("none", i, End) ELSE Read("string", i, j)

(* The state of xjs_lexer_get_token_numeric_literal behind one more        *)
(* character, "finish" when that one does not belong to the literal.       *)
NumberStep(state, c) ==
  CASE state = "0"      /\ c \in {"b", "B"}   -> "0b"
    [] state = "0"      /\ c \in {"x", "X"}   -> "0x"
    [] state = "0"      /\ c \in OctDigits    -> "oct"
    [] state \in {"0", "decint"} /\ c = "."   -> "decdot"
    [] state = "0b"     /\ c \in BinDigits    -> "0b"
    [] state = "0x"     /\ c \in HexDigits    -> "0x"
    [] state \in {"decint", "decdot"} /\ c \in DecDigits -> state
    [] state = "oct"    /\ c \in OctDigits    -> "oct"
    [] OTHER -> "finish"

NumericLiteral(i) ==
  LET states == {"0", "0b", "0x", "decint", "decdot", "oct"}
      end[s \in states, j \in (i + 1)..End] ==
        LET t == NumberStep(s, Char(j)) IN IF t = "finish" THEN j ELSE end[t, j + 1]
  IN  Read("number", i, end[IF Char(i) = "0" THEN "0" ELSE "decint", i + 1])

(* The loop of xjs_lexer_get_token_dot tests the character it has taken:   *)
(* the one behind the last digit belongs to the token.                     *)
Dot(i) ==
  IF Char(i + 1) \in DecDigits
  THEN LET j == FirstFrom(i + 1, LAMBDA k : Char(k) \notin DecDigits)
       IN  Read("number", i, IF j = End THEN j ELSE j + 1)
  ELSE Read("punctuator", i, i + 1)

(* A slip: a shift with a sign is not known to go on. *)
ContinueShort(value) ==
  CASE value \in {"+", "-", "&", "|", "<", "*"} -> {"=", value}
    [] value \in {"=", ">"} -> {"=", ">"}
    [] value \in {"==", "!", "!=", "%", "^", "/", "<<", ">>", "**"} -> {"="}
    [] OTHER -> {}

(* The characters that continue a punctuator, the branches of              *)
(* xjs_lexer_get_token_punctuator.                                         *)
Continue(value) ==
  CASE value \in {"+", "-", "&", "|", "<", "*"} -> {"=", value}
    [] value \in {"=", ">", ">>"} -> {"=", ">"}
    [] value \in {"==", "!", "!=", "%", "^", "/", "<<", ">>>", "**"} -> {"="}
    [] OTHER -> {}

Punctuator(i) ==
  LET end[j \in (i + 1)..End] == IF Char(j) \in Continue(Text(i, j)) THEN end[j + 1] ELSE j
  IN  IF Char(i) \in CharsOf("{}()[];,~?:<>=!+-*%&|^/")
      THEN Read("punctuator", i, end[i + 1])
      ELSE Read("none", i, i)

GetToken(i) ==
  CASE Char(i) \in IdStart   -> Identifier(i)
    [] Char(i) \in Quotes    -> StringLiteral(i)
    [] Char(i) \in DecDigits -> NumericLiteral(i)
    [] Char(i) = "."         -> Dot(i)
    [] OTHER                 -> Punctuator(i)

LineEnd(i) == FirstFrom(i, LAMBDA k : Char(k) \in LineEnds)

(* A slip: the last character of a comment is left over. *)
CommentShort(i) ==
  IF Char(i) = "/" /\ Char(i + 1) = "*"
  THEN LET j == FirstFrom(i + 2, LAMBDA k : Char(k) = "*" /\ Char(k + 1) = "/")
       IN  IF j = End THEN Read("none", i, End) ELSE Read("comment", i, j + 1)
  ELSE Read("none", i, i)

(* xjs_lexer_get_comment.  It reads the punctuators that begin with a      *)
(* slash, too.  When it finds nothing it may have moved on: to the end     *)
(* behind a comment that is not closed, past a "#" at the beginning.       *)
Comment(i) ==
  CASE Char(i) = "/" /\ Char(i + 1) = "/" -> Read("comment", i, LineEnd(i + 1))
    [] Char(i) = "/" /\ Char(i + 1) = "=" -> Read("punctuator", i, i + 2)
    [] Char(i) = "/" /\ Char(i + 1) = "*" ->
         LET j == FirstFrom(i + 2, LAMBDA k : Char(k) = "*" /\ Char(k + 1) = "/")
         IN  IF j = End THEN Read("none", i, End) ELSE Read("comment", i, j + 2)
    [] Char(i) = "/" /\ Char(i + 1) \notin {"/", "=", "*"} -> Read("punctuator", i, i + 1)
    [] Char(i) = "#" /\ i = 1 ->
         IF Char(2) = "!" THEN Read("comment", i, LineEnd(2)) ELSE Read("none", i, 2)
    [] OTHER -> Read("none", i, i)

-----------------------------------------------------------------------------
(* A token has its kind, its value, and its range in the text. *)
Token(r, from) == [kind |-> r.kind, value |-> Text(r.first, r.next), from |-> from, to |-> r.next]
EofToken ==
  LET e == IF tokens = <<>> THEN End ELSE tokens[Len(tokens)].to
  IN  [kind |-> "eof", value |-> "", from |-> e, to |-> e]

LexInit ==
  /\ at = 1 /\ tokens = <<>> /\ lexing = "on"

(* The position behind the white space. *)
Start == FirstFrom(at, LAMBDA k : Char(k) \notin Spaces)

(* What the round finds there: the comment, or else the token. *)
Found == LET c == Comment(Start) IN IF c.kind # "none" THEN c ELSE GetToken(c.next)

SkipComment ==
  /\ lexing = "on" /\ Start < End /\ Found.kind = "comment"
  /\ at' = Found.next
  /\ UNCHANGED <<source, tokens, lexing>>

TakeToken ==
  /\ lexing = "on" /\ Start < End /\ Found.kind \notin {"none", "comment"}
  /\ at' = Found.next
  /\ tokens' = Append(tokens, Token(Found, Start))
  /\ UNCHANGED <<source, lexing>>

Refuse ==
  /\ lexing = "on" /\ Start < End /\ Found.kind = "none"
  /\ lexing' = "failed" /\ tokens' = <<>>
  /\ UNCHANGED <<source, at>>

Finish ==
  /\ lexing = "on" /\ Start = End
  /\ lexing' = "done" /\ at' = End
  /\ tokens' = Append(tokens, EofToken)
  /\ UNCHANGED source

LexNext == SkipComment \/ TakeToken \/ Refuse \/ Finish
=============================================================================
