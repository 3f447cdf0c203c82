-------------------------------- MODULE Machine --------------------------------
(***************************************************************************)
(* One instruction of the virtual machine: xjr_vm_step and the operators   *)
(* on values (rts/src/xjr_vm.c).                                           *)
(*                                                                         *)
(* A value is a word of a tag of three bits and a body of 29.  The body of *)
(* a value on the heap is its place in heap, which keeps what it holds: of *)
(* a string its bytes, of a function the address of its code, of a float,  *)
(* an object and an array nothing (JsArray and Heap are about those).      *)
(*                                                                         *)
(* The state of a run is [pc, regs, heap, shown, status]: shown is what    *)
(* was inspected, status "running", "halted", "failed" (a step returned    *)
(* -1), "undefined" (C does not say what happens) or "elsewhere" (at an    *)
(* instruction of another module of this model: calls, names, objects).    *)
(***************************************************************************)
EXTENDS XFile

Body == 2 ^ 29
Word(tag, body) == [tag |-> tag, body |-> body]
Posint == 0
Negint == 1
ReservedVal == 2
Float == 3
String == 4
Function == 5
Object == 6
ArrayTag == 7

False == Word(ReservedVal, 0)
True == Word(ReservedVal, 1)
UndefinedWord == Word(ReservedVal, 2)
NullWord == Word(ReservedVal, 3)
Boolean(b) == IF b THEN True ELSE False

(* XJR_VAL_MAKE_INTEGER: the number is put over the tag, it is not cut to  *)
(* the bits of the body.                                                   *)
MakeInteger(v) ==
  IF v >= 0 THEN Word(v \div Body, v % Body)
  ELSE LET n == -v
           high == n \div Body
       IN  Word(IF high % 2 = 0 THEN high + 1 ELSE high, n % Body)

IsInteger(w) == w.tag \in {Posint, Negint}
IsNumber(w) == IsInteger(w) \/ w.tag = Float
IsString(w) == w.tag = String
IsNullish(w) == w \in {UndefinedWord, NullWord}
Untag(w) == IF w.tag = Posint THEN w.body ELSE -w.body

(* xjr_val_make_string_from_int                                            *)
Digit(d) == <<48 + d>>
Decimal(v) ==
  LET digits[n \in Nat] == IF n < 10 THEN Digit(n) ELSE digits[n \div 10] \o Digit(n % 10)
  IN  IF v < 0 THEN <<45>> \o digits[-v] ELSE digits[v]

----------------------------------------------------------------------------
(* What an operator comes to: a word, a new thing on the heap, an error of *)
(* types, or what C leaves undefined.                                      *)
Result(w) == [kind |-> "word", word |-> w]
New(tag, content) == [kind |-> "new", tag |-> tag, content |-> content]
NewFloat == New(Float, "float")
TypeError == [kind |-> "error"]
UndefinedInC == [kind |-> "undefined"]

(* Of two integers.  A product of more than 31 bits overflows.             *)
Magnitude(v) == IF v < 0 THEN -v ELSE v
MaxInt == 2147483647
Quotient(x, y) ==
  LET q == Magnitude(x) \div Magnitude(y) IN IF (x < 0) = (y < 0) THEN q ELSE -q
Remainder(x, y) == x - y * Quotient(x, y)

Arithmetic(op, x, y) ==
  CASE op = "BINADD" -> Result(MakeInteger(x + y))
    [] op = "BINSUB" -> Result(MakeInteger(x - y))
    [] op = "BINMUL" ->
         IF x # 0 /\ Magnitude(y) > MaxInt \div Magnitude(x) THEN UndefinedInC
         ELSE Result(MakeInteger(x * y))
    [] op \in {"BINDIV", "BINMOD"} /\ y = 0 -> UndefinedInC
    [] op = "BINDIV" /\ y # 0 ->
         IF Remainder(x, y) = 0 THEN Result(MakeInteger(Quotient(x, y))) ELSE NewFloat
    [] op = "BINMOD" /\ y # 0 -> Result(MakeInteger(Remainder(x, y)))

(* xjr_vm_op_binary_add: strings are put together, integers next to a      *)
(* string become strings first.                                            *)
TextOf(heap, w) == IF IsString(w) THEN heap[w.body] ELSE Decimal(Untag(w))
Add(heap, l, r) ==
  CASE IsInteger(l) /\ IsInteger(r) -> Arithmetic("BINADD", Untag(l), Untag(r))
    [] IsNumber(l) /\ IsNumber(r) /\ Float \in {l.tag, r.tag} -> NewFloat
    [] \/ IsString(l) /\ (IsString(r) \/ IsInteger(r))
       \/ IsInteger(l) /\ IsString(r) -> New(String, TextOf(heap, l) \o TextOf(heap, r))
    [] OTHER -> TypeError

Numeric(op, l, r) ==
  CASE IsInteger(l) /\ IsInteger(r) -> Arithmetic(op, Untag(l), Untag(r))
    [] op # "BINMOD" /\ IsNumber(l) /\ IsNumber(r) /\ Float \in {l.tag, r.tag} -> NewFloat
    [] OTHER -> TypeError

(* xjr_vm_op_binary_e2, which xjr_vm_op_binary_e3 repeats word for word.   *)
Equal(heap, l, r) ==
  \/ IsInteger(l) /\ IsInteger(r) /\ Untag(l) = Untag(r)
  \/ l = r /\ l \in {False, True}
  \/ IsNullish(l) /\ IsNullish(r)
  \/ l.tag = r.tag /\ l.tag \in {String, Function} /\ heap[l.body] = heap[r.body]
  \/ l.tag = Object /\ l = r

Compare(op, l, r) ==
  IF ~(IsInteger(l) /\ IsInteger(r)) THEN TypeError
  ELSE LET x == Untag(l)
           y == Untag(r)
       IN  Result(Boolean(CASE op = "BINL" -> x < y
                            [] op = "BINLE" -> x <= y
                            [] op = "BING" -> x > y
                            [] op = "BINGE" -> x >= y))

(* A slip: every string is true.                                           *)
TruthyStrings(heap, w) ==
  w \notin {UndefinedWord, NullWord, False} /\ ~(IsInteger(w) /\ Untag(w) = 0)

(* xjr_vm_cond_eq2_as_true                                                 *)
Truthy(heap, w) ==
  /\ w \notin {UndefinedWord, NullWord, False}
  /\ ~(IsInteger(w) /\ Untag(w) = 0)
  /\ ~(IsString(w) /\ heap[w.body] = <<>>)

BinaryResult(op, heap, l, r) ==
  CASE op = "BINADD" -> Add(heap, l, r)
    [] op \in {"BINSUB", "BINMUL", "BINDIV", "BINMOD"} -> Numeric(op, l, r)
    [] op \in {"BINE2", "BINE3"} -> Result(Boolean(Equal(heap, l, r)))
    [] op \in {"BINNE2", "BINNE3"} -> Result(Boolean(~Equal(heap, l, r)))
    [] op \in {"BINL", "BINLE", "BING", "BINGE"} -> Compare(op, l, r)
    [] op = "BINAND" -> Result(IF Truthy(heap, l) THEN r ELSE l)
    [] op = "BINOR" -> Result(IF Truthy(heap, l) THEN l ELSE r)

UnaryResult(op, w) ==
  CASE op \in {"UNADD", "UNSUB"} /\ w.tag = Float -> NewFloat
    [] op = "UNADD" /\ IsInteger(w) -> Result(MakeInteger(Untag(w)))
    [] op = "UNSUB" /\ IsInteger(w) -> Result(MakeInteger(-Untag(w)))
    [] op = "UNBNOT" /\ IsInteger(w) -> Result(MakeInteger(-Untag(w) - 1))
    [] op = "UNNOT" /\ (IsInteger(w) \/ w \in {False, True}) ->
         Result(Boolean(IF IsInteger(w) THEN Untag(w) = 0 ELSE w = False))
    [] OTHER -> TypeError

----------------------------------------------------------------------------
(* What xjr_vm_step fetches behind an opcode.  Calls have at most ArgcMax  *)
(* arguments.                                                              *)
Fetches(names) == [i \in DOMAIN names |-> <<names[i], "u8">>]
LiteralFetches == [LOAD_NUMBER_S8 |-> "s8", LOAD_NUMBER_S16 |-> "s16", LOAD_NUMBER_S32 |-> "s32",
                   LOAD_NUMBER_U8 |-> "u8", LOAD_NUMBER_U16 |-> "u16", LOAD_NUMBER_U32 |-> "u32",
                   LOAD_NUMBER_F64 |-> "f64"]
BinaryOpcodes == {"BINADD", "BINSUB", "BINMUL", "BINDIV", "BINMOD", "BINE2", "BINNE2", "BINE3",
                  "BINNE3", "BINL", "BINLE", "BING", "BINGE", "BINAND", "BINOR"}
UnaryOpcodes == {"UNADD", "UNSUB", "UNNOT", "UNBNOT"}

FetchLayout ==
  [op \in {"NOP", "HALT", "DEBUG"} |-> <<>>]
  @@ [op \in {"INSPECT", "RET", "LOAD_UNDEFINED", "LOAD_NULL", "LOAD_FALSE", "LOAD_TRUE",
              "LOAD_OBJECT", "LOAD_ARRAY"} |-> Fetches(<<"reg">>)]
  @@ [op \in BinaryOpcodes |-> Fetches(<<"dst", "lhs", "rhs">>)]
  @@ [op \in UnaryOpcodes |-> Fetches(<<"dst", "src">>)]
  @@ [op \in {"LOAD", "STORE", "LOAD_STRING", "LOAD_FUNCTION"} |-> <<<<"reg", "u8">>, <<"offset", "u32">>>>]
  @@ [op \in DOMAIN LiteralFetches |-> <<<<"reg", "u8">>, <<"value", LiteralFetches[op]>>>>]
  @@ [op \in {"CALL", "NEW"} |-> Append(Fetches(<<"dst", "callee", "argc">>), <<"argv", "regs">>)]
  @@ [CALLT |-> Append(Fetches(<<"dst", "callee", "this", "argc">>), <<"argv", "regs">>),
      ALLOCREG |-> Fetches(<<"cnt">>), ARG |-> <<<<"offset", "u32">>, <<"idx", "u8">>>>,
      DYNLIB |-> Fetches(<<"exports", "module_name">>),
      BR |-> <<<<"dest", "u32">>>>, BRC |-> <<<<"cond", "u8">>, <<"dest", "u32">>>>,
      MERGE |-> Fetches(<<"dst", "test", "consequent", "alternate">>),
      THIS |-> Fetches(<<"dst">>), DECLVAR |-> <<<<"offset", "u32">>>>,
      OBJGET |-> Fetches(<<"dst", "obj", "member">>), OBJSET |-> Fetches(<<"dst", "obj", "member", "src">>),
      ARRPUSH |-> Fetches(<<"arr", "elem">>)]

FieldSize(kind, operand) ==
  CASE kind \in {"u8", "s8"} -> 1
    [] kind \in {"u16", "s16"} -> 2
    [] kind \in {"u32", "s32"} -> 4
    [] kind = "f64" -> 8
    [] kind = "regs" -> operand.argc

FieldValue(f, offset, kind, operand) ==
  CASE kind \in {"u8", "u16", "u32"} -> Unsigned(f, offset, FieldSize(kind, operand))
    [] kind \in {"s8", "s16", "s32"} -> Signed(f, offset, FieldSize(kind, operand))
    [] kind = "f64" -> ByteAt(f, offset)
    [] kind = "regs" -> Bytes(f, offset, operand.argc)

(* The macros FETCH: every read moves the pc; one behind the file fails.   *)
FetchField(f, text, d, field) ==
  LET offset == text + 4 + d.next
      fits == /\ d.ok /\ (field[1] = "argv" => d.operand.argc <= ArgcMax)
              /\ Readable(f, offset, FieldSize(field[2], d.operand))
  IN  IF ~fits THEN [d EXCEPT !.ok = FALSE]
      ELSE [d EXCEPT !.next = @ + FieldSize(field[2], d.operand),
                     !.operand = (field[1] :> FieldValue(f, offset, field[2], d.operand)) @@ @]

(* [ok, opcode, operand, next]: next is the pc behind it.                  *)
Fetched(f, text, pc) ==
  LET opcode == OpcodeOf(ByteAt(f, text + 4 + pc))
      blank == [ok |-> TRUE, opcode |-> opcode, operand |-> [pc |-> pc], next |-> pc + SizeOpcode]
      fields == FetchLayout[opcode]
  IN  IF ~Readable(f, text + 4 + pc, 1) \/ opcode \notin DOMAIN FetchLayout THEN [blank EXCEPT !.ok = FALSE]
      ELSE FoldLeft(LAMBDA d, field : FetchField(f, text, d, field), blank, fields)

----------------------------------------------------------------------------
Started(pc) == [pc |-> pc, regs |-> <<>>, heap |-> <<>>, shown |-> <<>>, status |-> "running"]

(* XJR_VM_GET_VREGV, XJR_VM_SET_VREGV: a register of its own number counts *)
(* from zero; one that is not allocated reads as undefined and keeps       *)
(* nothing.                                                                *)
Get(m, r) == IF r < Len(m.regs) THEN m.regs[r + 1] ELSE UndefinedWord
Set(m, r, w) == IF r < Len(m.regs) THEN [m EXCEPT !.regs[r + 1] = w] ELSE m

Made(m, r, tag, content) ==
  Set([m EXCEPT !.heap = Append(@, content)], r, Word(tag, Len(m.heap) + 1))

Stored(m, r, result) ==
  CASE result.kind = "word" -> Set(m, r, result.word)
    [] result.kind = "new" -> Made(m, r, result.tag, result.content)
    [] result.kind = "error" -> [m EXCEPT !.status = "failed"]
    [] result.kind = "undefined" -> [m EXCEPT !.status = "undefined"]

Literal == [LOAD_UNDEFINED |-> UndefinedWord, LOAD_NULL |-> NullWord,
            LOAD_FALSE |-> False, LOAD_TRUE |-> True]

LoadString(f, sections, m, o) ==
  LET body == DataBody(f, sections, o.offset, TypeUtf8Str)
  IN  IF body = NoBody THEN [m EXCEPT !.status = "failed"] ELSE Made(m, o.reg, String, body)

(* The switch of xjr_vm_step; m has its pc behind the instruction.         *)
Executed(f, sections, m, op, o) ==
  CASE op = "NOP" -> m
    [] op \in {"HALT", "DEBUG"} -> [m EXCEPT !.status = "halted"]
    [] op = "ALLOCREG" -> [m EXCEPT !.regs = [i \in 1 .. o.cnt |-> UndefinedWord]]
    [] op = "INSPECT" -> [m EXCEPT !.shown = Append(@, Get(m, o.reg))]
    [] op = "BR" -> [m EXCEPT !.pc = o.dest]
    [] op = "BRC" -> IF Truthy(m.heap, Get(m, o.cond)) THEN [m EXCEPT !.pc = o.dest] ELSE m
    [] op = "MERGE" ->
         Set(m, o.dst, Get(m, IF Truthy(m.heap, Get(m, o.test)) THEN o.consequent ELSE o.alternate))
    [] op \in DOMAIN Literal -> Set(m, o.reg, Literal[op])
    [] op = "LOAD_NUMBER_F64" -> Made(m, o.reg, Float, "float")
    [] op \in DOMAIN LiteralFetches \ {"LOAD_NUMBER_F64"} -> Set(m, o.reg, MakeInteger(o.value))
    [] op = "LOAD_STRING" -> LoadString(f, sections, m, o)
    [] op = "LOAD_FUNCTION" -> Made(m, o.reg, Function, o.offset)
    [] op = "LOAD_OBJECT" -> Made(m, o.reg, Object, "object")
    [] op = "LOAD_ARRAY" -> Made(m, o.reg, ArrayTag, "array")
    [] op \in BinaryOpcodes -> Stored(m, o.dst, BinaryResult(op, m.heap, Get(m, o.lhs), Get(m, o.rhs)))
    [] op \in UnaryOpcodes -> Stored(m, o.dst, UnaryResult(op, Get(m, o.src)))
    [] OTHER -> [m EXCEPT !.status = "elsewhere"]

Stepped(f, sections, m) ==
  LET d == Fetched(f, sections.text, m.pc)
  IN  IF ~d.ok THEN [m EXCEPT !.status = "failed", !.pc = d.next]
      ELSE Executed(f, sections, [m EXCEPT !.pc = d.next], d.opcode, d.operand)
================================================================================
