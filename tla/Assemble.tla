-------------------------------- MODULE Assemble -------------------------------
(***************************************************************************)
(* The code generator C4 of the compiler (compiler/src/xjs_c4.c): what a   *)
(* program in IR becomes as an x-file.                                     *)
(*                                                                         *)
(* Three tables tell an instruction apart: how long it is                  *)
(* (InstrumentSize), which operands it has (Annotated) and how they are    *)
(* written (Layout).  Addresses come from the first, the bytes from the    *)
(* last; the machine has a fourth table (Machine).                         *)
(*                                                                         *)
(* A program is [functions, top, data, exports, imports, debug]; a         *)
(* function is [params, items, reg, need]: reg gives each variable its     *)
(* register (RegAlloc) and need counts them.                               *)
(***************************************************************************)
EXTENDS XFile

Total(s) == FoldLeft(LAMBDA a, b : a + b, 0, s)

(***************************************************************************)
(* Sizes and offsets.                                                      *)
(***************************************************************************)
(* The shortest form of a literal: of an integer that is not in range of   *)
(* one of 8 or 16 bits, 32 bits.                                           *)
LiteralForm(item) ==
  CASE item.float -> "F64"
    [] ~item.float /\ item.value \in -128 .. 127 -> "S8"
    [] ~item.float /\ item.value \in (-32768 .. 32767) \ (-128 .. 127) -> "S16"
    [] OTHER -> "S32"

LiteralSize == [S8 |-> 1, S16 |-> 2, S32 |-> 4, F64 |-> 8]

Binary == {"binary_add", "binary_sub", "binary_mul", "binary_div", "binary_mod",
           "binary_e2", "binary_ne2", "binary_e3", "binary_ne3",
           "binary_l", "binary_le", "binary_g", "binary_ge", "binary_and", "binary_or"}
Unary == {"unary_add", "unary_sub", "unary_not", "unary_bnot"}
Unsupported == {"push_scope", "pop_scope"}

(* xjs_c4_text_item_instrument_size                                        *)
InstrumentSize(item) ==
  CASE item.type \in {"nop", "halt"} -> SizeOpcode
    [] item.type \in {"label", "alloca"} -> 0
    [] item.type \in {"br", "declvar"} -> SizeOpcode + SizeAddr
    [] item.type \in {"br_cond", "load_string", "load", "store"} -> SizeOpcode + SizeReg + SizeAddr
    [] item.type = "make_function" -> SizeOpcode + SizeReg + SizeFunctionId
    [] item.type \in {"merge", "object_set"} -> SizeOpcode + SizeReg * 4
    [] item.type \in {"object_get"} \cup Binary -> SizeOpcode + SizeReg * 3
    [] item.type \in {"dynlib", "array_push"} \cup Unary -> SizeOpcode + SizeReg * 2
    [] item.type = "load_number" -> SizeOpcode + SizeReg + LiteralSize[LiteralForm(item)]
    [] item.type = "call" ->
         SizeOpcode + SizeReg * (IF item.bound THEN 3 ELSE 2) + 1 + Len(item.arguments)
    [] item.type = "new" -> SizeOpcode + SizeReg * 2 + 1 + Len(item.arguments)
    [] OTHER -> SizeOpcode + SizeReg

(* function_boilerplate_instrument_size: the parameters and ALLOCREG.      *)
ParameterSize == SizeOpcode + SizeAddr + SizeReg
BoilerplateSize(func) == ParameterSize * Len(func.params) + SizeOpcode + 1

ItemsSize(items) == Total([k \in DOMAIN items |-> InstrumentSize(items[k])])
FunctionSize(func) == BoilerplateSize(func) + ItemsSize(func.items)

(* xjs_c4_function_offset_map_extract and its like for function ids, which *)
(* are the places in the list of functions.                                *)
FunctionOffset(p, n) == Total([i \in 1 .. n - 1 |-> FunctionSize(p.functions[i])])

(* Where item k of function n begins: the running offset of                *)
(* xjs_c4_text_section_annotate.                                           *)
ItemOffset(p, n, k) ==
  FunctionOffset(p, n) + BoilerplateSize(p.functions[n]) + ItemsSize(SubSeq(p.functions[n].items, 1, k - 1))

(* A slip: labels are counted from the first instruction of the body.      *)
LabelOffsetBody(p, n, label) ==
  LET items == p.functions[n].items
      k == CHOOSE i \in DOMAIN items : items[i].type = "label" /\ items[i].to = label
  IN  ItemOffset(p, n, k) - BoilerplateSize(p.functions[n])

(* xjs_c4_label_offset_map_extract, for the labels of one function.        *)
LabelOffset(p, n, label) ==
  LET items == p.functions[n].items
      k == CHOOSE i \in DOMAIN items : items[i].type = "label" /\ items[i].to = label
  IN  ItemOffset(p, n, k)

(* A slip: the NUL behind the body is forgotten.                           *)
DataSizeBare(d) == 2 + 4 + Len(d.body)

(* Type, length, body and NUL of an item of the data section.              *)
DataSize(d) == 2 + 4 + Len(d.body) + 1

(* xjs_c4_data_section_annotate                                            *)
DataOffset(p, id) ==
  LET k == CHOOSE i \in DOMAIN p.data : p.data[i].id = id
  IN  Total([i \in 1 .. k - 1 |-> DataSize(p.data[i])])

(***************************************************************************)
(* Annotated instructions.                                                 *)
(***************************************************************************)
Regs(func, item, operands) == [o \in operands |-> func.reg[item[o]]]

(* The operands of an instruction that are registers, by type of item.     *)
RegOperands ==
  [t \in Binary |-> {"dst", "lhs", "rhs"}] @@ [t \in Unary |-> {"dst", "src"}]
  @@ [dynlib |-> {"exports", "module_name"}, br_cond |-> {"cond"},
      merge |-> {"dst", "test", "consequent", "alternate"},
      inspect |-> {"reg"}, ret |-> {"reg"}, make_function |-> {"reg"}, this |-> {"dst"},
      new |-> {"dst", "callee"}, store |-> {"reg"}, load |-> {"reg"},
      load_undefined |-> {"reg"}, load_null |-> {"reg"}, load_bool |-> {"reg"},
      load_number |-> {"reg"}, load_string |-> {"reg"}, load_object |-> {"reg"}, load_array |-> {"reg"},
      object_get |-> {"dst", "obj", "member"}, object_set |-> {"dst", "obj", "member", "src"},
      array_push |-> {"arr", "elem"},
      nop |-> {}, halt |-> {}, br |-> {}, declvar |-> {}]

(* The opcode of an item whose type alone decides it.                      *)
OpcodeOfType ==
  [nop |-> "NOP", halt |-> "HALT", dynlib |-> "DYNLIB", br |-> "BR", br_cond |-> "BRC",
   merge |-> "MERGE", inspect |-> "INSPECT", ret |-> "RET", make_function |-> "LOAD_FUNCTION",
   new |-> "NEW", this |-> "THIS", declvar |-> "DECLVAR", store |-> "STORE", load |-> "LOAD",
   load_undefined |-> "LOAD_UNDEFINED", load_null |-> "LOAD_NULL", load_string |-> "LOAD_STRING",
   load_object |-> "LOAD_OBJECT", load_array |-> "LOAD_ARRAY",
   object_get |-> "OBJGET", object_set |-> "OBJSET", array_push |-> "ARRPUSH",
   binary_add |-> "BINADD", binary_sub |-> "BINSUB", binary_mul |-> "BINMUL",
   binary_div |-> "BINDIV", binary_mod |-> "BINMOD", binary_e2 |-> "BINE2", binary_ne2 |-> "BINNE2",
   binary_e3 |-> "BINE3", binary_ne3 |-> "BINNE3", binary_l |-> "BINL", binary_le |-> "BINLE",
   binary_g |-> "BING", binary_ge |-> "BINGE", binary_and |-> "BINAND", binary_or |-> "BINOR",
   unary_add |-> "UNADD", unary_sub |-> "UNSUB", unary_not |-> "UNNOT", unary_bnot |-> "UNBNOT"]

OpcodeOfItem(item) ==
  CASE item.type = "call" -> (IF item.bound THEN "CALLT" ELSE "CALL")
    [] item.type = "load_bool" -> (IF item.value THEN "LOAD_TRUE" ELSE "LOAD_FALSE")
    [] item.type = "load_number" ->
         [S8 |-> "LOAD_NUMBER_S8", S16 |-> "LOAD_NUMBER_S16",
          S32 |-> "LOAD_NUMBER_S32", F64 |-> "LOAD_NUMBER_F64"][LiteralForm(item)]
    [] OTHER -> OpcodeOfType[item.type]

Arguments(func, item) ==
  [argc |-> Len(item.arguments), argv |-> [i \in DOMAIN item.arguments |-> func.reg[item.arguments[i]]]]

(* What the handlers xjs_c4_tsa_hdlr_* put into an instruction.            *)
Operands(p, n, item) ==
  LET func == p.functions[n]
      regs == IF item.type = "call"
              THEN Regs(func, item, {"dst", "callee"} \cup (IF item.bound THEN {"this"} ELSE {}))
              ELSE Regs(func, item, RegOperands[item.type])
  IN  CASE item.type \in {"br", "br_cond"} -> [dest |-> LabelOffset(p, n, item.dest)] @@ regs
        [] item.type = "make_function" -> [offset |-> FunctionOffset(p, item.func)] @@ regs
        [] item.type \in {"declvar", "load", "store", "load_string"} ->
             [offset |-> DataOffset(p, item.data)] @@ regs
        [] item.type = "load_number" -> [value |-> item.value] @@ regs
        [] item.type \in {"call", "new"} -> Arguments(func, item) @@ regs
        [] OTHER -> regs

Nowhere == <<-1, -1, -1, -1, -1, -1>>
Instruction(opcode, operand, offset, loc) ==
  [opcode |-> opcode, operand |-> operand, offset |-> offset, loc |-> loc]

Boilerplate(p, n) ==
  LET func == p.functions[n]
      args == [i \in DOMAIN func.params |->
                 Instruction("ARG", [offset |-> DataOffset(p, func.params[i]), idx |-> i - 1],
                   FunctionOffset(p, n) + ParameterSize * (i - 1), Nowhere)]
      regs == Instruction("ALLOCREG", [cnt |-> func.need],
                FunctionOffset(p, n) + ParameterSize * Len(func.params), Nowhere)
  IN  Append(args, regs)

(* xjs_c4_text_section_annotate; a label and an alloca make none.          *)
Annotated(p, n) ==
  LET items == p.functions[n].items
      Made(k) == IF items[k].type \in {"label", "alloca"} THEN <<>>
                 ELSE <<Instruction(OpcodeOfItem(items[k]), Operands(p, n, items[k]),
                                    ItemOffset(p, n, k), items[k].loc)>>
  IN  Boilerplate(p, n) \o FlattenSeq([k \in DOMAIN items |-> Made(k)])

(* A handler that fails; a size of -1.                                     *)
Refused(item) ==
  \/ item.type \in Unsupported
  \/ item.type \in {"call", "new"} /\ Len(item.arguments) > ArgcMax
Compilable(p) == \A n \in DOMAIN p.functions : \A k \in DOMAIN p.functions[n].items : ~Refused(p.functions[n].items[k])

(***************************************************************************)
(* Bytes.                                                                  *)
(***************************************************************************)
(* text_item_instrument_write: the operands in their order.                *)
Reg(name) == <<name, "u8">>
RegsLayout(names) == [i \in DOMAIN names |-> Reg(names[i])]

Layout ==
  [op \in {"NOP", "HALT"} |-> <<>>]
  @@ [op \in {"INSPECT", "RET", "LOAD_UNDEFINED", "LOAD_NULL", "LOAD_FALSE", "LOAD_TRUE",
              "LOAD_OBJECT", "LOAD_ARRAY"} |-> RegsLayout(<<"reg">>)]
  @@ [op \in {"LOAD", "STORE", "LOAD_STRING"} |-> <<Reg("reg"), <<"offset", "s32">>>>]
  @@ [op \in {OpcodeOfType[t] : t \in Binary} |-> RegsLayout(<<"dst", "lhs", "rhs">>)]
  @@ [op \in {OpcodeOfType[t] : t \in Unary} |-> RegsLayout(<<"dst", "src">>)]
  @@ [op \in {"NEW"} |-> <<Reg("dst"), Reg("callee"), <<"argc", "u8">>, <<"argv", "regs">>>>]
  @@ [DYNLIB |-> RegsLayout(<<"exports", "module_name">>),
      ALLOCREG |-> <<<<"cnt", "u8">>>>,
      ARG |-> <<<<"offset", "u32">>, <<"idx", "u8">>>>,
      BR |-> <<<<"dest", "u32">>>>, BRC |-> <<Reg("cond"), <<"dest", "u32">>>>,
      MERGE |-> RegsLayout(<<"dst", "test", "consequent", "alternate">>),
      THIS |-> RegsLayout(<<"dst">>),
      CALL |-> <<Reg("dst"), Reg("callee"), <<"argc", "u8">>, <<"argv", "regs">>>>,
      CALLT |-> <<Reg("dst"), Reg("callee"), Reg("this"), <<"argc", "u8">>, <<"argv", "regs">>>>,
      DECLVAR |-> <<<<"offset", "s32">>>>,
      OBJSET |-> RegsLayout(<<"dst", "obj", "member", "src">>),
      OBJGET |-> RegsLayout(<<"dst", "obj", "member">>),
      ARRPUSH |-> RegsLayout(<<"arr", "elem">>),
      LOAD_NUMBER_S8 |-> <<Reg("reg"), <<"value", "s8">>>>,
      LOAD_NUMBER_S16 |-> <<Reg("reg"), <<"value", "s16">>>>,
      LOAD_NUMBER_S32 |-> <<Reg("reg"), <<"value", "s32">>>>,
      LOAD_NUMBER_F64 |-> <<Reg("reg"), <<"value", "f64">>>>,
      LOAD_FUNCTION |-> <<Reg("reg"), <<"offset", "u32">>>>]

Field(kind, v) ==
  CASE kind \in {"u8", "s8"} -> U8(v)
    [] kind = "s16" -> U16(v)
    [] kind \in {"u32", "s32"} -> U32(v)
    [] kind = "f64" -> F64(v)
    [] kind = "regs" -> FlattenSeq([i \in DOMAIN v |-> U8(v[i])])

Written(i) ==
  LET fields == Layout[i.opcode]
  IN  U8(Opcode[i.opcode]) \o FlattenSeq([k \in DOMAIN fields |-> Field(fields[k][2], i.operand[fields[k][1]])])

(* xjs_c4_write_text                                                       *)
TextSection(annotated) ==
  LET instructions == FlattenSeq(annotated)
  IN  Signature.text \o FlattenSeq([k \in DOMAIN instructions |-> Written(instructions[k])])

(* xjs_c4_write_data                                                       *)
DataItem(d) ==
  U16(IF d.symbol THEN TypeUtf8Sym ELSE TypeUtf8Str) \o U32(Len(d.body)) \o d.body \o U8(0)

DataSection(p) == Signature.data \o FlattenSeq([i \in DOMAIN p.data |-> DataItem(p.data[i])])

(* xjs_c4_write_attr                                                       *)
AttrSection(p) ==
  Signature.attr \o U32(1) \o U32(0) \o U16(TypeToplevel) \o U32(FunctionOffset(p, p.top))

(* xjs_c4_write_export, xjs_c4_write_import                                *)
TableSection(signature, rows) ==
  signature \o U32(Len(rows)) \o FlattenSeq([i \in DOMAIN rows |-> FlattenSeq([j \in DOMAIN rows[i] |-> U32(rows[i][j])])])

(* xjs_c4_write_dbg0: where each instruction comes from, and for each      *)
(* address the place of that.                                              *)
FileName == <<97>>
Origin(i) ==
  (IF i.loc = Nowhere THEN U32(0) \o U8(0) ELSE U32(Len(FileName)) \o FileName \o U8(0))
  \o FlattenSeq([j \in 1 .. 6 |-> U32(i.loc[j])])

(* A slip: the NUL behind the name is forgotten.                           *)
OriginPlaceBare(all, k) == Total([j \in 1 .. k - 1 |-> Len(Origin(all[j])) - 1])

OriginPlace(all, k) == Total([j \in 1 .. k - 1 |-> Len(Origin(all[j]))])

DebugSections(annotated) ==
  LET all == FlattenSeq(annotated)
  IN  <<Signature.dbg0 \o FlattenSeq([k \in DOMAIN all |-> Origin(all[k])]),
        Signature.dbi0 \o FlattenSeq([k \in DOMAIN all |-> U32(all[k].offset) \o U32(OriginPlace(all, k))])>>

(* xjs_c4_write_index: offset and size of each section that has bytes.     *)
IndexSection(sections) ==
  LET Before(k) == Total([j \in 1 .. k - 1 |-> Len(sections[j])])
  IN  U32(Len(sections)) \o FlattenSeq([k \in DOMAIN sections |-> U32(Before(k)) \o U32(Len(sections[k]))])

(* A slip: the code is written last.                                       *)
AssembledCodeLast(p, annotated) ==
  LET sections == <<DataSection(p), AttrSection(p), TableSection(Signature.expt, p.exports),
                    TableSection(Signature.impt, p.imports)>>
                  \o (IF p.debug THEN DebugSections(annotated) ELSE <<>>) \o <<TextSection(annotated)>>
  IN  Header \o IndexSection(sections) \o FlattenSeq(sections)

(* xjs_c4_start_ex                                                         *)
Assembled(p, annotated) ==
  LET sections == <<DataSection(p), TextSection(annotated), AttrSection(p),
                    TableSection(Signature.expt, p.exports), TableSection(Signature.impt, p.imports)>>
                  \o (IF p.debug THEN DebugSections(annotated) ELSE <<>>)
  IN  Header \o IndexSection(sections) \o FlattenSeq(sections)
================================================================================
