--------------------------------- MODULE XFile ---------------------------------
(***************************************************************************)
(* The x-file: bytes, numbers of several bytes, signatures and opcodes;    *)
(* the loader of the virtual machine (rts/src/xjr_x.c) and the reader of   *)
(* the debug sections (xjr/main/main.c).                                   *)
(*                                                                         *)
(* The compiler and the virtual machine each have a header of their own    *)
(* with the same numbers (compiler/src/xjs_xformat.h,                      *)
(* rts/src/xjr_xformat.h).  A file is a sequence of bytes; every offset in *)
(* it is where its first byte is, counted from zero; a section that a file *)
(* does not have is at 0.                                                  *)
(***************************************************************************)
EXTENDS Integers, Sequences, SequencesExt, FiniteSetsExt, TLC

Byte == 0 .. 255

(* xjs_bitwriter_write_u8 and the like: n bytes, the least significant one *)
(* first; of a negative number those of its two's complement.              *)
Le(v, n) == [i \in 1 .. n |-> (v \div 256 ^ (i - 1)) % 256]

U8(v) == Le(v, 1)
U16(v) == Le(v, 2)
U32(v) == Le(v, 4)

(* Eight bytes that the model does not look into.                          *)
F64(v) == <<v, 0, 0, 0, 0, 0, 0, 0>>

(* xjr_xfile_read_u8 and the like, where the bytes are there.              *)
Readable(f, offset, n) == offset + n <= Len(f)

(* What lies behind the end of a file is not the file's: zeros here.       *)
ByteAt(f, offset) == IF offset < Len(f) THEN f[offset + 1] ELSE 0

Unsigned(f, offset, n) ==
  LET from[i \in 0 .. n] == IF i = n THEN 0 ELSE ByteAt(f, offset + i) + 256 * from[i + 1]
  IN  from[0]

Signed(f, offset, n) ==
  LET top == ByteAt(f, offset + n - 1)
      low == IF n = 1 THEN 0 ELSE Unsigned(f, offset, n - 1)
  IN  (IF top < 128 THEN top ELSE top - 256) * 256 ^ (n - 1) + low

----------------------------------------------------------------------------
Numbered(first, names) == [n \in Range(names) |-> first + (CHOOSE i \in DOMAIN names : names[i] = n) - 1]

Opcode ==
  Numbered(0, <<"NOP", "HALT", "DEBUG", "INSPECT", "DYNLIB">>)
  @@ Numbered(16, <<"BR", "BRC", "MERGE", "RET", "CALL", "CALLT", "NEW", "THIS",
       "ALLOCREG", "ARG", "DECLVAR", "LOAD", "STORE",
       "LOAD_UNDEFINED", "LOAD_NULL", "LOAD_FALSE", "LOAD_TRUE",
       "LOAD_STRING", "LOAD_STRING_EMPTY",
       "LOAD_NUMBER_S8", "LOAD_NUMBER_S16", "LOAD_NUMBER_S32",
       "LOAD_NUMBER_U8", "LOAD_NUMBER_U16", "LOAD_NUMBER_U32",
       "LOAD_NUMBER_F32", "LOAD_NUMBER_F64",
       "LOAD_FUNCTION", "LOAD_ARROWFUNCTION", "LOAD_OBJECT", "LOAD_ARRAY">>)
  @@ Numbered(48, <<"BINADD", "BINSUB", "BINMUL", "BINDIV", "BINMOD",
       "BINE2", "BINNE2", "BINE3", "BINNE3",
       "BINL", "BINLE", "BING", "BINGE", "BINAND", "BINOR">>)
  @@ Numbered(64, <<"UNADD", "UNSUB", "UNNOT", "UNBNOT">>)
  @@ Numbered(80, <<"OBJSET", "OBJGET", "ARRPUSH">>)

OpcodeOf(byte) ==
  IF byte \in Range(Opcode) THEN CHOOSE n \in DOMAIN Opcode : Opcode[n] = byte ELSE "invalid"

SizeOpcode == 1
SizeReg == 1
SizeAddr == 4
SizeFunctionId == 4
ArgcMax == 16

(* XJS_BC_SIGNATURE, the platform and the version of the SDK.              *)
Header == <<120, 106, 115, 0>> \o U16(1) \o U16(1)
SizeHeader == 8
SizeOffsetCount == 4

TypeToplevel == 1
TypeUtf8Str == 1
TypeUtf8Sym == 2

(* The four letters at the beginning of a section.                         *)
Signature == [data |-> <<100, 97, 116, 97>>, text |-> <<116, 101, 120, 116>>,
              attr |-> <<97, 116, 116, 114>>, expt |-> <<101, 120, 112, 116>>,
              impt |-> <<105, 109, 112, 116>>, dbg0 |-> <<100, 98, 103, 48>>,
              dbi0 |-> <<100, 98, 105, 48>>]

----------------------------------------------------------------------------
Bytes(f, offset, n) == [i \in 1 .. n |-> ByteAt(f, offset + i - 1)]
SizeEntry == SizeAddr + SizeAddr

(* xjr_verify_signature, xjr_verify_platform, xjr_verify_sdk_version       *)
Verified(f) == Readable(f, 0, SizeHeader) /\ Bytes(f, 0, SizeHeader) = Header

----------------------------------------------------------------------------
(* The index of the sections.                                              *)
SectionsCount(f) == Unsigned(f, SizeHeader, 4)
EntryAt(i) == SizeHeader + SizeOffsetCount + SizeEntry * i
SectionAt(f, i) == EntryAt(SectionsCount(f)) + Unsigned(f, EntryAt(i), 4)

Indexed(f) ==
  /\ Readable(f, SizeHeader, 4)
  /\ \A i \in 0 .. SectionsCount(f) - 1 :
       /\ Readable(f, EntryAt(i), 4) /\ Readable(f, EntryAt(i) + SizeAddr, 4)
       /\ Readable(f, SectionAt(f, i), 4)

(* Of two sections of one type the later one counts; others are skipped.   *)
Sections(f) ==
  [name \in DOMAIN Signature |->
     LET at == {i \in 0 .. SectionsCount(f) - 1 : Bytes(f, SectionAt(f, i), 4) = Signature[name]}
     IN  IF at = {} THEN 0 ELSE SectionAt(f, Max(at))]

----------------------------------------------------------------------------
(* The attributes: the address of the function that runs first.            *)
AttrsCount(f, attr) == Unsigned(f, attr + 4, 4)
AttrEntryAt(attr, i) == attr + 4 + SizeOffsetCount + SizeAddr * i
AttrAt(f, attr, i) == AttrEntryAt(attr, AttrsCount(f, attr)) + Unsigned(f, AttrEntryAt(attr, i), 4)
IsToplevel(f, attr, i) == Unsigned(f, AttrAt(f, attr, i), 2) = TypeToplevel

Attributed(f, attr) ==
  /\ Readable(f, attr + 4, 4)
  /\ \A i \in 0 .. AttrsCount(f, attr) - 1 :
       /\ Readable(f, AttrEntryAt(attr, i), 4) /\ Readable(f, AttrAt(f, attr, i), 2)
       /\ IsToplevel(f, attr, i) => Readable(f, AttrAt(f, attr, i) + 2, 4)

InitPc(f, attr) ==
  LET tops == {i \in 0 .. AttrsCount(f, attr) - 1 : IsToplevel(f, attr, i)}
  IN  IF tops = {} THEN 0 ELSE Unsigned(f, AttrAt(f, attr, Max(tops)) + 2, 4)

(* xjr_xfile_load                                                          *)
Loads(f) == Verified(f) /\ Indexed(f) /\ Attributed(f, Sections(f).attr)

----------------------------------------------------------------------------
(* xjr_xfile_read_datasec_item: the body of a string or symbol, if it is   *)
(* there and of that type.                                                 *)
NoBody == <<-1>>
DataBody(f, sections, offset, type) ==
  LET item == sections.data + 4 + offset
      len == Unsigned(f, item + 2, 4)
  IN  IF /\ Readable(f, item, 2) /\ Unsigned(f, item, 2) = type
         /\ Readable(f, item + 2, 4) /\ Readable(f, item + 6, len)
      THEN Bytes(f, item + 6, len)
      ELSE NoBody

(* dbg_info_load: where the instruction at pc comes from.  The search ends *)
(* when it meets pc; without pc in the table it would read on behind the   *)
(* file.                                                                   *)
Unlocated == [name |-> <<>>, loc |-> <<>>]
DebugInfo(f, sections, pc) ==
  LET entry(i) == sections.dbi0 + 4 + 8 * i
      found == {i \in 0 .. (Len(f) - sections.dbi0) \div 8 :
                  Readable(f, entry(i), 8) /\ Unsigned(f, entry(i), 4) = pc}
      origin == sections.dbg0 + 4 + Unsigned(f, entry(Min(found)) + 4, 4)
      len == Unsigned(f, origin, 4)
  IN  IF sections.dbi0 = 0 \/ sections.dbg0 = 0 \/ found = {} THEN Unlocated
      ELSE IF len = 0 THEN Unlocated
      ELSE [name |-> Bytes(f, origin + 4, len),
            loc |-> [j \in 1 .. 6 |-> Signed(f, origin + 4 + len + 1 + 4 * (j - 1), 4)]]
================================================================================
