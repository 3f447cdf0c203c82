---------------------------------- MODULE Code ----------------------------------
(***************************************************************************)
(* From IR to a run: C4 writes a file, the file may lose its end on the    *)
(* way, the virtual machine loads it and executes the function it names    *)
(* as the first, instruction by instruction.                               *)
(*                                                                         *)
(* The machine is executed up to its end or up to the first instruction    *)
(* of another module of this model.                                        *)
(***************************************************************************)
EXTENDS Assemble, Machine

CONSTANT Programs        \* what C2 hands over
VARIABLES prog,          \* the program
          file,          \* the x-file
          cut,           \* the file lost its end
          phase,         \* "source", "refused", "file", "unloadable", "run"
          sections,      \* where the loader found them
          m              \* the virtual machine

vars == <<prog, file, cut, phase, sections, m>>

NoSections == [name \in DOMAIN Signature |-> 0]

Init ==
  /\ prog \in Programs
  /\ file = <<>> /\ cut = FALSE /\ phase = "source"
  /\ sections = NoSections /\ m = Started(0)

(* xjs_c4_start: all functions are annotated before anything is written.   *)
Assemble ==
  /\ phase = "source"
  /\ IF Compilable(prog)
     THEN /\ phase' = "file"
          /\ file' = Assembled(prog, [n \in DOMAIN prog.functions |-> Annotated(prog, n)])
     ELSE phase' = "refused" /\ UNCHANGED file
  /\ UNCHANGED <<prog, cut, sections, m>>

(* The file on disk was not written to its end; read_file of xjr takes it  *)
(* as it is.                                                               *)
Cut ==
  /\ phase = "file" /\ prog.cuttable /\ ~cut
  /\ \E n \in 0 .. Len(file) - 1 : file' = SubSeq(file, 1, n)
  /\ cut' = TRUE
  /\ UNCHANGED <<prog, phase, sections, m>>

(* xjr_xfile_load, and the pc of xjr_vm_load.                              *)
Load ==
  /\ phase = "file"
  /\ IF Loads(file)
     THEN /\ phase' = "run" /\ sections' = Sections(file)
          /\ m' = Started(InitPc(file, Sections(file).attr))
     ELSE phase' = "unloadable" /\ UNCHANGED <<sections, m>>
  /\ UNCHANGED <<prog, file, cut>>

Step ==
  /\ phase = "run" /\ m.status = "running"
  /\ m' = Stepped(file, sections, m)
  /\ UNCHANGED <<prog, file, cut, phase, sections>>

Next == Assemble \/ Cut \/ Load \/ Step

Spec == Init /\ [][Next]_vars

----------------------------------------------------------------------------
(* The instructions of a program in their order, each with what it is for, *)
(* and what a reader who knows only the machine finds in the text section. *)
IsCode(item) == item.type \notin {"label", "alloca"}
Codes(p) ==
  FlattenSeq([n \in DOMAIN p.functions |->
    LET func == p.functions[n]
    IN  [i \in DOMAIN func.params |-> [func |-> n, kind |-> "parameter", k |-> i]]
        \o <<[func |-> n, kind |-> "registers", k |-> 0]>>
        \o SelectSeq([k \in DOMAIN func.items |-> [func |-> n, kind |-> "item", k |-> k]],
                     LAMBDA c : IsCode(func.items[c.k]))])

Listing(f, text, count) ==
  LET Read(l, j) ==
        Append(l, Fetched(f, text, IF l = <<>> THEN 0 ELSE l[Len(l)].next))
  IN  FoldLeft(Read, <<>>, [j \in 1 .. count |-> j])

(* Where in the listing function n begins, and where label l of it is.     *)
FunctionPlace(codes, n) == Min({j \in DOMAIN codes : codes[j].func = n})
LabelPlace(p, codes, n, l) ==
  LET items == p.functions[n].items
      at == CHOOSE k \in DOMAIN items : items[k].type = "label" /\ items[k].to = l
  IN  Min({j \in DOMAIN codes : codes[j].func = n /\ codes[j].kind = "item" /\ codes[j].k > at})

DataIs(p, f, sects, offset, id) ==
  LET d == CHOOSE x \in Range(p.data) : x.id = id
  IN  DataBody(f, sects, offset, IF d.symbol THEN TypeUtf8Sym ELSE TypeUtf8Str) = d.body

RegistersMeant(func, item, operand) ==
  \A o \in DOMAIN operand \cap DOMAIN item :
    o \notin {"value", "dest", "pc"} => operand[o] = func.reg[item[o]]

(* One instruction of the listing is what the item asks for.               *)
ItemMeant(p, f, sects, codes, listing, j) ==
  LET func == p.functions[codes[j].func]
      item == func.items[codes[j].k]
      d == listing[j]
  IN  /\ d.opcode = OpcodeOfItem(item)
      /\ RegistersMeant(func, item, d.operand)
      /\ item.type = "load_number" => d.operand.value = item.value
      /\ item.type \in {"br", "br_cond"} =>
           d.operand.dest = listing[LabelPlace(p, codes, codes[j].func, item.dest)].operand.pc
      /\ item.type = "make_function" =>
           d.operand.offset = listing[FunctionPlace(codes, item.func)].operand.pc
      /\ item.type \in {"declvar", "load", "store", "load_string"} =>
           DataIs(p, f, sects, d.operand.offset, item.data)
      /\ item.type \in {"call", "new"} =>
           d.operand.argv = [i \in DOMAIN item.arguments |-> func.reg[item.arguments[i]]]

CodeMeant(p, f, sects, codes, listing, j) ==
  LET func == p.functions[codes[j].func]
      d == listing[j]
  IN  /\ d.ok
      /\ codes[j].kind = "parameter" =>
           /\ d.opcode = "ARG" /\ d.operand.idx = codes[j].k - 1
           /\ DataIs(p, f, sects, d.operand.offset, func.params[codes[j].k])
      /\ codes[j].kind = "registers" => d.opcode = "ALLOCREG" /\ d.operand.cnt = func.need
      /\ codes[j].kind = "item" => ItemMeant(p, f, sects, codes, listing, j)

----------------------------------------------------------------------------
(* The phases follow each other, and the machine stays a machine.          *)
TypeOK ==
  /\ phase \in {"source", "refused", "file", "unloadable", "run"}
  /\ phase \in {"source", "refused"} <=> file = <<>> /\ ~cut
  /\ m.pc \in 0 .. Len(file)
  /\ \A r \in DOMAIN m.regs : m.regs[r].tag \in 0 .. 7 /\ m.regs[r].body \in 0 .. Body - 1
  /\ \A r \in DOMAIN m.regs : m.regs[r].tag \in {String, Function, Object, ArrayTag} => m.regs[r].body \in DOMAIN m.heap
  /\ m.status \in {"running", "halted", "failed", "undefined", "elsewhere"}

(* The four tables of instructions agree: sizes and addresses              *)
(* (xjs_c4_textsec_inst.c), bytes (xjs_c4_textsec.c) and what the machine  *)
(* fetches (xjr_vm.c).  Read from its first byte to its last, the text is  *)
(* the program: every operand is the register, the literal, the code or    *)
(* the string that the item names, and the file starts where it should.    *)
FetchExact ==
  phase = "file" /\ ~cut =>
    LET sects == Sections(file)
        codes == Codes(prog)
        listing == Listing(file, sects.text, Len(codes))
    IN  /\ Loads(file)
        /\ \A j \in DOMAIN codes : CodeMeant(prog, file, sects, codes, listing, j)
        /\ sects.text + 4 + listing[Len(codes)].next = sects.attr
        /\ InitPc(file, sects.attr) = listing[FunctionPlace(codes, prog.top)].operand.pc

(* A crash is reported at the line of the instruction that crashed: the    *)
(* search in the debug sections finds for every address what the compiler  *)
(* noted, and nothing for code that has no line.                           *)
Located ==
  phase = "file" /\ ~cut /\ prog.debug =>
    LET sects == Sections(file)
        codes == Codes(prog)
        listing == Listing(file, sects.text, Len(codes))
        Line(c) == IF c.kind = "item" THEN prog.functions[c.func].items[c.k].loc ELSE Nowhere
    IN  \A j \in DOMAIN codes :
          DebugInfo(file, sects, listing[j].operand.pc) =
            IF Line(codes[j]) = Nowhere THEN Unlocated
            ELSE [name |-> FileName, loc |-> Line(codes[j])]

(* The bytes of a file say what the compiler was given, code and places.   *)
FileMeant == FetchExact /\ Located

(* A file that lost its end is not loaded, or it has lost nothing that the *)
(* machine needs: the strings and the code are all there.                  *)
NoHalfCode ==
  phase = "run" =>
    /\ sections.text > 0 /\ sections.data > 0
    /\ Readable(file, sections.data, Len(DataSection(prog)))
    /\ sections.text + 4 + FunctionOffset(prog, Len(prog.functions) + 1) <= Len(file)

(* The machine is at the beginning of an instruction of the function that  *)
(* it runs, never within one or behind the code.                           *)
AtInstruction ==
  phase = "run" /\ m.status = "running" =>
    \E i \in Range(Annotated(prog, prog.top)) : i.offset = m.pc

(* Whatever the length of the file is, the machine runs whole code only.   *)
LoadedSound == TypeOK /\ NoHalfCode /\ AtInstruction

----------------------------------------------------------------------------
(* What the items mean.  Variables of the function that runs have          *)
(* registers of their own here (RegAlloc is about sharing them).           *)
Top == prog.functions[prog.top]

Value(w) ==
  CASE IsInteger(w) -> [type |-> "integer", is |-> Untag(w)]
    [] w \in {False, True} -> [type |-> "boolean", is |-> w = True]
    [] w = UndefinedWord -> [type |-> "nullish", is |-> "undefined"]
    [] w = NullWord -> [type |-> "nullish", is |-> "null"]
    [] w.tag = ReservedVal /\ w.body > 3 -> [type |-> "none", is |-> w.body]
    [] w.tag = Float -> [type |-> "float", is |-> "float"]
    [] w.tag = String -> [type |-> "string", is |-> m.heap[w.body]]
    [] w.tag = Function ->
         [type |-> "function",
          is |-> CHOOSE n \in DOMAIN prog.functions : FunctionOffset(prog, n) = m.heap[w.body]]
    [] w.tag = Object -> [type |-> "object", is |-> w.body]
    [] w.tag = ArrayTag -> [type |-> "array", is |-> w.body]

ItemAt(pc) ==
  LET here == {k \in DOMAIN Top.items : IsCode(Top.items[k]) /\ ItemOffset(prog, prog.top, k) = pc}
      first == Min({k \in DOMAIN Top.items : IsCode(Top.items[k])})
  IN  IF here # {} THEN Min(here)
      ELSE IF phase # "run" \/ pc < ItemOffset(prog, prog.top, 1) THEN first ELSE 0

Ir == INSTANCE IrMachine WITH
        MaxInteger <- Body - 1,
        items <- Top.items,
        strings <- [id \in {d.id : d \in Range(prog.data)} |->
                      (CHOOSE d \in Range(prog.data) : d.id = id).body],
        at <- ItemAt(m.pc),
        val <- [x \in DOMAIN Top.reg |-> Value(Get(m, Top.reg[x]))],
        shown <- [i \in DOMAIN m.shown |-> Value(m.shown[i])],
        ended <- m.status

(* What the machine does with the file is what the items mean, with        *)
(* integers of any size where the promise holds.                           *)
RunsAsMeant == Ir!Spec
================================================================================
