-------------------------------- MODULE Compile -------------------------------
(***************************************************************************)
(* A program is compiled: C0 turns its syntax into graphs, C2 lays one of  *)
(* its functions out, and the code that comes out runs side by side with   *)
(* the source (Meaning).  The two step together whenever the program sees  *)
(* something: each value that is computed, each name that is stored, each  *)
(* decision, and the end.                                                  *)
(***************************************************************************)
EXTENDS C0, Layout, Meaning

CONSTANT Programs   \* the syntax trees of programs

VARIABLES
  source,    \* the function in the source
  todo,      \* what the source has still to do
  declared,  \* the names that the code has declared so far
  taken,     \* what the last branch decided
  holds      \* the value that each variable of the code holds, by its name

sourceVars == <<source, todo, declared, taken, holds>>
vars == <<layoutVars, sourceVars>>

Compiled == {g \in {Program(p) : p \in Programs} : ~g.failed}
Graph(g, f) == [body |-> f.body, blocks |-> g.blocks]
AllGraphs == UNION {{Graph(g, f) : f \in Range(g.functions)} : g \in Compiled}

Init ==
  \E g \in Compiled : \E f \in Range(g.functions) :
    /\ Begin(Graph(g, f))
    /\ source = f.source
    /\ todo = <<f.source>>
    /\ declared = {}
    /\ taken = FALSE
    /\ holds = <<>>

RunningItem == ItemAt(func, text[pc].from)

(* An item that writes a variable puts the value it computes there; a set  *)
(* puts its object there (xjr_vm_objset).                                  *)
Held(v) == IF v \in DOMAIN holds THEN holds[v] ELSE "nothing"
Hold ==
  LET i == text[pc]
      value == IF i.op = "object_set" THEN Held(i.srcs[1]) ELSE i.of
  IN  holds' = IF i.op = "alloca" THEN holds
               ELSE [v \in DOMAIN holds \cup i.dst |-> IF v \in i.dst THEN value ELSE Held(v)]

Build == LayOut /\ UNCHANGED sourceVars

(* The source goes on until there is something to see; so does the code.   *)
SourceSilent ==
  /\ phase = "run" /\ IsSilent(todo)
  /\ todo' = Expanded(todo)
  /\ UNCHANGED <<layoutVars, source, declared, taken, holds>>

TextSilent ==
  /\ ~IsSilent(todo)
  /\ RunSilent /\ Hold
  /\ declared' = IF text[pc].op = "declvar" THEN declared \cup {RunningItem.name} ELSE declared
  /\ UNCHANGED <<source, todo, taken>>

Both ==
  /\ todo # <<>> /\ Head(todo).op = "event"
  /\ RunVisible(Head(todo).of) /\ Hold
  /\ todo' = AfterEvent(todo)
  /\ UNCHANGED <<source, declared, taken>>

BothDecide ==
  /\ todo # <<>> /\ Head(todo).op = "choice"
  /\ \E yes \in BOOLEAN :
       RunBranch(yes) /\ taken' = yes /\ todo' = AfterChoice(todo, yes)
  /\ UNCHANGED <<source, declared, holds>>

Next == Build \/ SourceSilent \/ TextSilent \/ Both \/ BothDecide

Spec == Init /\ [][Next]_vars
FairSpec == Spec /\ WF_vars(Next)

(***************************************************************************)
(* Type.                                                                   *)
(***************************************************************************)
(* Every variable keeps its type: the layout is made of blocks of the      *)
(* graph, a label stands for one of them, and the code that runs is at one *)
(* of its items.                                                           *)
TypeOK ==
  /\ phase \in {"anchors", "fill", "count", "merge", "write", "rename", "run", "ended"}
  /\ \A n \in Range(stack) \cup visited :
       n[1] \in DOMAIN func.blocks /\ (IsBlock(n) \/ n[2] \in DOMAIN func.blocks[n[1]])
  /\ anchors \subseteq DOMAIN func.blocks
  /\ \A k \in DOMAIN layout : layout[k].node \in DOMAIN func.blocks /\ layout[k].counter \in Nat
  /\ Range(labels) \subseteq DOMAIN func.blocks
  /\ \A j \in DOMAIN text : text[j].to \in Nat /\ Mentions(text[j]) \subseteq Nat
  /\ phase = "run" => pc \in DOMAIN text
  /\ taken \in BOOLEAN

(***************************************************************************)
(* The layout.                                                             *)
(***************************************************************************)
LaidOut == phase \notin {"anchors", "fill"}

(* When the blocks have been laid out each one that the function can reach *)
(* is there once, no other is, and the function begins with its body       *)
(* (xjs_c2_fill).                                                          *)
EachBlockOnce ==
  LaidOut =>
    /\ {layout[k].node : k \in DOMAIN layout} = Reachable(func)
    /\ \A j, k \in DOMAIN layout : layout[j].node = layout[k].node => j = k
    /\ layout[1].node = func.body

(* What the passes look up is there: a block that is jumped to when it is  *)
(* counted, the last item of a block and a count that is not used up when  *)
(* a jump is cancelled, the variables and the labels of an item that is    *)
(* written; the labels that are looked up were recorded in another walk    *)
(* (xjs_c2_merge_inplace_jumps, xjs_c2_gen_ir_single).                     *)
EverythingFound ==
  /\ LaidOut => \A k \in DOMAIN layout :
       UNION {Range(i.to) : i \in Range(Items(k))} \subseteq {layout[j].node : j \in DOMAIN layout}
  /\ phase = "merge" /\ at + 1 \in DOMAIN layout =>
       Items(at) # <<>> /\ (FallsInto(at) => layout[at + 1].counter > 0)
  /\ Writing /\ item \in DOMAIN Items(at) =>
       /\ Range(ItemVars(Items(at)[item])) \subseteq Range(irvars)
       /\ Range(Items(at)[item].to) \subseteq Range(labels)

Finished == phase \in {"run", "ended"}

(* The code is checked where its run begins; it is not written after that. *)
Ready == phase = "run" /\ pc = 1

(* In the code every branch finds its label, and no label is left that     *)
(* nothing branches to: a label goes with the last jump to it, never       *)
(* before (xjs_c2_merge_inplace_jumps).                                    *)
LabelsMeet ==
  Ready =>
    /\ \A j \in DOMAIN text : IsBranch(text[j]) => \E d \in DOMAIN text : LandsAt(text, j, d)
    /\ \A d \in DOMAIN text : text[d].op = "label" => \E j \in DOMAIN text : LandsAt(text, j, d)

(* The code is what the next stage takes: labels placed once, and the      *)
(* variables numbered without a gap as they are met (xjs_c2_rename).       *)
CodeReady == Ready => WellFormed(text)

(* What the walks of c2 leave behind is a layout and a code that the next  *)
(* pass can take.                                                          *)
LayoutSound == TypeOK /\ EachBlockOnce /\ EverythingFound /\ LabelsMeet /\ CodeReady

(***************************************************************************)
(* The code against the source.                                            *)
(***************************************************************************)
Waits == phase = "run" /\ todo # <<>> /\ ~IsSilent(todo)
TextSees == phase = "run" /\ text[pc].of # "none"

(* Whenever source and code have both come to something that the program   *)
(* sees, it is the same thing, and they end together: the blocks that C0   *)
(* linked, laid out by C2 with the jumps it cancelled, do what the         *)
(* statements say, loops, break and continue within loops included.        *)
Agree ==
  /\ Waits /\ TextSees =>
       IF Head(todo).op = "choice" THEN text[pc].op = "br_cond"
       ELSE text[pc].op # "br_cond" /\ text[pc].of = Head(todo).of
  /\ phase = "ended" => todo = <<>>
  /\ phase = "run" => todo # <<>>

(* What source and code come to works on the same values: in the code each *)
(* operand is read from a variable that holds what was computed for it,    *)
(* on every path, whatever the operands are (xjs_c0_expression, and the    *)
(* numbering of variables in xjs_c2_blklayout_fill and xjs_c2_rename).     *)
OperandsMeant ==
  Waits /\ TextSees =>
    \A k \in DOMAIN Head(todo).uses :
      /\ k \in DOMAIN text[pc].srcs
      /\ Head(todo).uses[k] \in {"any", Held(text[pc].srcs[k])}

(* When the code stores a name that the function declares somewhere with   *)
(* var it has declared it before, however deep in loops and blocks the     *)
(* declaration is (xjs_var_hoist_collect_localvars and its callers).       *)
StoresDeclared ==
  phase = "run" /\ text[pc].op = "store" /\ RunningItem.name \in VarsOf(source)
    => RunningItem.name \in declared

(* What the code works on is what the source names: values in variables    *)
(* and variables under their names.                                        *)
ValuesMeant == OperandsMeant /\ StoresDeclared

(***************************************************************************)
(* Liveness and refinement.                                                *)
(***************************************************************************)
(* The walks over the graph, the merging and the writing come to an end,   *)
(* though the graph may have cycles (xjs_c2_start_ex).                     *)
LayoutEnds == <>Finished

(* When the source waits to do something that the program sees the code    *)
(* comes to it: it does not run in circles through labels and jumps.       *)
CodeKeepsUp == Waits ~> (phase = "ended" \/ (Waits /\ TextSees))

(* Neither the compiler nor its code runs in circles.                      *)
KeepsGoing == LayoutEnds /\ CodeKeepsUp

(* The node of the first item from place p of the code on that the program *)
(* sees.  Nobody passes more silent items than the code has.               *)
Seen(p) ==
  LET IsSilentAt(q) == q \in DOMAIN text /\ text[q].of = "none"
      pass[k \in Nat, q \in Nat] ==
        IF k > 0 /\ IsSilentAt(q) THEN pass[k - 1, CHOOSE r \in Follows(text, q) : TRUE] ELSE q
      end == pass[Len(text), p]
  IN  IF end \in DOMAIN text /\ ~IsSilentAt(end) THEN text[end].from ELSE Nowhere

Seeing ==
  CASE phase = "run" -> Seen(pc)
    [] phase = "ended" -> Nowhere
    [] OTHER -> Ahead(func, <<func.body, 1>>)

W == INSTANCE Walk WITH Graphs <- AllGraphs, next <- Seeing

(* The code does what the graph of the function says, item by item.        *)
KeepsMeaning == W!WalkSpec
===============================================================================
