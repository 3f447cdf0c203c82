-------------------------------- MODULE Layout --------------------------------
(***************************************************************************)
(* C2, the stage of the compiler that lays the blocks of a function out    *)
(* one behind the other and writes the items of its code                   *)
(* (compiler/src/xjs_c2.c, xjs_c2_blklayout.c), and a run of that code.    *)
(*                                                                         *)
(* Three walks over the graph, each with a stack and the set of nodes it   *)
(* has visited, collect the blocks that are jumped to (anchors), lay the   *)
(* blocks out in the order in which they are met, and count how often each *)
(* is jumped to.  Then a jump to the block that comes next is cancelled,   *)
(* and so is the label of that block if nobody else needs it.  The items   *)
(* are written, and variables and labels renamed in the order in which     *)
(* the code mentions them.                                                 *)
(***************************************************************************)
EXTENDS Cfg, Ir, SequencesExt

VARIABLES
  func,      \* the function
  phase,     \* "anchors", "fill", "count", "merge", "write", "rename", "run", "ended"
  stack,     \* the nodes a walk has still to visit, the next one last
  visited,   \* the nodes it has visited
  anchors,   \* the blocks that are jumped to
  layout,    \* the blocks in the order of the code
  labels,    \* the blocks that have a label; it is their place, from zero
  irvars,    \* the variables of the graph that have one of the code
  newvars,   \* the variables of the code in the order in which it mentions them
  newlabels, \* and its labels
  at,        \* the place of the block being merged or written, or of the item renamed
  item,      \* and the item of that block, 0 before the first one
  text,      \* the code
  pc         \* the item of the code that runs next

walkerVars == <<stack, visited>>
renameVars == <<newvars, newlabels>>
layoutVars == <<func, phase, walkerVars, anchors, layout, labels, irvars, renameVars, at, item, text, pc>>

(***************************************************************************)
(* Walks.                                                                  *)
(***************************************************************************)
Top == Last(stack)

Visit(nodes) ==
  /\ visited' = visited \cup {Top}
  /\ stack' = Front(stack) \o nodes

Skip ==
  /\ phase \in {"anchors", "fill", "count"} /\ stack # <<>> /\ Top \in visited
  /\ stack' = Front(stack)
  /\ UNCHANGED <<func, phase, visited, anchors, layout, labels, irvars, at, item, text, pc, renameVars>>

Walking(p) == phase = p /\ stack # <<>> /\ Top \notin visited

Walked(p, q) ==
  /\ phase = p /\ stack = <<>>
  /\ phase' = q
  /\ UNCHANGED <<func, anchors, layout, labels, irvars, at, item, text, pc, renameVars>>

WalkAgain ==
  /\ stack' = <<Body(func)>>
  /\ visited' = {}

(* A slip: the alternative of a branch is no anchor.                       *)
CollectFirst ==
  /\ Walking("anchors") /\ Visit(Children(func, Top))
  /\ anchors' = IF IsBlock(Top) \/ ItemAt(func, Top).to = <<>> THEN anchors
                ELSE anchors \cup {ItemAt(func, Top).to[1]}
  /\ UNCHANGED <<func, phase, layout, labels, irvars, at, item, text, pc, renameVars>>

Collect ==
  /\ Walking("anchors") /\ Visit(Children(func, Top))
  /\ anchors' = IF IsBlock(Top) THEN anchors ELSE anchors \cup Range(ItemAt(func, Top).to)
  /\ UNCHANGED <<func, phase, layout, labels, irvars, at, item, text, pc, renameVars>>

Collected == Walked("anchors", "fill") /\ WalkAgain

(* The block comes next in the layout; if it is jumped to it gets a label. *)
FillBlock ==
  /\ Walking("fill") /\ IsBlock(Top) /\ Visit(Children(func, Top))
  /\ layout' = Append(layout, [node |-> Top[1], enabled |-> Top[1] \in anchors,
                               counter |-> 0, cancel |-> FALSE])
  /\ labels' = IF Top[1] \in anchors THEN Append(labels, Top[1]) ELSE labels
  /\ UNCHANGED <<func, phase, anchors, irvars, at, item, text, pc, renameVars>>

(* The order in which the passes look at the variables of an item; those   *)
(* that are new are put at the end of a list.                              *)
ItemVars(i) == i.srcs \o SetToSeq(i.dst)
Met(list, new) == FoldLeft(LAMBDA l, n : IF n \in Range(l) THEN l ELSE Append(l, n), list, new)

(* A slip: a branch is followed on one side only.                          *)
FirstOf(nodes) == IF nodes = <<>> THEN nodes ELSE <<Head(nodes)>>
FillOneSide ==
  /\ Walking("fill") /\ ~IsBlock(Top) /\ Visit(FirstOf(Children(func, Top)))
  /\ irvars' = IF ItemAt(func, Top).op \in {"branch", "merge", "make_function"} THEN irvars
               ELSE Met(irvars, ItemVars(ItemAt(func, Top)))
  /\ UNCHANGED <<func, phase, anchors, layout, labels, at, item, text, pc, renameVars>>

(* The variables of most items are mapped when the item is met.             *)
(* Of the blocks of a branch the first is visited first.                   *)
FillItem ==
  /\ Walking("fill") /\ ~IsBlock(Top) /\ Visit(Reverse(Children(func, Top)))
  /\ irvars' = IF ItemAt(func, Top).op \in {"branch", "merge", "make_function"} THEN irvars
               ELSE Met(irvars, ItemVars(ItemAt(func, Top)))
  /\ UNCHANGED <<func, phase, anchors, layout, labels, at, item, text, pc, renameVars>>

Filled == Walked("fill", "count") /\ WalkAgain

(* Each time a jump names a block it is counted.                           *)
Count ==
  /\ Walking("count") /\ Visit(Children(func, Top))
  /\ layout' = [k \in DOMAIN layout |->
                 [layout[k] EXCEPT !.counter = @ +
                   IF IsBlock(Top) THEN 0
                   ELSE Cardinality({j \in DOMAIN ItemAt(func, Top).to :
                                      ItemAt(func, Top).to[j] = layout[k].node})]]
  /\ UNCHANGED <<func, phase, anchors, labels, irvars, at, item, text, pc, renameVars>>

Counted == Walked("count", "merge") /\ UNCHANGED walkerVars

(***************************************************************************)
(* Jumps to the next block.                                                *)
(***************************************************************************)
Items(k) == func.blocks[layout[k].node]

(* A slip: the other side of a branch.                                     *)
FallsTrue(k) ==
  LET last == Last(Items(k)) IN
  last.op \in {"jump", "branch"} /\ last.to[1] = layout[k + 1].node

(* The last item of the block goes on to the next one: it jumps there, or  *)
(* that is the second side of its branch.                                  *)
FallsInto(k) ==
  LET last == Last(Items(k)) IN
  last.op \in {"jump", "branch"} /\ Last(last.to) = layout[k + 1].node

(* A slip: the label goes whoever needs it.                                *)
ReleasedAlways(block) == [block EXCEPT !.enabled = FALSE, !.counter = 0]

Released(block) ==
  IF block.counter = 1 THEN [block EXCEPT !.enabled = FALSE, !.counter = 0] ELSE block

(* A slip: the block is looked at again when its jump was cancelled.       *)
MergeStays ==
  /\ phase = "merge" /\ at + 1 \in DOMAIN layout
  /\ IF FallsInto(at)
     THEN /\ layout' = [layout EXCEPT ![at].cancel = TRUE, ![at + 1] = Released(@)]
          /\ UNCHANGED at
     ELSE /\ at' = at + 1
          /\ UNCHANGED layout
  /\ UNCHANGED <<func, phase, walkerVars, anchors, labels, irvars, item, text, pc, renameVars>>

Merge ==
  /\ phase = "merge" /\ at + 1 \in DOMAIN layout
  /\ layout' = IF FallsInto(at)
               THEN [layout EXCEPT ![at].cancel = TRUE, ![at + 1] = Released(@)]
               ELSE layout
  /\ at' = at + 1
  /\ UNCHANGED <<func, phase, walkerVars, anchors, labels, irvars, item, text, pc, renameVars>>

Merged ==
  /\ phase = "merge" /\ at + 1 \notin DOMAIN layout
  /\ phase' = "write" /\ at' = 1 /\ item' = 0
  /\ UNCHANGED <<func, walkerVars, anchors, layout, labels, irvars, text, pc, renameVars>>

(***************************************************************************)
(* The code.  An item of it knows the node it was written for (from).      *)
(***************************************************************************)
IrVar(v) == (CHOOSE k \in DOMAIN irvars : irvars[k] = v) - 1
LabelOf(b) == (CHOOSE k \in DOMAIN labels : labels[k] = b) - 1

Code(op, dst, srcs, to, of, from) ==
  [op |-> op, dst |-> dst, srcs |-> srcs, to |-> to, of |-> of, from |-> from]
Br(b, from) == Code("br", {}, <<>>, LabelOf(b), "none", from)

Written(i, from, cancel) ==
  CASE i.op = "jump" -> IF cancel THEN <<>> ELSE <<Br(i.to[1], from)>>
    [] i.op = "branch" ->
         <<Code("br_cond", {}, <<IrVar(i.srcs[1])>>, LabelOf(i.to[1]), i.of, from)>>
           \o (IF cancel THEN <<>> ELSE <<Br(i.to[2], from)>>)
    [] OTHER -> <<Code(IF i.op = "return" THEN "ret" ELSE i.op, {IrVar(v) : v \in i.dst},
                       [k \in DOMAIN i.srcs |-> IrVar(i.srcs[k])], 0, i.of, from)>>

Writing == phase = "write" /\ at \in DOMAIN layout

WriteLabel ==
  /\ Writing /\ item = 0
  /\ text' = IF layout[at].enabled
             THEN Append(text, Code("label", {}, <<>>, LabelOf(layout[at].node), "none",
                                    <<layout[at].node>>))
             ELSE text
  /\ item' = 1
  /\ UNCHANGED <<func, phase, walkerVars, anchors, layout, labels, irvars, at, pc, renameVars>>

WriteItem ==
  /\ Writing /\ item \in DOMAIN Items(at)
  /\ text' = text \o Written(Items(at)[item], <<layout[at].node, item>>, layout[at].cancel)
  /\ item' = item + 1
  /\ UNCHANGED <<func, phase, walkerVars, anchors, layout, labels, irvars, at, pc, renameVars>>

WriteNext ==
  /\ Writing /\ item > Len(Items(at))
  /\ at' = at + 1 /\ item' = 0
  /\ UNCHANGED <<func, phase, walkerVars, anchors, layout, labels, irvars, text, pc, renameVars>>

WriteEnds ==
  /\ phase = "write" /\ at \notin DOMAIN layout
  /\ phase' = "rename" /\ at' = 1
  /\ UNCHANGED <<func, walkerVars, anchors, layout, labels, irvars, item, text, pc, renameVars>>

(* A first walk over the code notes variables and labels as it meets them; *)
(* a second one gives each its place among them.                           *)
LabelsOf(i) == IF i.op = "label" \/ IsBranch(i) THEN <<i.to>> ELSE <<>>

Remap ==
  /\ phase = "rename" /\ at \in DOMAIN text
  /\ newvars' = Met(newvars, ItemVars(text[at]))
  /\ newlabels' = Met(newlabels, LabelsOf(text[at]))
  /\ at' = at + 1
  /\ UNCHANGED <<func, phase, walkerVars, anchors, layout, labels, irvars, item, text, pc>>

NewVar(v) == (CHOOSE k \in DOMAIN newvars : newvars[k] = v) - 1
NewLabel(i) == IF LabelsOf(i) = <<>> THEN i.to ELSE (CHOOSE k \in DOMAIN newlabels : newlabels[k] = i.to) - 1

(* A slip: the variables keep their numbers.                               *)
RenameLabels ==
  /\ phase = "rename" /\ at \notin DOMAIN text
  /\ text' = [j \in DOMAIN text |-> [text[j] EXCEPT !.to = NewLabel(text[j])]]
  /\ phase' = "run" /\ pc' = 1
  /\ UNCHANGED <<func, walkerVars, anchors, layout, labels, irvars, at, item, renameVars>>

Rename ==
  /\ phase = "rename" /\ at \notin DOMAIN text
  /\ text' = [j \in DOMAIN text |->
       [text[j] EXCEPT
         !.dst = {NewVar(v) : v \in @},
         !.srcs = [k \in DOMAIN @ |-> NewVar(@[k])],
         !.to = NewLabel(text[j])]]
  /\ phase' = "run" /\ pc' = 1
  /\ UNCHANGED <<func, walkerVars, anchors, layout, labels, irvars, at, item, renameVars>>

(***************************************************************************)
(* The run of the code.                                                    *)
(***************************************************************************)
Running == phase = "run" /\ pc \in DOMAIN text
StaysInRun ==
  UNCHANGED <<func, walkerVars, anchors, layout, labels, irvars, at, item, text, renameVars>>

(* An item the program does not see, one it sees, a branch that is taken   *)
(* or not.                                                                 *)
RunSilent ==
  /\ Running /\ text[pc].of = "none"
  /\ pc' \in Follows(text, pc)
  /\ UNCHANGED phase /\ StaysInRun

RunVisible(of) ==
  /\ Running /\ text[pc].of = of /\ of # "none" /\ text[pc].op # "br_cond"
  /\ IF text[pc].op \in {"ret", "halt"}
     THEN phase' = "ended" /\ UNCHANGED pc
     ELSE pc' \in Follows(text, pc) /\ UNCHANGED phase
  /\ StaysInRun

RunBranch(yes) ==
  /\ Running /\ text[pc].op = "br_cond"
  /\ pc' \in IF yes THEN {d \in DOMAIN text : LandsAt(text, pc, d)} ELSE {pc + 1}
  /\ UNCHANGED phase /\ StaysInRun

(***************************************************************************)
(* The compilation of function f.                                          *)
(***************************************************************************)
Begin(f) ==
  /\ func = f
  /\ phase = "anchors"
  /\ stack = <<Body(f)>> /\ visited = {}
  /\ anchors = {} /\ layout = <<>> /\ labels = <<>> /\ irvars = <<>>
  /\ newvars = <<>> /\ newlabels = <<>>
  /\ at = 1 /\ item = 0 /\ text = <<>> /\ pc = 1

LayOut ==
  \/ Skip
  \/ Collect \/ Collected
  \/ FillBlock \/ FillItem \/ Filled
  \/ Count \/ Counted
  \/ Merge \/ Merged
  \/ WriteLabel \/ WriteItem \/ WriteNext \/ WriteEnds
  \/ Remap \/ Rename
===============================================================================
