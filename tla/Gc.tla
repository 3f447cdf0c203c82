--------------------------------- MODULE Gc ----------------------------------
(***************************************************************************)
(* The collector of the run time system, rts/src/xjr_gc.c, and the program *)
(* it collects for.                                                        *)
(*                                                                         *)
(* The heap maps the live urids to blocks.  Three kinds of blocks refer to *)
(* others, and xjr_gc.c has a function for each:                           *)
(*   "val"   an object, array, string or function: the values in its       *)
(*           built-in slots, the list of its properties or items, and, for *)
(*           a function, the environment it closes over (next);            *)
(*   "link"  one property, array item or variable: its key and value, and  *)
(*           the following one of its list (next);                         *)
(*   "env"   an environment: the list of its variables and its parent      *)
(*           (next).                                                       *)
(* Values that are not on the heap (integers, undefined...) do not show.   *)
(*                                                                         *)
(* The program runs one instruction after another; xjr_vm_start may run    *)
(* the collector between any two of them.  The recursion of the marking is *)
(* the set of blocks that are still to be visited, taken in any order.     *)
(***************************************************************************)
EXTENDS Naturals, Sequences, FiniteSets

CONSTANTS
  Urids,        \* the urids of the pool
  Nil,          \* XJR_URID_INVALID
  GlobalEnv,    \* the environment xjr_vm_boot makes
  ArrayVar,     \* its variable "Array"
  ArrayProto,   \* Array.prototype, which vm->fundamental also keeps
  MaxFrames,    \* bound on the depth of calls
  MaxVals,      \* bound on the values a frame holds
  MaxExternal,  \* XJR_VM_EXTERNAL_VAL_CAPACITY
  Reassign      \* whether the program assigns to the variable "Array"

ASSUME GcAssumption ==
  /\ {GlobalEnv, ArrayVar, ArrayProto} \subseteq Urids
  /\ GlobalEnv # ArrayVar /\ GlobalEnv # ArrayProto /\ ArrayVar # ArrayProto
  /\ Nil \notin Urids
  /\ MaxFrames \in Nat \ {0} /\ MaxVals \in Nat \ {0} /\ MaxExternal \in Nat
  /\ Reassign \in BOOLEAN

VARIABLES
  heap,      \* the live urids, each with its block
  marked,    \* the blocks whose mark bit is set
  frames,    \* the stack frames, the running one last
  external,  \* vm->misc.external_vals
  phase,     \* "run": the program; "mark": inside xjr_gc
  pending    \* the blocks that the marking has still to visit

vars == <<heap, marked, frames, external, phase, pending>>

OrNil == Urids \cup {Nil}
Block == [kind: {"val", "link", "env"}, vals: SUBSET Urids, list: OrNil, last: OrNil, next: OrNil]
Frame == [env: Urids, vals: SUBSET Urids]

Live == DOMAIN heap

(* What the marking of a block goes on to.                                 *)
Refs(b) == b.vals \cup ({b.list, b.next} \ {Nil})

(* What xjr_gc_mark starts from: of each frame the environment, the callee,*)
(* this, the arguments and the registers; then the external values.        *)
Roots == (UNION {{frames[i].env} \cup frames[i].vals : i \in DOMAIN frames}) \cup external

----------------------------------------------------------------------------
(* The program.  Each action is what an instruction does to the heap and   *)
(* to the values in reach.                                                 *)

Top == frames[Len(frames)]
Running == phase = "run"

(* A frame's values once v is put into a register, which may have held     *)
(* another one.                                                            *)
Kept(vals, v) ==
  {w \in {(vals \ old) \cup {v} : old \in {{}} \cup {{x} : x \in vals}} :
     Cardinality(w) <= MaxVals}

Keep(v) ==
  \E vals \in Kept(Top.vals, v) : frames' = [frames EXCEPT ![Len(frames)].vals = vals]

NewBlock(h, u, b) == [x \in DOMAIN h \cup {u} |-> IF x = u THEN b ELSE h[x]]

Link(vs) == [kind |-> "link", vals |-> vs, list |-> Nil, last |-> Nil, next |-> Nil]

(* Append a new link to the list of block o, behind its last link if any.  *)
Relinked(h, x, o, l) ==
  [h[x] EXCEPT !.list = IF x = o /\ @ = Nil THEN l ELSE @,
               !.last = IF x = o THEN l ELSE @,
               !.next = IF h[o].list # Nil /\ x = h[o].last THEN l ELSE @]

AppendLink(h, o, l, vs) ==
  [x \in DOMAIN h \cup {l} |-> IF x = l THEN Link(vs) ELSE Relinked(h, x, o, l)]

(* What n steps along "next" lead to.                                      *)
Along(u) ==
  LET step[n \in Nat] == IF n = 0 THEN u
                         ELSE IF step[n - 1] \in Live THEN heap[step[n - 1]].next ELSE Nil
  IN  step

(* The blocks from u on along "next": a list of links, or an environment   *)
(* and those around it.                                                    *)
Chain(u) == {Along(u)[n] : n \in 0 .. Cardinality(Live)} \cap Live

LinksOf(o) == Chain(heap[o].list)

(* LOAD_OBJECT, LOAD_ARRAY, LOAD_STRING: a value whose built-in prototype  *)
(* is the one vm->fundamental names; LOAD_FUNCTION: one that closes over   *)
(* the running environment.                                                *)
MakeValue(u, isFunction) ==
  /\ Running /\ u \notin Live
  /\ heap' = NewBlock(heap, u,
               [kind |-> "val", vals |-> {ArrayProto}, list |-> Nil, last |-> Nil,
                next |-> IF isFunction THEN Top.env ELSE Nil])
  /\ marked' = marked \cup {u}
  /\ Keep(u)
  /\ UNCHANGED <<external, phase, pending>>

(* xjr_val_properties_set of a new key and xjr_val_as_array_push.          *)
SetProperty(o, l, key, value) ==
  /\ Running /\ {o, key, value} \subseteq Top.vals
  /\ heap[o].kind = "val" /\ l \notin Live
  /\ heap' = AppendLink(heap, o, l, {key, value})
  /\ marked' = marked \cup {l}
  /\ UNCHANGED <<frames, external, phase, pending>>

(* A slip: "end" keeps the item that left when it was the only one.        *)
ShiftItemKeepsLast(o, value) ==
  /\ Running /\ o \in Top.vals /\ heap[o].kind = "val" /\ heap[o].list # Nil
  /\ value \in heap[heap[o].list].vals
  /\ heap' = [heap EXCEPT ![o].list = heap[@].next]
  /\ Keep(value)
  /\ UNCHANGED <<marked, external, phase, pending>>

(* xjr_val_as_array_shift: the first item leaves the list.                 *)
ShiftItem(o, value) ==
  /\ Running /\ o \in Top.vals /\ heap[o].kind = "val" /\ heap[o].list # Nil
  /\ value \in heap[heap[o].list].vals
  /\ LET rest == heap[heap[o].list].next
     IN  heap' = [heap EXCEPT ![o].list = rest,
                              ![o].last = IF rest = Nil THEN Nil ELSE @]
  /\ Keep(value)
  /\ UNCHANGED <<marked, external, phase, pending>>

(* xjr_vm_objget: a property or item of o, or what its prototype slots hold*)
GetProperty(o, value) ==
  /\ Running /\ o \in Top.vals /\ heap[o].kind = "val"
  /\ value \in heap[o].vals \cup (UNION {heap[l].vals : l \in LinksOf(o)})
  /\ Keep(value)
  /\ UNCHANGED <<heap, marked, external, phase, pending>>

(* xjr_vm_op_declvar and the store of an argument: a new variable.         *)
DeclareVariable(l, value) ==
  /\ Running /\ l \notin Live /\ value \in Top.vals
  /\ heap' = AppendLink(heap, Top.env, l, {value})
  /\ marked' = marked \cup {l}
  /\ UNCHANGED <<frames, external, phase, pending>>

(* The variables an instruction of the running frame finds.                *)
Variables == UNION {LinksOf(e) : e \in Chain(Top.env)}

(* xjr_vm_op_load *)
LoadVariable(l, value) ==
  /\ Running /\ l \in Variables /\ value \in heap[l].vals
  /\ Keep(value)
  /\ UNCHANGED <<heap, marked, external, phase, pending>>

(* xjr_vm_op_store; vs is empty when the value is not on the heap.         *)
StoreVariable(l, vs) ==
  /\ Running /\ l \in Variables
  /\ l = ArrayVar => Reassign
  /\ vs \subseteq Top.vals /\ Cardinality(vs) <= 1
  /\ heap' = [heap EXCEPT ![l].vals = vs]
  /\ UNCHANGED <<marked, frames, external, phase, pending>>

(* xjr_vm_op_call of a function of the program: a frame with a fresh       *)
(* environment below the one the function closes over.                     *)
Call(f, e, args) ==
  /\ Running /\ Len(frames) < MaxFrames
  /\ f \in Top.vals /\ heap[f].kind = "val" /\ heap[f].next # Nil
  /\ e \notin Live /\ args \subseteq Top.vals
  /\ heap' = NewBlock(heap, e, [kind |-> "env", vals |-> {}, list |-> Nil, last |-> Nil,
                                next |-> heap[f].next])
  /\ marked' = marked \cup {e}
  /\ frames' = Append(frames, [env |-> e, vals |-> args \cup {f}])
  /\ UNCHANGED <<external, phase, pending>>

(* xjr_vm_op_ret: the caller gets one value of the frame that goes.        *)
Return(value) ==
  /\ Running /\ Len(frames) > 1 /\ value \in Top.vals
  /\ LET caller == Len(frames) - 1
     IN  \E vals \in Kept(frames[caller].vals, value) :
           frames' = [SubSeq(frames, 1, caller) EXCEPT ![caller].vals = vals]
  /\ UNCHANGED <<heap, marked, external, phase, pending>>

(* xjr_vm_register_external_val and xjr_vm_unregister_external_val         *)
RegisterExternal(v) ==
  /\ Running /\ v \in Top.vals
  /\ v \in external \/ Cardinality(external) < MaxExternal
  /\ external' = external \cup {v}
  /\ UNCHANGED <<heap, marked, frames, phase, pending>>

UnregisterExternal(v) ==
  /\ Running /\ v \in external
  /\ external' = external \ {v}
  /\ UNCHANGED <<heap, marked, frames, phase, pending>>

----------------------------------------------------------------------------
(* The collector                                                           *)

(* A slip: the marks of the collection before stay.                        *)
StartGcUncleaned ==
  /\ Running
  /\ pending' = Roots
  /\ phase' = "mark"
  /\ UNCHANGED <<marked, heap, frames, external>>

(* xjr_gc_clean, and the roots of xjr_gc_mark.                             *)
StartGc ==
  /\ Running
  /\ marked' = {}
  /\ pending' = Roots
  /\ phase' = "mark"
  /\ UNCHANGED <<heap, frames, external>>

(* Two slips: the environments around are not marked; the return at once   *)
(* is missing.                                                             *)

VisitWithoutNext(u) ==
  /\ phase = "mark" /\ u \in pending /\ u \in Live
  /\ marked' = marked \cup {u}
  /\ pending' = (pending \ {u}) \cup
       IF u \in marked /\ heap[u].kind # "link" THEN {}
       ELSE heap[u].vals \cup ({heap[u].list} \ {Nil})
  /\ UNCHANGED <<heap, frames, external, phase>>

VisitAgain(u) ==
  /\ phase = "mark" /\ u \in pending /\ u \in Live
  /\ marked' = marked \cup {u}
  /\ pending' = (pending \ {u}) \cup Refs(heap[u])
  /\ UNCHANGED <<heap, frames, external, phase>>

(* xjr_gc_mark_val and xjr_gc_mark_env return at once when the block was   *)
(* marked; the walk along a list goes on.                                  *)
Visit(u) ==
  /\ phase = "mark" /\ u \in pending /\ u \in Live
  /\ marked' = marked \cup {u}
  /\ pending' = (pending \ {u}) \cup
       IF u \in marked /\ heap[u].kind # "link" THEN {} ELSE Refs(heap[u])
  /\ UNCHANGED <<heap, frames, external, phase>>

(* xjr_mp_sweep *)
SweepHeap ==
  /\ phase = "mark" /\ pending = {}
  /\ heap' = [u \in Live \cap marked |-> heap[u]]
  /\ phase' = "run"
  /\ UNCHANGED <<marked, frames, external, pending>>

(* xjr_vm_boot: the global environment, in which the variable "Array"      *)
(* leads to the prototype (the constructor between them is left out).      *)
Init ==
  /\ heap = [u \in {GlobalEnv, ArrayVar, ArrayProto} |->
       CASE u = GlobalEnv -> [kind |-> "env", vals |-> {}, list |-> ArrayVar,
                              last |-> ArrayVar, next |-> Nil]
         [] u = ArrayVar -> Link({ArrayProto})
         [] OTHER -> [kind |-> "val", vals |-> {}, list |-> Nil, last |-> Nil, next |-> Nil]]
  /\ marked = {GlobalEnv, ArrayVar, ArrayProto}
  /\ frames = <<[env |-> GlobalEnv, vals |-> {}]>>
  /\ external = {}
  /\ phase = "run"
  /\ pending = {}

Step ==
  \/ \E u \in Urids, isFunction \in BOOLEAN : MakeValue(u, isFunction)
  \/ \E o, l, key, value \in Urids : SetProperty(o, l, key, value)
  \/ \E o, value \in Urids : ShiftItem(o, value) \/ GetProperty(o, value)
  \/ \E l, value \in Urids : DeclareVariable(l, value) \/ LoadVariable(l, value)
  \/ \E l \in Urids, vs \in SUBSET Urids : StoreVariable(l, vs)
  \/ \E f, e \in Urids, args \in SUBSET Urids : Call(f, e, args)
  \/ \E v \in Urids : Return(v) \/ RegisterExternal(v) \/ UnregisterExternal(v)

Collect == (\E u \in Urids : Visit(u)) \/ SweepHeap

Next == Step \/ StartGc \/ Collect

Spec == Init /\ [][Next]_vars

(* The collector is a plain call: once started it goes on to its end.      *)
FairSpec == Spec /\ WF_vars(Collect)

----------------------------------------------------------------------------
(* Properties                                                              *)

TypeOK ==
  /\ DOMAIN heap \subseteq Urids /\ heap \in [DOMAIN heap -> Block]
  /\ marked \subseteq Urids
  /\ frames \in Seq(Frame) /\ Len(frames) \in 1 .. MaxFrames
  /\ external \subseteq Urids
  /\ phase \in {"run", "mark"}
  /\ pending \subseteq Urids

(* Whatever the program can still use is there: the roots of the collector,*)
(* every block a live block refers to, and the prototype that              *)
(* vm->fundamental puts into the next value.                               *)
NoDangling ==
  /\ Roots \subseteq Live
  /\ \A u \in Live : Refs(heap[u]) \subseteq Live
  /\ ArrayProto \in Live

(* What the program can reach: the least set that has the roots and, with  *)
(* a block, all it refers to.                                              *)
Reachable ==
  {u \in Live : \A S \in SUBSET Live :
     (Roots \cap Live \subseteq S /\ \A m \in S : Refs(heap[m]) \cap Live \subseteq S) => u \in S}

(* A collection removes exactly the blocks the program cannot reach, and   *)
(* touches no other: neither early returns nor stale marks cost a live     *)
(* block or keep a dead one.                                               *)
SweepExact ==
  [][phase = "mark" /\ phase' = "run" => heap' = [u \in Reachable |-> heap[u]]]_vars

(* While the marking runs: the global environment still leads to the       *)
(* prototype; whatever a root or a marked block refers to is marked or     *)
(* will be; and nothing the program cannot reach is.  With NoDangling this *)
(* is kept by every step of a program that leaves "Array" alone.           *)
Anchored ==
  /\ frames[1].env = GlobalEnv
  /\ heap[GlobalEnv].kind = "env" /\ heap[GlobalEnv].list = ArrayVar
  /\ ArrayProto \in heap[ArrayVar].vals

Closed ==
  phase = "mark" =>
    /\ Roots \subseteq marked \cup pending
    /\ \A u \in Live \cap marked : Refs(heap[u]) \subseteq marked \cup pending

Precise == phase = "mark" => marked \cup pending \subseteq Reachable

IInv == TypeOK /\ NoDangling /\ Anchored /\ Closed /\ Precise

(* "last" is the last link of the list for as long as there is one, so an  *)
(* append extends the list that the collector walks.                       *)
ListEnds ==
  \A o \in Live : heap[o].kind # "link" =>
    IF heap[o].list = Nil THEN heap[o].last = Nil
    ELSE heap[o].last \in LinksOf(o) /\ heap[heap[o].last].next = Nil

(* Marking ends, also when values refer to each other in a circle.         *)
GcEnds == phase = "mark" ~> phase = "run"
=============================================================================
