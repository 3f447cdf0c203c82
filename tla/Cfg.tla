---------------------------------- MODULE Cfg ---------------------------------
(***************************************************************************)
(* Functions as graphs of blocks, the form in which C0 hands them to C2    *)
(* (compiler/src/xjs_cfg.h).                                               *)
(*                                                                         *)
(* A function is a record: body, the number of its first block, and        *)
(* blocks, the table of all blocks; the functions of a program share it.   *)
(* A block is a sequence of items.  An item is a record: op, the variable  *)
(* it writes, if any, as a set (dst), those it reads (srcs), the name it   *)
(* declares or stores (name), the blocks it goes on to (to), and what the  *)
(* program sees of it (of), "none" if nothing.                             *)
(*                                                                         *)
(* A node is a block <<b>> or the i-th item of a block <<b, i>>.           *)
(***************************************************************************)
EXTENDS Integers, Sequences, FiniteSets, Functions, SequencesExt

Item(op, dst, srcs, of) == [op |-> op, dst |-> dst, srcs |-> srcs, name |-> "none", to |-> <<>>, of |-> of]
Named(op, name, srcs, of) == [Item(op, {}, srcs, of) EXCEPT !.name = name]
Jump(dest) == [Item("jump", {}, <<>>, "none") EXCEPT !.to = <<dest>>]
Branch(cond, true, false) == [Item("branch", {}, <<cond>>, "branch") EXCEPT !.to = <<true, false>>]

IsBlock(n) == Len(n) = 1
ItemAt(f, n) == f.blocks[n[1]][n[2]]
Body(f) == <<f.body>>

(* The nodes a node leads to: a block to its items, a jump to a block.     *)
Children(f, n) ==
  IF IsBlock(n)
  THEN [i \in DOMAIN f.blocks[n[1]] |-> <<n[1], i>>]
  ELSE [k \in DOMAIN ItemAt(f, n).to |-> <<ItemAt(f, n).to[k]>>]

(* The blocks that the body leads to.                                      *)
Targets(f, b) == UNION {Range(item.to) : item \in Range(f.blocks[b])}

Reachable(f) ==
  LET within[k \in Nat] ==
        IF k = 0 THEN {f.body}
        ELSE LET nearer == within[k - 1]
             IN  nearer \cup UNION {Targets(f, b) : b \in nearer}
  IN  within[Len(f.blocks)]

Nowhere == <<0, 0>>

Present(f, n) == n # Nowhere /\ n[2] \in DOMAIN f.blocks[n[1]]
Silent(f, n) == Present(f, n) /\ ItemAt(f, n).of = "none"

Onwards(f, n) ==
  IF ItemAt(f, n).op = "jump" THEN <<ItemAt(f, n).to[1], 1>> ELSE <<n[1], n[2] + 1>>

(* The first item at n or behind it that the program sees; Nowhere if      *)
(* there is none.  Nobody passes more silent items than there are.         *)
Ahead(f, n) ==
  LET pass[k \in Nat, m \in Nat \X Nat] ==
        IF k > 0 /\ Silent(f, m) THEN pass[k - 1, Onwards(f, m)] ELSE m
      end == pass[Len(FlattenSeq(f.blocks)), n]
  IN  IF Present(f, end) /\ ~Silent(f, end) THEN end ELSE Nowhere
===============================================================================
