---------------------------------- MODULE Ir ----------------------------------
(***************************************************************************)
(* The code of one function between C2, which writes it, and C4, which     *)
(* gives it registers and assembles it (compiler/src/xjs_ir.h).            *)
(*                                                                         *)
(* An item is a record: op, the variable it writes, if any, as a set       *)
(* (dst), those it reads (srcs) and, for a label and a branch, the label   *)
(* (to).  Items may have further fields.                                   *)
(***************************************************************************)
EXTENDS Integers, Sequences, FiniteSets, Functions

IsBranch(item) == item.op \in {"br", "br_cond"}
Reads(item) == Range(item.srcs)
Mentions(item) == item.dst \cup Reads(item)

LandsAt(c, i, d) == IsBranch(c[i]) /\ c[d].op = "label" /\ c[d].to = c[i].to

(* Where the machine may be after item i: behind it, where a branch goes,  *)
(* or nowhere.                                                             *)
Follows(c, i) ==
  CASE c[i].op \in {"halt", "ret"} -> {}
    [] c[i].op = "br" -> {d \in DOMAIN c : LandsAt(c, i, d)}
    [] c[i].op = "br_cond" -> {d \in DOMAIN c : LandsAt(c, i, d)} \cup {i + 1}
    [] OTHER -> {i + 1}

(* No function is empty.  A label is placed once: C2 has one per block.    *)
(* The last pass of C2 numbers the variables in the order in which it      *)
(* meets them (xjs_c2_rename_remap).                                       *)
Mentioned(c, i) == UNION {Mentions(c[j]) : j \in 1 .. i}

WellFormed(c) ==
  /\ c \in Seq(Range(c)) /\ c # <<>>
  /\ \A i \in DOMAIN c : c[i].dst \subseteq Nat /\ c[i].srcs \in Seq(Nat)
  /\ \A i \in DOMAIN c : \A u, v \in c[i].dst : u = v
  /\ \A i, d, e \in DOMAIN c : LandsAt(c, i, d) /\ LandsAt(c, i, e) => d = e
  /\ \A i \in 0 .. Len(c) : Mentioned(c, i) = 0 .. Cardinality(Mentioned(c, i)) - 1
===============================================================================
