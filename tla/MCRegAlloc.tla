------------------------------ MODULE MCRegAlloc ------------------------------
(***************************************************************************)
(* Every function of up to MaxItems items over two variables and a label,  *)
(* and every loop of that many after a first item that loads a variable.     *)
(***************************************************************************)
EXTENDS RegAlloc, SequencesExt

CONSTANT MaxItems

Item(op, dst, srcs, to) == [op |-> op, dst |-> dst, srcs |-> srcs, to |-> to]
Vars == 0 .. 1
Items ==
  {Item("load", {v}, <<>>, 0) : v \in Vars} \cup {Item("store", {}, <<v>>, 0) : v \in Vars}
    \cup {Item("unary_not", {v}, <<1 - v>>, 0) : v \in Vars}
    \cup {Item("alloca", {0}, <<>>, 0), Item("halt", {}, <<>>, 0), Item("label", {}, <<>>, 1),
          Item("br", {}, <<>>, 1), Item("br_cond", {}, <<0>>, 1)}

Label == Item("label", {}, <<>>, 1)
Loops ==
  {<<Item("load", {0}, <<>>, 0), Label>> \o body \o <<back>> :
    body \in TupleOf(Items, MaxItems), back \in {i \in Items : IsBranch(i)}}

MCCodes == {c \in BoundedSeq(Items, MaxItems) \cup Loops : WellFormed(c)}
===============================================================================
