--------------------------------- MODULE Walk ---------------------------------
(***************************************************************************)
(* What a function means while it is still a graph: from its body on, the  *)
(* items are done in the order of their block, a jump goes on in another   *)
(* one, a branch in one of two.  next is the item that is done next and    *)
(* that the program sees; those it does not see take no step.  taken is    *)
(* what the last branch decided.                                           *)
(***************************************************************************)
EXTENDS Cfg

CONSTANT Graphs   \* the functions

VARIABLES func, next, taken

walkVars == <<func, next, taken>>

WalkInit ==
  /\ func \in Graphs
  /\ next = Ahead(func, <<func.body, 1>>)
  /\ taken = FALSE

Here == ItemAt(func, next)

Do ==
  /\ next # Nowhere /\ Here.op \notin {"branch", "return", "halt"}
  /\ next' = Ahead(func, Onwards(func, next))
  /\ UNCHANGED <<func, taken>>

Decide ==
  /\ next # Nowhere /\ Here.op = "branch"
  /\ taken' \in BOOLEAN
  /\ next' = Ahead(func, <<Here.to[IF taken' THEN 1 ELSE 2], 1>>)
  /\ UNCHANGED func

Leave ==
  /\ next # Nowhere /\ Here.op \in {"return", "halt"}
  /\ next' = Nowhere
  /\ UNCHANGED <<func, taken>>

WalkNext == Do \/ Decide \/ Leave

WalkSpec == WalkInit /\ [][WalkNext]_walkVars
===============================================================================
