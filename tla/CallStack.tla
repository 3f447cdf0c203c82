------------------------------ MODULE CallStack ------------------------------
(***************************************************************************)
(* What the stack of the virtual machine promises: a stack of activations, *)
(* each with the place its caller goes on at.  A call adds one, a return   *)
(* removes the last one and resumes where that one was called.             *)
(***************************************************************************)
EXTENDS Naturals, Sequences

CONSTANTS
  Activation,   \* the activations, records with a field "restore"
  Sites         \* the places in the program

VARIABLES
  stack,   \* the activations, the running one last
  pc,      \* where the running one is
  lost     \* the activations can no longer be told

vars == <<stack, pc, lost>>

Front(s) == SubSeq(s, 1, Len(s) - 1)
Top == stack[Len(stack)]

Begin == Len(stack) = 1 /\ stack[1] \in Activation /\ pc \in Sites /\ ~lost

(* The running activation goes on, and may get registers.                  *)
Proceed ==
  /\ stack # <<>>
  /\ pc' \in Sites
  /\ \E a \in Activation :
       /\ [a EXCEPT !.vregc = Top.vregc] = Top
       /\ stack' = Append(Front(stack), a)

Enter ==
  /\ \E a \in Activation : a.restore = pc /\ stack' = Append(stack, a)
  /\ pc' \in Sites

Leave ==
  /\ stack # <<>>
  /\ pc' = Top.restore
  /\ stack' = Front(stack)

(* The program halts or fails: nothing of the stack is used again.         *)
Stop == stack' = <<>> /\ pc' = pc

(* A machine that has lost its stack ends with it, or begins anew.         *)
Lose == lost' /\ stack' = <<>> /\ pc' \in Sites

CallSpec == Begin /\ [][(~lost' /\ (Proceed \/ Enter \/ Leave \/ Stop)) \/ Lose]_vars
=============================================================================
