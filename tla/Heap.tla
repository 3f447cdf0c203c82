-------------------------------- MODULE Heap ---------------------------------
(***************************************************************************)
(* What the rest of the run time system may expect of the memory pool: a   *)
(* map from urids to blocks.  Where blocks lie, how they are moved and how *)
(* sub pools come and go does not show here.                               *)
(***************************************************************************)
EXTENDS Naturals

CONSTANTS Urids, Sizes, Contents

VARIABLE heap   \* the live urids, each with its size, its bit and its content

Live == DOMAIN heap

Cell == [size: Nat, bit: BOOLEAN, data: Contents]

(* A request is served under a urid that no live block has, or refused.    *)
HMalloc(size, managed, data) ==
  \E u \in Urids \ Live :
    heap' = [v \in Live \cup {u} |->
               IF v = u THEN [size |-> size, bit |-> managed, data |-> data] ELSE heap[v]]

HFree(u) == u \in Live /\ heap' = [v \in Live \ {u} |-> heap[v]]

HWrite(u, data) == u \in Live /\ heap' = [heap EXCEPT ![u].data = data]

HClear == heap' = [v \in Live |-> [heap[v] EXCEPT !.bit = FALSE]]

HMark(u) == u \in Live /\ heap' = [heap EXCEPT ![u].bit = TRUE]

(* Exactly the blocks that are not marked go.                              *)
HSweep == heap' = [v \in {w \in Live : heap[w].bit} |-> heap[v]]

HInit == heap = [u \in {} |-> 0]

HNext ==
  \/ \E u \in Urids : HFree(u) \/ HMark(u) \/ \E data \in Contents : HWrite(u, data)
  \/ HClear
  \/ HSweep
  \/ \E size \in Sizes, managed \in BOOLEAN, data \in Contents : HMalloc(size, managed, data)

HSpec == HInit /\ [][HNext]_heap
=============================================================================
