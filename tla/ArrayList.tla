------------------------------ MODULE ArrayList ------------------------------
(***************************************************************************)
(* Arrays: the doubly linked lists of rts/src/xjr_val.c.  Each item is a   *)
(* block of the memory pool.  An item that leaves the list stays in memory *)
(* until the collector runs, which keeps what it finds from "begin" along  *)
(* "next".                                                                 *)
(***************************************************************************)
EXTENDS Integers, Sequences, FiniteSets, TLC

CONSTANTS
  Urids,      \* the urids of the pool
  Nil,        \* XJR_URID_INVALID
  Elements,   \* the values that are put into the array
  Undefined,  \* XJR_VAL_MAKE_UNDEFINED
  Failed,     \* the return code -1
  MaxIndex    \* bound on the indices the program asks for

ASSUME ListAssumption == Nil \notin Urids /\ IsFiniteSet(Urids) /\ MaxIndex \in Nat

VARIABLES
  begin, end, size,  \* xjr_val_array
  item,              \* the items in memory, by urid
  reply              \* what the last operation has returned

vars == <<begin, end, size, item, reply>>

OrNil == Urids \cup {Nil}
Item == [prev : OrNil, next : OrNil, element : Elements]
Live == DOMAIN item
Indices == -MaxIndex .. MaxIndex

(* xjr_val_make_array_item *)
NewItem(u, e) ==
  [x \in Live \cup {u} |-> IF x = u THEN [prev |-> Nil, next |-> Nil, element |-> e] ELSE item[x]]

(* The n-th block from u on along a link.                                  *)
Along(u, link) ==
  LET at[n \in Nat] == IF n = 0 THEN u
                       ELSE LET before == at[n - 1]
                            IN  IF before \in Live THEN item[before][link] ELSE Nil
  IN  at

(* The items from u on, in their order.                                    *)
ChainOf(u, link) ==
  LET at == Along(u, link)
      held == {n \in 0 .. Cardinality(Live) : at[n] # Nil}
  IN  [i \in 1 .. Cardinality(held) |-> at[i - 1]]

Reply(value) == reply' = value

----------------------------------------------------------------------------
NoMemory ==
  /\ Reply(Failed)
  /\ UNCHANGED <<begin, end, size, item>>

(* A slip: the new item does not learn its predecessor.                    *)
LinkLastOneWay(items, u) ==
  [items EXCEPT ![end].next = u]

(* A new last item behind the one at "end".                                *)
LinkLast(items, u) ==
  [items EXCEPT ![end].next = u, ![u].prev = end]

(* xjr_val_as_array_push *)
Append1(u, e) ==
  /\ IF begin = Nil
     THEN begin' = u /\ item' = NewItem(u, e)
     ELSE begin' = begin /\ item' = LinkLast(NewItem(u, e), u)
  /\ end' = u
  /\ size' = size + 1
  /\ Reply(Undefined)

Push(u, e) == u \notin Live /\ Append1(u, e)

(* xjr_vm_op_arrpush: it makes an item of its own that nothing uses, and   *)
(* does not look at the result of the push.                                *)
ArrPush(spare, u, e) ==
  /\ spare \notin Live /\ u \notin Live /\ u # spare
  /\ LET items == [x \in Live \cup {u, spare} |->
                     IF x \in Live THEN item[x] ELSE [prev |-> Nil, next |-> Nil, element |-> e]]
     IN  IF begin = Nil
         THEN begin' = u /\ item' = items
         ELSE begin' = begin /\ item' = LinkLast(items, u)
  /\ end' = u
  /\ size' = size + 1
  /\ Reply(Undefined)

ArrPushLost(spare, e) ==
  /\ spare \notin Live
  /\ item' = NewItem(spare, e)
  /\ Reply(Undefined)
  /\ UNCHANGED <<begin, end, size>>

(* xjr_val_as_array_unshift *)
Unshift(u, e) ==
  /\ u \notin Live
  /\ IF begin = Nil
     THEN end' = u /\ item' = NewItem(u, e)
     ELSE end' = end /\ item' = [NewItem(u, e) EXCEPT ![begin].prev = u, ![u].next = begin]
  /\ begin' = u
  /\ size' = size + 1
  /\ Reply(Undefined)

Nothing ==
  /\ size = 0
  /\ Reply(Undefined)
  /\ UNCHANGED <<begin, end, size, item>>

(* xjr_val_as_array_pop *)
Pop ==
  /\ size # 0
  /\ LET before == item[end].prev
     IN  IF before = Nil
         THEN begin' = Nil /\ end' = Nil /\ item' = item
         ELSE begin' = begin /\ end' = before /\ item' = [item EXCEPT ![before].next = Nil]
  /\ Reply(item[end].element)
  /\ size' = size - 1

(* xjr_val_as_array_shift *)
Shift ==
  /\ size # 0
  /\ LET after == item[begin].next
     IN  IF after = Nil
         THEN begin' = Nil /\ end' = Nil /\ item' = item
         ELSE end' = end /\ begin' = after /\ item' = [item EXCEPT ![after].prev = Nil]
  /\ Reply(item[begin].element)
  /\ size' = size - 1

(* xjr_val_as_array_reverse; that it returns the array does not show.      *)
Reverse ==
  /\ LET chain == {ChainOf(begin, "next")[i] : i \in 1 .. Len(ChainOf(begin, "next"))}
     IN  item' = [u \in Live |-> IF u \in chain
                                 THEN [item[u] EXCEPT !.prev = item[u].next, !.next = item[u].prev]
                                 ELSE item[u]]
  /\ begin' = end /\ end' = begin
  /\ Reply(Undefined)
  /\ UNCHANGED size

(* xjr_val_as_array_get_by_idx and xjr_val_as_array_set_by_idx             *)
Outside(i) == i < 0 \/ i >= size

GetByIdx(i) ==
  /\ Reply(IF Outside(i) THEN Undefined ELSE item[Along(begin, "next")[i]].element)
  /\ UNCHANGED <<begin, end, size, item>>

(* A slip: what was there before is returned.                              *)
SetByIdxReturnsOld(i, e) ==
  /\ IF Outside(i) THEN item' = item /\ Reply(Undefined)
     ELSE LET u == Along(begin, "next")[i]
          IN  item' = [item EXCEPT ![u].element = e] /\ Reply(item[u].element)
  /\ UNCHANGED <<begin, end, size>>

SetByIdx(i, e) ==
  /\ IF Outside(i) THEN item' = item /\ Reply(Undefined)
     ELSE item' = [item EXCEPT ![Along(begin, "next")[i]].element = e] /\ Reply(e)
  /\ UNCHANGED <<begin, end, size>>

(* xjr_val_as_array_size *)
Size ==
  /\ Reply(size)
  /\ UNCHANGED <<begin, end, size, item>>

(* The collector: xjr_gc_mark_val of an array, then xjr_mp_sweep.          *)
Collect ==
  /\ LET chain == ChainOf(begin, "next")
     IN  item' = [u \in {chain[i] : i \in 1 .. Len(chain)} |-> item[u]]
  /\ UNCHANGED <<begin, end, size, reply>>

(* xjr_val_make_array *)
Init ==
  /\ begin = Nil /\ end = Nil /\ size = 0
  /\ item = [u \in {} |-> {}]
  /\ reply = Undefined

Next ==
  \/ \E u \in Urids, e \in Elements : Push(u, e) \/ Unshift(u, e) \/ ArrPushLost(u, e)
  \/ \E spare, u \in Urids, e \in Elements : ArrPush(spare, u, e)
  \/ \E i \in Indices : GetByIdx(i)
  \/ \E i \in Indices, e \in Elements : SetByIdx(i, e)
  \/ Pop \/ Shift \/ Reverse \/ Nothing \/ Size \/ NoMemory \/ Collect

Spec == Init /\ [][Next]_vars

----------------------------------------------------------------------------
(* Properties                                                              *)

TypeOK ==
  /\ {begin, end} \subseteq OrNil
  /\ size \in 0 .. Cardinality(Urids)
  /\ Live \subseteq Urids /\ item \in [Live -> Item]
  /\ reply \in Elements \cup {Undefined, Failed} \cup Nat

(* The two directions agree: the items along "prev" from the end are those *)
(* along "next" from the begin, the other way round, "size" of them, and   *)
(* all of them are in memory, whatever the collector has taken.            *)
LinksAgree ==
  LET there == ChainOf(begin, "next")
      back == ChainOf(end, "prev")
  IN  /\ Len(there) = size /\ Len(back) = size
      /\ \A i \in 1 .. size : there[i] \in Live /\ back[i] = there[size + 1 - i]

(* The list is one list, and of items.                                     *)
ListSound == TypeOK /\ LinksAgree

(* Whatever is pushed, shifted and reversed, with memory running out in    *)
(* between and the collector taking what has left, the list is the         *)
(* sequence the program expects, and each operation replies so.            *)
Contents == [i \in 1 .. Len(ChainOf(begin, "next")) |-> item[ChainOf(begin, "next")[i]].element]
Abstract == INSTANCE JsArray WITH items <- Contents
ImplementsArray == Abstract!ArraySpec

(* For TLC: neither the items nor the values tell one from another.        *)
Symmetry == Permutations(Urids) \cup Permutations(Elements)
=============================================================================
