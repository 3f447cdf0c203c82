------------------------------- MODULE JsArray -------------------------------
(***************************************************************************)
(* What an array promises to the program: a sequence of elements.          *)
(***************************************************************************)
EXTENDS Integers, Sequences

CONSTANTS
  Elements,    \* the values that are put into it
  Indices,     \* the indices that are asked for
  Undefined,   \* the value of what is not there
  Failed       \* the reply of an operation that got no memory

VARIABLES
  items,   \* the elements
  reply    \* what the last operation has returned

vars == <<items, reply>>

IsIndex(i) == i \in 0 .. Len(items) - 1

Empty == items = <<>> /\ reply = Undefined

Push(e) == items' = Append(items, e) /\ reply' = Undefined
Unshift(e) == items' = <<e>> \o items /\ reply' = Undefined
NoMemory == items' = items /\ reply' = Failed

(* ARRPUSH does not see that its push has failed.                          *)
Lost == items' = items /\ reply' = Undefined

Pop ==
  IF items = <<>> THEN items' = items /\ reply' = Undefined
  ELSE items' = SubSeq(items, 1, Len(items) - 1) /\ reply' = items[Len(items)]

Shift ==
  IF items = <<>> THEN items' = items /\ reply' = Undefined
  ELSE items' = Tail(items) /\ reply' = Head(items)

Reverse ==
  /\ items' = [i \in 1 .. Len(items) |-> items[Len(items) + 1 - i]]
  /\ reply' = Undefined

Get(i) ==
  /\ items' = items
  /\ reply' = IF IsIndex(i) THEN items[i + 1] ELSE Undefined

Set(i, e) ==
  /\ items' = IF IsIndex(i) THEN [items EXCEPT ![i + 1] = e] ELSE items
  /\ reply' = IF IsIndex(i) THEN e ELSE Undefined

Size == items' = items /\ reply' = Len(items)

Access ==
  \/ \E e \in Elements : Push(e) \/ Unshift(e)
  \/ \E i \in Indices : Get(i)
  \/ \E i \in Indices, e \in Elements : Set(i, e)
  \/ NoMemory \/ Lost \/ Pop \/ Shift \/ Reverse \/ Size

ArraySpec == Empty /\ [][Access]_vars
=============================================================================
