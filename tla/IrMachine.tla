------------------------------- MODULE IrMachine -------------------------------
(***************************************************************************)
(* What a function in IR means, without a file, words or registers: a      *)
(* machine over its items and variables, with integers that have no width. *)
(*                                                                         *)
(* It promises what the language says.  Where the implementation knows no  *)
(* answer of the language (a number beyond 29 bits, a division by zero, an *)
(* operator on types it does not support, what a float is worth) it        *)
(* promises only that no other variable changes, or that the run ends.     *)
(* Answers are sets: one value, or none where there is no promise.         *)
(***************************************************************************)
EXTENDS Integers, Sequences, FiniteSetsExt

CONSTANT MaxInteger      \* the largest magnitude the promise is for
VARIABLES items,         \* the items of the function
          strings,       \* the bodies of the strings, by number
          at,            \* the item to execute
          val,           \* what each variable holds
          shown,         \* what was inspected
          ended          \* "running", "halted", "failed", "elsewhere", "undefined"

vars == <<items, strings, at, ended, shown, val>>

(* Values of different types are different.                                *)
Same(v, w) == v.type = w.type /\ v.is = w.is

Int32(n) == [type |-> "integer", is |-> n]
Bool(b) == [type |-> "boolean", is |-> b]
Str(s) == [type |-> "string", is |-> s]
Undefined == [type |-> "nullish", is |-> "undefined"]
Null == [type |-> "nullish", is |-> "null"]
InRange(n) == n \in -MaxInteger .. MaxInteger

FloatValue == [type |-> "float", is |-> "float"]

(* The next item that does something.                                      *)
From(k) ==
  LET later == {j \in k .. Len(items) : items[j].type \notin {"label", "alloca"}}
  IN  IF later = {} THEN 0 ELSE Min(later)
LabelAt(l) == CHOOSE k \in DOMAIN items : items[k].type = "label" /\ items[k].to = l

(* Whether a value counts as true; of a float nobody knows.                *)
Holds(v) ==
  CASE v.type = "boolean" -> v.is
    [] v.type = "integer" -> v.is # 0
    [] v.type = "string" -> v.is # <<>>
    [] v.type = "nullish" -> FALSE
    [] OTHER -> TRUE

Both(type, l, r) == l.type = type /\ r.type = type

Abs(n) == IF n < 0 THEN -n ELSE n
Sign(n) == IF n < 0 THEN -1 ELSE 1
Ratio(x, y) == Sign(x) * Sign(y) * (Abs(x) \div Abs(y))

Digits(n) ==
  LET d[k \in Nat] == IF k < 10 THEN <<48 + k>> ELSE d[k \div 10] \o <<48 + (k % 10)>>
  IN  (IF n < 0 THEN <<45>> ELSE <<>>) \o d[Abs(n)]
AsText(v) == IF v.type = "string" THEN v.is ELSE Digits(v.is)

(* The product fits if the factors do: no product is formed that does not. *)
ProductFits(x, y) == x = 0 \/ Abs(y) <= MaxInteger \div Abs(x)

----------------------------------------------------------------------------
(* The answers of the language.                                            *)
NoPromise == {}
Integer(n) == IF InRange(n) THEN {Int32(n)} ELSE NoPromise

Sum(l, r) ==
  CASE Both("integer", l, r) -> Integer(l.is + r.is)
    [] "string" \in {l.type, r.type} /\ {l.type, r.type} \subseteq {"string", "integer"} ->
         {Str(AsText(l) \o AsText(r))}
    [] OTHER -> NoPromise

SameValue(l, r) ==
  CASE l.type # r.type /\ "float" \notin {l.type, r.type} -> {Bool(FALSE)}
    [] l.type = r.type /\ l.type \in {"integer", "boolean", "string", "object"} -> {Bool(l.is = r.is)}
    [] Both("nullish", l, r) /\ l.is = r.is -> {Bool(TRUE)}
    [] Both("function", l, r) /\ l.is # r.is -> {Bool(FALSE)}
    [] OTHER -> NoPromise

(* As loose equality; of two types only null and undefined have an answer. *)
LooseValue(l, r) ==
  CASE Both("nullish", l, r) -> {Bool(TRUE)}
    [] l.type = r.type /\ l.type # "nullish" -> SameValue(l, r)
    [] l.type # r.type /\ "nullish" \in {l.type, r.type} -> {Bool(FALSE)}
    [] OTHER -> NoPromise

Negated(answer) == {Bool(~v.is) : v \in answer}

BinaryAnswer(type, l, r) ==
  LET ints == Both("integer", l, r)
  IN  CASE type = "binary_add" -> Sum(l, r)
        [] type = "binary_sub" /\ ints -> Integer(l.is - r.is)
        [] type = "binary_mul" /\ ints -> (IF ProductFits(l.is, r.is) THEN {Int32(l.is * r.is)} ELSE NoPromise)
        [] type = "binary_div" /\ ints /\ r.is # 0 ->
             (IF Abs(l.is) % Abs(r.is) = 0 THEN {Int32(Ratio(l.is, r.is))} ELSE {FloatValue})
        [] type = "binary_mod" /\ ints /\ r.is # 0 -> {Int32(Sign(l.is) * (Abs(l.is) % Abs(r.is)))}
        [] type = "binary_e2" -> LooseValue(l, r)
        [] type = "binary_ne2" -> Negated(LooseValue(l, r))
        [] type = "binary_e3" -> SameValue(l, r)
        [] type = "binary_ne3" -> Negated(SameValue(l, r))
        [] type = "binary_l" /\ ints -> {Bool(l.is < r.is)}
        [] type = "binary_le" /\ ints -> {Bool(l.is <= r.is)}
        [] type = "binary_g" /\ ints -> {Bool(l.is > r.is)}
        [] type = "binary_ge" /\ ints -> {Bool(l.is >= r.is)}
        [] type = "binary_and" /\ l.type # "float" -> {IF Holds(l) THEN r ELSE l}
        [] type = "binary_or" /\ l.type # "float" -> {IF Holds(l) THEN l ELSE r}
        [] OTHER -> NoPromise

UnaryAnswer(type, v) ==
  CASE type = "unary_add" /\ v.type = "integer" -> {v}
    [] type = "unary_sub" /\ v.type = "integer" -> {Int32(-v.is)}
    [] type = "unary_bnot" /\ v.type = "integer" -> Integer(-v.is - 1)
    [] type = "unary_not" /\ v.type \in {"integer", "boolean"} -> {Bool(~Holds(v))}
    [] OTHER -> NoPromise

(* The variable an item sets.                                              *)
Target(item) ==
  IF item.type \in {"inspect", "ret", "store"} THEN {}
  ELSE {item[field] : field \in {"dst", "reg"} \cap DOMAIN item}

Loaded(item) ==
  CASE item.type = "load_undefined" -> {Undefined}
    [] item.type = "load_null" -> {Null}
    [] item.type = "load_bool" -> {Bool(item.value)}
    [] item.type = "load_number" -> (IF item.float THEN {FloatValue} ELSE Integer(item.value))
    [] item.type = "load_string" -> {Str(strings[item.data])}
    [] item.type = "make_function" -> {[type |-> "function", is |-> item.func]}

Answer(item) ==
  CASE "lhs" \in DOMAIN item -> BinaryAnswer(item.type, val[item.lhs], val[item.rhs])
    [] "alternate" \in DOMAIN item ->
         (IF val[item.test].type = "float" THEN NoPromise
          ELSE {IF Holds(val[item.test]) THEN val[item.consequent] ELSE val[item.alternate]})
    [] item.type \in {"unary_add", "unary_sub", "unary_not", "unary_bnot"} -> UnaryAnswer(item.type, val[item.src])
    [] OTHER -> Loaded(item)

Elsewhere == {"call", "ret", "new", "this", "declvar", "load", "store", "object_get", "object_set",
              "array_push", "dynlib"}
Fresh == {"load_object", "load_array"}

(* A thing of its own: none that a variable holds.                         *)
IsFresh(v) == \A x \in DOMAIN val : val[x].type = v.type => val[x].is # v.is

----------------------------------------------------------------------------
Init ==
  /\ at = From(1) /\ ended = "running" /\ shown = <<>>
  /\ \A x \in DOMAIN val : Same(val[x], Undefined)

Item == items[at]
GoTo(k) == at' = From(k)
Keep(others) == DOMAIN val' = DOMAIN val /\ \A x \in others : Same(val'[x], val[x])
KeepAll == Keep(DOMAIN val) /\ UNCHANGED <<items, strings, shown>>

(* A variable gets the answer, or a new thing.                             *)
Set ==
  /\ ended = "running" /\ Item.type \notin Elsewhere
  /\ \E x \in Target(Item) :
       /\ Keep(DOMAIN val \ {x})
       /\ IF Item.type \in Fresh THEN IsFresh(val'[x])
          ELSE \E v \in Answer(Item) : Same(val'[x], v)
  /\ GoTo(at + 1)
  /\ UNCHANGED <<items, strings, shown, ended>>

(* Where nothing is promised the run ends or goes on with any value.       *)
Unpromised ==
  /\ ended = "running" /\ Item.type \notin Elsewhere \cup Fresh
  /\ \E x \in Target(Item) : Answer(Item) = NoPromise /\ Keep(DOMAIN val \ {x})
  /\ (GoTo(at + 1) /\ UNCHANGED ended) \/ ended' \in {"failed", "undefined"}
  /\ UNCHANGED <<items, strings, shown>>

Branch ==
  /\ ended = "running"
  /\ CASE Item.type = "br" -> GoTo(LabelAt(Item.dest))
       [] Item.type = "br_cond" ->
            (\/ Holds(val[Item.cond]) /\ GoTo(LabelAt(Item.dest))
             \/ (~Holds(val[Item.cond]) \/ val[Item.cond].type = "float") /\ GoTo(at + 1))
       [] Item.type = "nop" -> GoTo(at + 1)
       [] OTHER -> FALSE
  /\ KeepAll /\ UNCHANGED ended

Inspect ==
  /\ ended = "running" /\ Item.type = "inspect"
  /\ Len(shown') = Len(shown) + 1 /\ SubSeq(shown', 1, Len(shown)) = shown
  /\ Same(shown'[Len(shown')], val[Item.reg])
  /\ GoTo(at + 1)
  /\ Keep(DOMAIN val) /\ UNCHANGED <<items, strings, ended>>

End ==
  /\ ended = "running"
  /\ \/ Item.type = "halt" /\ ended' = "halted"
     \/ Item.type \in Elsewhere /\ ended' = "elsewhere"
  /\ KeepAll

Next == Set \/ Unpromised \/ Branch \/ Inspect \/ End
Spec == Init /\ [][Next]_vars
================================================================================
