-------------------------------- MODULE Objects --------------------------------
(***************************************************************************)
(* What the virtual machine promises about properties: an object maps keys *)
(* to values or getters, and looks further in its prototype, in the        *)
(* prototype of that, and so on.  null and undefined are one key; a float, *)
(* a function and an object are no keys that find anything.                *)
(***************************************************************************)
EXTENDS Naturals, Sequences

CONSTANTS Value, Proto, Prototype,        \* two keys that every object has
          Findable(_),                    \* whether a key finds what was set
          Name(_)                         \* one for keys that are the same

VARIABLES Keys,       \* the keys that the program uses
          object,     \* id -> [own, proto, prototype]; own: key -> [type, value]
          got,        \* what the last instruction was about and came to
          ended

vars == <<Keys, object, got, ended>>

IsThing(v) == v.type \in {"object", "function"} /\ v.is \in DOMAIN object

(* The object that answers for k when o is asked, 0 if there is none; the  *)
(* chain is as long as there are objects at most.                          *)
Answers(o, k) == k \in {Proto, Prototype} \/ (Findable(k) /\ Name(k) \in DOMAIN object[o].own)
Holder(o, k) ==
  LET search[n \in 0 .. Len(object)] ==
        [v \in Value |->
           IF n = 0 \/ ~IsThing(v) THEN 0
           ELSE IF Answers(v.is, k) THEN v.is
           ELSE search[n - 1][object[v.is].proto]]
  IN  search[Len(object)][o]

Entry(o, k) ==
  IF k = Proto THEN [type |-> "value", value |-> object[o].proto]
  ELSE IF k = Prototype THEN [type |-> "value", value |-> object[o].prototype]
  ELSE object[o].own[Name(k)]

(* A getter is asked on behalf of the object that was asked first.         *)
Get(o, k) ==
  /\ IsThing(o) /\ Holder(o, k) # 0
  /\ LET e == Entry(Holder(o, k), k)
     IN  /\ got'.op = "get" /\ got'.of = o /\ got'.key = k /\ got'.value = e.value
         /\ e.type = "getter" => got'.receiver = o
  /\ UNCHANGED <<object, ended>>

Missing(o, k) ==
  /\ IsThing(o) => Holder(o, k) = 0
  /\ ended' = "no property" /\ UNCHANGED object

Put(own, k, v) ==
  [n \in DOMAIN own \cup {Name(k)} |->
     IF n = Name(k) THEN [type |-> "value", value |-> v] ELSE own[n]]

(* The objects with v for k of the object in place o.                      *)
Assigned(o, k, v) ==
  CASE k = Proto -> [object EXCEPT ![o].proto = v]
    [] k = Prototype -> [object EXCEPT ![o].prototype = v]
    [] Findable(k) /\ k \notin {Proto, Prototype} -> [object EXCEPT ![o].own = Put(@, k, v)]
    [] OTHER -> object

Set(o, k) ==
  /\ IsThing(o)
  /\ got'.op = "set" /\ got'.of = o /\ got'.key = k /\ got'.value \in Value
  /\ object' = Assigned(o.is, k, got'.value)
  /\ UNCHANGED ended

(* New objects know nothing; one that is constructed looks further in the  *)
(* prototype of its constructor.                                           *)
Born ==
  /\ got'.op \in {"object", "function", "new"}
  /\ Len(object') > Len(object) /\ SubSeq(object', 1, Len(object)) = object
  /\ \A o \in Len(object) + 1 .. Len(object') : object'[o].own = <<>>
  /\ got'.op = "new" => object'[got'.value.is].proto = object[got'.of.is].prototype
  /\ UNCHANGED ended

(* No memory for an object: undefined instead.                             *)
Unborn == got'.op = "object" /\ got'.value.type = "undefined" /\ UNCHANGED <<object, ended>>

Else ==
  /\ \/ ended' \notin {"running", "no property"}
     \/ ended' = "running" /\ got'.op \notin {"get", "set", "object", "function", "new"}
  /\ UNCHANGED object

Begin == ended = "running"

ObjectsNext ==
  /\ ended = "running" /\ UNCHANGED Keys
  /\ \/ got'.op \in {"get", "set"} /\ (Get(got'.of, got'.key) \/ Set(got'.of, got'.key))
     \/ \E o \in Value, k \in Keys : Missing(o, k)
     \/ Born \/ Unborn \/ Else

ObjectsSpec == Begin /\ [][ObjectsNext]_vars
================================================================================
