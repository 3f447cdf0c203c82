----------------------------- MODULE NamesProofs -----------------------------
(***************************************************************************)
(* Proofs about variables and properties, for every program, however many  *)
(* environments and objects it makes: lists and trees are sound, the       *)
(* environments are lexical scopes, and the lists of properties with the   *)
(* search along the prototypes are objects as maps.                        *)
(***************************************************************************)
EXTENDS Names, Lemmas

AnyKey == {Undefined, Call} \cup UNION {p.keys : p \in Programs}
VarRecord == [name : Symbols, value : Values]
EnvRecord == [parent : Nat, vars : Seq(VarRecord)]
PropRecord == [key : AnyKey, type : {"value", "getter"}, value : Values]
ThingRecord ==
  [type : {"object", "function"}, props : Seq(PropRecord), proto : Values, prototype : Values, env : Nat]
FrameRecord == [env : Nat, this : Values, type : {"CALL", "NEW"}, args : Seq(Values)]
LookRecord == [on : BOOLEAN, obj : Values, key : AnyKey, cur : Values]

(* No two entries of a list are found by one name or key.                  *)
UniqueVars(list) == \A i, j \in 1 .. Len(list) : list[i].name = list[j].name => i = j
UniqueProps(list) == \A i, j \in 1 .. Len(list) : Eq2(list[i].key, list[j].key) => i = j

(* A value that a search goes on with is none of a thing, or of one of the *)
(* first n.                                                                *)
Within(v, n) == IsThing(v) => v.is \in 1 .. n

EnvsOK(es) ==
  /\ es \in Seq(EnvRecord)
  /\ \A e \in 1 .. Len(es) : es[e].parent \in 0 .. e - 1 /\ UniqueVars(es[e].vars)

(* A thing among n things and m environments.                              *)
ThingOK(t, n, m) ==
  /\ t \in ThingRecord /\ UniqueProps(t.props)
  /\ Within(t.proto, n) /\ Within(t.prototype, n)
  /\ IF t.type = "function" THEN t.env \in 1 .. m ELSE t.env = 0

ThingsOK(ts, m) ==
  /\ ts \in Seq(ThingRecord) /\ Len(ts) <= MaxThings
  /\ \A u \in 1 .. Len(ts) : ThingOK(ts[u], Len(ts), m)

FramesOK(fs, m) ==
  /\ fs \in Seq(FrameRecord) /\ Len(fs) > 0
  /\ \A i \in 1 .. Len(fs) : fs[i].env \in 1 .. m
  /\ \A i, j \in 1 .. Len(fs) : i # j => fs[i].env # fs[j].env

LookOK(l, n) == l \in LookRecord /\ Within(l.cur, n)

NamesInv ==
  /\ program \in Programs
  /\ EnvsOK(envs)
  /\ ThingsOK(things, Len(envs)) /\ Len(things) > 2
  /\ FramesOK(frames, Len(envs))
  /\ LookOK(looking, Len(things))
  /\ status \in {"running", "failed", "no variable", "no property", "corrupted"}

(***************************************************************************)
(* What a search in a list finds.                                          *)
(***************************************************************************)
LEMMA Smallest ==
  ASSUME NEW I \in SUBSET Nat, I # {}
  PROVE  Min(I) \in I
<1>1. \E x \in I : \A y \in I : ~(<<y, x>> \in OpToRel(<, Nat))
  BY NatLessThanWellFounded, WFMin
<1>2. \A x, y \in I : x \in Nat /\ y \in Nat
  OBVIOUS
<1>3. \A x, y \in I : y < x => <<y, x>> \in OpToRel(<, Nat)
  BY <1>2, LessIsRelated, Zenon
<1>4. \E x \in I : \A y \in I : ~(y < x)
  BY <1>1, <1>3, Zenon
<1>5. \E x \in I : \A y \in I : x <= y
  BY <1>2, <1>4
<1> QED
  BY <1>5 DEF Min

LEMMA PlaceFacts ==
  ASSUME NEW S, NEW list \in Seq(S), NEW name
  PROVE  /\ PlaceOf(list, name) \in 0 .. Len(list)
         /\ PlaceOf(list, name) # 0 => list[PlaceOf(list, name)].name = name
         /\ PlaceOf(list, name) = 0 => \A i \in 1 .. Len(list) : list[i].name # name
<1> DEFINE I == {i \in 1 .. Len(list) : list[i].name = name}
<1>1. Len(list) \in Nat
  BY LenProperties
<1>2. I \in SUBSET Nat
  BY <1>1
<1>3. I # {} => Min(I) \in I
  <2> HIDE DEF I
  <2> QED
    BY <1>2, Smallest
<1>4. PlaceOf(list, name) = IF I # {} THEN Min(I) ELSE 0
  BY DEF PlaceOf, SelectInSeq
<1>5. CASE I = {}
  BY <1>1, <1>4, <1>5
<1>6. CASE I # {}
  <2>1. PlaceOf(list, name) \in I
    BY <1>3, <1>4, <1>6
  <2> QED
    BY <1>1, <2>1
<1> QED
  BY <1>5, <1>6

LEMMA EntryFacts ==
  ASSUME NEW S, NEW list \in Seq(S), NEW key
  PROVE  /\ EntryOf(list, key) \in 0 .. Len(list)
         /\ EntryOf(list, key) = 0 => \A i \in 1 .. Len(list) : ~Eq2(list[i].key, key)
<1> DEFINE I == {i \in 1 .. Len(list) : Eq2(list[i].key, key)}
<1>1. Len(list) \in Nat
  BY LenProperties
<1>2. I \in SUBSET Nat
  BY <1>1
<1>3. I # {} => Min(I) \in I
  <2> HIDE DEF I
  <2> QED
    BY <1>2, Smallest
<1>4. EntryOf(list, key) = IF I # {} THEN Min(I) ELSE 0
  BY DEF EntryOf, SelectInSeq
<1>5. CASE I = {}
  BY <1>1, <1>4, <1>5
<1>6. CASE I # {}
  <2>1. EntryOf(list, key) \in I
    BY <1>3, <1>4, <1>6
  <2> QED
    BY <1>1, <2>1
<1> QED
  BY <1>5, <1>6

(***************************************************************************)
(* Environments after a change.                                            *)
(***************************************************************************)
LEMMA UndefinedIsValue == Undefined \in Values /\ Null \in Values /\ Literals \subseteq Values
BY DEF Values

LEMMA VarsPut ==
  ASSUME NEW es, EnvsOK(es), NEW e \in 1 .. Len(es),
         NEW list \in Seq(VarRecord), UniqueVars(list)
  PROVE  EnvsOK([es EXCEPT ![e].vars = list]) /\ Len([es EXCEPT ![e].vars = list]) = Len(es)
<1> DEFINE r == [es[e] EXCEPT !.vars = list]
<1>1. es \in Seq(EnvRecord) /\ Len(es) \in Nat /\ DOMAIN es = 1 .. Len(es)
  BY LenProperties DEF EnvsOK
<1>2. es[e] \in EnvRecord
  BY <1>1, ElementOfSeq
<1>3. r \in EnvRecord /\ r.parent = es[e].parent /\ r.vars = list
  BY <1>2 DEF EnvRecord
<1> HIDE DEF r
<1>4. /\ [es EXCEPT ![e] = r] \in Seq(EnvRecord) /\ Len([es EXCEPT ![e] = r]) = Len(es)
      /\ \A j \in 1 .. Len(es) : [es EXCEPT ![e] = r][j] = IF j = e THEN r ELSE es[j]
  BY <1>1, <1>3, ExceptSeq
<1>5. EnvsOK([es EXCEPT ![e] = r])
  BY <1>1, <1>3, <1>4 DEF EnvsOK
<1>6. [es EXCEPT ![e].vars = list] = [es EXCEPT ![e] = r]
  BY DEF r
<1> QED
  BY <1>4, <1>5, <1>6

(* A variable that is there keeps its name when its value changes.         *)
LEMMA VarReplaced ==
  ASSUME NEW list \in Seq(VarRecord), UniqueVars(list), NEW k \in 1 .. Len(list),
         NEW name \in Symbols, NEW value \in Values, list[k].name = name
  PROVE  /\ ReplaceAt(list, k, [name |-> name, value |-> value]) \in Seq(VarRecord)
         /\ UniqueVars(ReplaceAt(list, k, [name |-> name, value |-> value]))
<1> DEFINE r == [name |-> name, value |-> value]
<1>1. r \in VarRecord /\ r.name = name
  BY DEF VarRecord
<1> HIDE DEF r
<1>2. /\ [list EXCEPT ![k] = r] \in Seq(VarRecord) /\ Len([list EXCEPT ![k] = r]) = Len(list)
      /\ \A j \in 1 .. Len(list) : [list EXCEPT ![k] = r][j] = IF j = k THEN r ELSE list[j]
  BY <1>1, ExceptSeq
<1>3. ReplaceAt(list, k, r) = [list EXCEPT ![k] = r]
  BY DEF ReplaceAt
<1>4. UniqueVars(ReplaceAt(list, k, r))
  BY <1>1, <1>2, <1>3 DEF UniqueVars
<1> QED
  BY <1>2, <1>3, <1>4 DEF r

(* A variable that is not there comes behind the others.                   *)
LEMMA VarAppended ==
  ASSUME NEW list \in Seq(VarRecord), UniqueVars(list),
         NEW name \in Symbols, NEW value \in Values, \A i \in 1 .. Len(list) : list[i].name # name
  PROVE  /\ Append(list, [name |-> name, value |-> value]) \in Seq(VarRecord)
         /\ UniqueVars(Append(list, [name |-> name, value |-> value]))
<1> DEFINE r == [name |-> name, value |-> value]
<1>1. r \in VarRecord /\ r.name = name
  BY DEF VarRecord
<1> HIDE DEF r
<1>2. /\ Append(list, r) \in Seq(VarRecord) /\ Len(Append(list, r)) = Len(list) + 1 /\ Len(list) \in Nat
      /\ \A j \in 1 .. Len(list) : Append(list, r)[j] = list[j]
      /\ Append(list, r)[Len(list) + 1] = r
  BY <1>1, AppendProperties, LenProperties
<1>3. UniqueVars(Append(list, r))
  BY <1>1, <1>2 DEF UniqueVars
<1> QED
  BY <1>2, <1>3 DEF r

LEMMA VarsOf1 ==
  ASSUME NEW es, EnvsOK(es), NEW e \in 1 .. Len(es)
  PROVE  es[e].vars \in Seq(VarRecord) /\ UniqueVars(es[e].vars)
<1>1. es[e] \in EnvRecord
  BY ElementOfSeq DEF EnvsOK
<1> QED
  BY <1>1 DEF EnvRecord, EnvsOK

(* A declaration adds what is not there and changes what is.               *)
LEMMA SetVarKeeps ==
  ASSUME EnvsOK(envs), NEW e \in 1 .. Len(envs),
         NEW name \in Symbols, NEW value \in Values, NEW room
  PROVE  EnvsOK(SetVar(e, name, value, room).envs) /\ Len(SetVar(e, name, value, room).envs) = Len(envs)
<1> DEFINE list == envs[e].vars
           k == PlaceOf(list, name)
           r == [name |-> name, value |-> value]
           put == IF k # 0 THEN ReplaceAt(list, k, r) ELSE IF room THEN Append(list, r) ELSE list
<1>1. list \in Seq(VarRecord) /\ UniqueVars(list)
  BY VarsOf1
<1>2. /\ k \in 0 .. Len(list) /\ Len(list) \in Nat
      /\ k # 0 => list[k].name = name
      /\ k = 0 => \A i \in 1 .. Len(list) : list[i].name # name
  <2> HIDE DEF list
  <2> QED
    BY <1>1, PlaceFacts, LenProperties
<1>3. put \in Seq(VarRecord) /\ UniqueVars(put)
  <2> HIDE DEF list, k
  <2>1. CASE k # 0
    <3>1. k \in 1 .. Len(list)
      BY <1>2, <2>1
    <3>2. ReplaceAt(list, k, r) \in Seq(VarRecord) /\ UniqueVars(ReplaceAt(list, k, r))
      BY <1>1, <1>2, <2>1, <3>1, VarReplaced
    <3> QED
      BY <2>1, <3>2
  <2>2. CASE k = 0
    <3>1. Append(list, r) \in Seq(VarRecord) /\ UniqueVars(Append(list, r))
      BY <1>1, <1>2, <2>2, VarAppended
    <3> QED
      BY <1>1, <2>2, <3>1
  <2> QED
    BY <2>1, <2>2
<1>4. SetVar(e, name, value, room).envs = [envs EXCEPT ![e].vars = put]
  BY DEF SetVar
<1> HIDE DEF put
<1> QED
  BY <1>3, <1>4, VarsPut

(* An assignment changes one variable at most, wherever it is found.       *)
LEMMA AssignedKeeps ==
  ASSUME NEW es, EnvsOK(es), NEW e, NEW name \in Symbols, NEW value \in Values
  PROVE  EnvsOK(Assigned(es, e, name, value)) /\ Len(Assigned(es, e, name, value)) = Len(es)
<1>1. es \in Seq(EnvRecord) /\ DOMAIN es = 1 .. Len(es) /\ es \in [1 .. Len(es) -> EnvRecord]
  BY LenProperties DEF EnvsOK
<1>2. CASE e \notin 1 .. Len(es)
  <2>1. Assigned(es, e, name, value) = es
    BY <1>1, <1>2 DEF Assigned
  <2> QED
    BY <2>1
<1>3. CASE e \in 1 .. Len(es)
  <2> DEFINE list == es[e].vars
             k == PlaceOf(list, name)
             put == ReplaceAt(list, k, [name |-> name, value |-> value])
  <2>1. list \in Seq(VarRecord) /\ UniqueVars(list)
    BY <1>3, VarsOf1
  <2>2. k \in 0 .. Len(list) /\ Len(list) \in Nat /\ (k # 0 => list[k].name = name)
    <3> HIDE DEF list
    <3> QED
      BY <2>1, PlaceFacts, LenProperties
  <2>3. put \in Seq(VarRecord) /\ UniqueVars(put)
    <3> HIDE DEF list, k
    <3>1. CASE k # 0
      <4>1. k \in 1 .. Len(list)
        BY <2>2, <3>1
      <4> QED
        BY <2>1, <2>2, <3>1, <4>1, VarReplaced
    <3>2. CASE k = 0
      <4>1. list \in [1 .. Len(list) -> VarRecord] /\ k \notin 1 .. Len(list)
        BY <2>1, <3>2, LenProperties
      <4>2. put = list
        BY <4>1 DEF ReplaceAt
      <4> QED
        BY <2>1, <4>2
    <3> QED
      BY <3>1, <3>2
  <2>4. Assigned(es, e, name, value) = [es EXCEPT ![e].vars = put]
    BY DEF Assigned
  <2>5. EnvsOK([es EXCEPT ![e].vars = put]) /\ Len([es EXCEPT ![e].vars = put]) = Len(es)
    <3> HIDE DEF list, k, put
    <3> QED
      BY <1>3, <2>3, VarsPut
  <2> QED
    BY <2>4, <2>5, Zenon
<1> QED
  BY <1>2, <1>3

(* An environment that is made lies within one that there is.              *)
LEMMA EnvAppended ==
  ASSUME NEW es, EnvsOK(es), NEW p \in 0 .. Len(es)
  PROVE  EnvsOK(Append(es, NewEnv(p))) /\ Len(Append(es, NewEnv(p))) = Len(es) + 1
<1> DEFINE r == NewEnv(p)
<1>1. es \in Seq(EnvRecord) /\ Len(es) \in Nat
  BY LenProperties DEF EnvsOK
<1>2. r \in EnvRecord /\ r.parent = p /\ r.vars = <<>>
  BY <1>1, EmptySeq DEF NewEnv, EnvRecord
<1>3. UniqueVars(r.vars)
  BY <1>2 DEF UniqueVars
<1> HIDE DEF r
<1>4. /\ Append(es, r) \in Seq(EnvRecord) /\ Len(Append(es, r)) = Len(es) + 1
      /\ \A j \in 1 .. Len(es) : Append(es, r)[j] = es[j]
      /\ Append(es, r)[Len(es) + 1] = r
  BY <1>1, <1>2, AppendProperties
<1>5. EnvsOK(Append(es, r))
  BY <1>1, <1>2, <1>3, <1>4 DEF EnvsOK
<1> QED
  BY <1>4, <1>5 DEF r

(***************************************************************************)
(* Things after a change.                                                  *)
(***************************************************************************)

(* Nothing that is well made is broken when there is more.                 *)
LEMMA ThingStays ==
  ASSUME NEW n \in Nat, NEW m \in Nat, NEW n2 \in Nat, NEW m2 \in Nat, n <= n2, m <= m2,
         NEW t, ThingOK(t, n, m)
  PROVE  ThingOK(t, n2, m2)
BY DEF ThingOK, Within

(* Things stay well made when others come behind them.                     *)
LEMMA ThingsGrow ==
  ASSUME NEW ts, NEW ts2 \in Seq(ThingRecord), NEW m \in Nat, NEW m2 \in Nat, ThingsOK(ts, m), m <= m2,
         Len(ts) <= Len(ts2), Len(ts2) <= MaxThings,
         \A u \in 1 .. Len(ts) : ts2[u] = ts[u],
         \A u \in Len(ts) + 1 .. Len(ts2) : ThingOK(ts2[u], Len(ts2), m2)
  PROVE  ThingsOK(ts2, m2)
<1>1. Len(ts) \in Nat /\ Len(ts2) \in Nat
  BY LenProperties DEF ThingsOK
<1>2. ASSUME NEW u \in 1 .. Len(ts2) PROVE ThingOK(ts2[u], Len(ts2), m2)
  <2>1. CASE u \in 1 .. Len(ts)
    <3>1. ThingOK(ts[u], Len(ts), m)
      BY <2>1 DEF ThingsOK
    <3>2. ThingOK(ts[u], Len(ts2), m2)
      BY <1>1, <3>1, ThingStays
    <3> QED
      BY <2>1, <3>2
  <2>2. CASE u \notin 1 .. Len(ts)
    BY <1>1, <2>2
  <2> QED
    BY <2>1, <2>2
<1> QED
  BY <1>2 DEF ThingsOK

LEMMA ThingsStay ==
  ASSUME NEW ts, NEW m \in Nat, NEW m2 \in Nat, ThingsOK(ts, m), m <= m2
  PROVE  ThingsOK(ts, m2)
<1>1. ts \in Seq(ThingRecord) /\ Len(ts) \in Nat
  BY LenProperties DEF ThingsOK
<1>2. ASSUME NEW u \in 1 .. Len(ts) PROVE ThingOK(ts[u], Len(ts), m2)
  BY <1>1, ThingStays DEF ThingsOK
<1> QED
  BY <1>2 DEF ThingsOK

(* One thing may be exchanged for another that is well made.               *)
LEMMA ThingChanged ==
  ASSUME NEW ts, NEW m \in Nat, ThingsOK(ts, m), NEW u \in 1 .. Len(ts), NEW t, ThingOK(t, Len(ts), m)
  PROVE  ThingsOK([ts EXCEPT ![u] = t], m) /\ Len([ts EXCEPT ![u] = t]) = Len(ts)
<1>1. ts \in Seq(ThingRecord) /\ t \in ThingRecord
  BY DEF ThingsOK, ThingOK
<1>2. /\ [ts EXCEPT ![u] = t] \in Seq(ThingRecord) /\ Len([ts EXCEPT ![u] = t]) = Len(ts)
      /\ \A j \in 1 .. Len(ts) : [ts EXCEPT ![u] = t][j] = IF j = u THEN t ELSE ts[j]
  BY <1>1, ExceptSeq
<1> QED
  BY <1>2 DEF ThingsOK

(* What is made with prototypes that there are is well made.               *)
LEMMA NewThingOK ==
  ASSUME NEW n \in Nat, NEW m \in Nat, NEW proto \in Values, NEW prototype \in Values,
         Within(proto, n), Within(prototype, n),
         NEW type \in {"object", "function"}, NEW env,
         IF type = "function" THEN env \in 1 .. m ELSE env = 0
  PROVE  ThingOK(NewThing(type, proto, prototype, env), n, m)
<1> DEFINE t == NewThing(type, proto, prototype, env)
<1>1. t \in ThingRecord
  BY EmptySeq DEF NewThing, ThingRecord
<1>2. UniqueProps(t.props)
  BY DEF NewThing, UniqueProps
<1> QED
  BY <1>1, <1>2 DEF ThingOK, NewThing

LEMMA EqualBothWays ==
  ASSUME NEW k, NEW l, Eq2(k, l)
  PROVE  Eq2(l, k)
BY DEF Eq2

(* Whatever is set, a list has one entry for all keys that compare equal.  *)
LEMMA PropertiesSetKeeps ==
  ASSUME NEW n \in Nat, NEW m \in Nat, NEW t, ThingOK(t, n, m),
         NEW key \in AnyKey, NEW value \in Values, Within(value, n)
  PROVE  ThingOK(PropertiesSet(t, key, value), n, m)
<1> DEFINE list == t.props
           k == EntryOf(list, key)
           new == [key |-> key, type |-> "value", value |-> value]
<1>1. t \in ThingRecord /\ list \in Seq(PropRecord) /\ UniqueProps(list)
  BY DEF ThingOK, ThingRecord
<1>2. CASE key = Proto
  <2>1. PropertiesSet(t, key, value) = [t EXCEPT !.proto = value]
    BY <1>2, Proto # Prototype DEF PropertiesSet, Proto, Prototype, Str
  <2> QED
    BY <1>1, <2>1 DEF ThingOK, ThingRecord
<1>3. CASE key = Prototype /\ key # Proto
  <2>1. PropertiesSet(t, key, value) = [t EXCEPT !.prototype = value]
    BY <1>3 DEF PropertiesSet
  <2> QED
    BY <1>1, <2>1 DEF ThingOK, ThingRecord
<1>4. /\ k \in 0 .. Len(list) /\ Len(list) \in Nat
      /\ k = 0 => \A i \in 1 .. Len(list) : ~Eq2(list[i].key, key)
  <2> HIDE DEF list
  <2> QED
    BY <1>1, EntryFacts, LenProperties
<1>5. ASSUME NEW other \in Seq(PropRecord), UniqueProps(other)
      PROVE  ThingOK([t EXCEPT !.props = other], n, m)
  BY <1>1, <1>5 DEF ThingOK, ThingRecord
<1>6. CASE key \notin {Proto, Prototype} /\ k # 0
  <2> DEFINE r == [list[k] EXCEPT !.type = "value", !.value = value]
             put == [list EXCEPT ![k] = r]
  <2>1. k \in 1 .. Len(list)
    BY <1>4, <1>6
  <2>2. list[k] \in PropRecord
    BY <1>1, <2>1, ElementOfSeq
  <2>3. r \in PropRecord /\ r.key = list[k].key
    BY <2>2 DEF PropRecord
  <2>4. /\ put \in Seq(PropRecord) /\ Len(put) = Len(list)
        /\ \A j \in 1 .. Len(list) : put[j] = IF j = k THEN r ELSE list[j]
    <3> HIDE DEF list, k, r
    <3> QED
      BY <1>1, <2>1, <2>3, ExceptSeq
  <2>5. UniqueProps(put)
    <3> HIDE DEF list, k, r, put
    <3> QED
      BY <1>1, <2>1, <2>3, <2>4 DEF UniqueProps
  <2>6. ThingOK([t EXCEPT !.props = put], n, m)
    <3> HIDE DEF put
    <3> QED
      BY <1>5, <2>4, <2>5
  <2>7. PropertiesSet(t, key, value) = [t EXCEPT !.props[k].type = "value", !.props[k].value = value]
    BY <1>6 DEF PropertiesSet
  <2>8. [t EXCEPT !.props[k].type = "value", !.props[k].value = value] = [t EXCEPT !.props = put]
    BY <1>1, <2>1, <2>2 DEF ThingRecord, PropRecord
  <2> QED
    BY <2>6, <2>7, <2>8, Zenon
<1>7. CASE key \notin {Proto, Prototype} /\ k = 0
  <2>1. new \in PropRecord /\ new.key = key
    BY DEF PropRecord
  <2>2. /\ Append(list, new) \in Seq(PropRecord) /\ Len(Append(list, new)) = Len(list) + 1
        /\ \A j \in 1 .. Len(list) : Append(list, new)[j] = list[j]
        /\ Append(list, new)[Len(list) + 1] = new
    <3> HIDE DEF list, new
    <3> QED
      BY <1>1, <2>1, AppendProperties
  <2>3. \A i \in 1 .. Len(list) : ~Eq2(list[i].key, key) /\ ~Eq2(key, list[i].key)
    BY <1>4, <1>7, EqualBothWays
  <2>4. UniqueProps(Append(list, new))
    <3> DEFINE more == Append(list, new)
    <3>1. Len(list) \in Nat /\ Len(more) = Len(list) + 1 /\ UniqueProps(list)
      BY <1>1, <1>4, <2>2
    <3>2. more[Len(list) + 1].key = key /\ \A i \in 1 .. Len(list) : more[i] = list[i]
      BY <2>1, <2>2
    <3> HIDE DEF list, k, new, more
    <3>3. ASSUME NEW i \in 1 .. Len(more), NEW j \in 1 .. Len(more), Eq2(more[i].key, more[j].key)
          PROVE  i = j
      <4>1. CASE i \in 1 .. Len(list) /\ j \in 1 .. Len(list)
        BY <3>1, <3>2, <3>3, <4>1 DEF UniqueProps
      <4>2. CASE i = Len(list) + 1 /\ j \in 1 .. Len(list)
        BY <2>3, <3>2, <3>3, <4>2
      <4>3. CASE i \in 1 .. Len(list) /\ j = Len(list) + 1
        BY <2>3, <3>2, <3>3, <4>3
      <4>4. CASE i = Len(list) + 1 /\ j = Len(list) + 1
        BY <4>4
      <4> QED
        BY <3>1, <4>1, <4>2, <4>3, <4>4
    <3> QED
      BY <3>3 DEF UniqueProps, more
  <2>5. ThingOK([t EXCEPT !.props = Append(list, new)], n, m)
    <3>1. Append(list, new) \in Seq(PropRecord) /\ UniqueProps(Append(list, new))
      BY <2>2, <2>4
    <3> HIDE DEF list, new
    <3> QED
      BY <1>5, <3>1
  <2>6. PropertiesSet(t, key, value) = [t EXCEPT !.props = Append(list, new)]
    BY <1>7 DEF PropertiesSet
  <2> QED
    BY <2>5, <2>6, Zenon
<1> QED
  BY <1>2, <1>3, <1>6, <1>7

(***************************************************************************)
(* What the instructions take.                                             *)
(***************************************************************************)
LEMMA Parts ==
  ASSUME NamesInv
  PROVE  /\ program \in Programs /\ EnvsOK(envs)
         /\ ThingsOK(things, Len(envs)) /\ Len(things) > 2
         /\ FramesOK(frames, Len(envs)) /\ LookOK(looking, Len(things))
         /\ status \in {"running", "failed", "no variable", "no property", "corrupted"}
BY DEF NamesInv

LEMMA Counts ==
  ASSUME NamesInv
  PROVE  /\ Len(envs) \in Nat /\ Len(things) \in Nat /\ Len(frames) \in Nat
         /\ DOMAIN envs = 1 .. Len(envs) /\ DOMAIN things = 1 .. Len(things)
         /\ MaxThings \in Nat /\ Len(things) <= MaxThings /\ program.max.things \in 0 .. MaxThings
BY LenProperties, NamesAssumption DEF NamesInv, EnvsOK, ThingsOK, FramesOK

(* The call that runs has an environment.                                  *)
LEMMA RunningFacts ==
  ASSUME NamesInv
  PROVE  Running \in FrameRecord /\ Running.env \in 1 .. Len(envs)
<1>0. Len(frames) \in Nat
  BY Counts
<1>01. FramesOK(frames, Len(envs))
  BY DEF NamesInv
<1>1. frames \in Seq(FrameRecord) /\ Len(frames) \in 1 .. Len(frames)
  BY <1>0, <1>01 DEF FramesOK
<1>2. frames[Len(frames)] \in FrameRecord
  BY <1>1, ElementOfSeq
<1>3. frames[Len(frames)].env \in 1 .. Len(envs)
  BY <1>1 DEF NamesInv, FramesOK
<1> QED
  BY <1>2, <1>3 DEF Running

(* A literal is no thing, and what is at hand besides is there.            *)
LEMMA LiteralFacts ==
  ASSUME NEW v \in Literals, NEW n
  PROVE  v \in Values /\ Within(v, n) /\ ~IsThing(v)
BY NamesAssumption DEF Values, Within, IsThing

LEMMA AtHandFacts ==
  ASSUME NamesInv, NEW v \in AtHand
  PROVE  /\ v \in Values /\ Within(v, Len(things))
         /\ IsFunction(v) => v.is \in 1 .. Len(things) /\ things[v.is].type = "function"
<1>1. CASE v \in Literals
  BY <1>1, LiteralFacts DEF IsFunction, IsThing
<1>2. CASE v \notin Literals
  <2>1. PICK u \in 1 .. Len(things) : v = Thing(u)
    BY <1>2, Counts DEF AtHand
  <2>2. things[u] \in ThingRecord
    BY <2>1, ElementOfSeq DEF NamesInv, ThingsOK
  <2>3. v.type = things[u].type /\ v.is = u /\ v \in [type : {"object", "function"}, is : 1 .. MaxThings]
    <3>1. u \in 1 .. MaxThings
      BY Counts
    <3> QED
      BY <2>1, <2>2, <3>1 DEF Thing, ThingRecord
  <2> QED
    BY <2>1, <2>3 DEF Values, Within, IsFunction
<1> QED
  BY <1>1, <1>2

(* A function knows the environment it was made with.                      *)
LEMMA ThingFacts ==
  ASSUME NamesInv, NEW u \in 1 .. Len(things)
  PROVE  /\ things[u] \in ThingRecord
         /\ ThingOK(things[u], Len(things), Len(envs))
         /\ things[u].proto \in Values /\ things[u].prototype \in Values
         /\ things[u].type = "function" => things[u].env \in 1 .. Len(envs)
<1>1. ThingOK(things[u], Len(things), Len(envs))
  BY DEF NamesInv, ThingsOK
<1> QED
  BY <1>1 DEF ThingOK, ThingRecord

LEMMA KeyFacts ==
  ASSUME NamesInv, NEW k \in program.keys
  PROVE  k \in AnyKey
BY DEF NamesInv, AnyKey

(***************************************************************************)
(* Calls.                                                                  *)
(***************************************************************************)
LEMMA FramesStay ==
  ASSUME NEW fs, NEW m \in Nat, NEW m2 \in Nat, m <= m2, FramesOK(fs, m)
  PROVE  FramesOK(fs, m2)
BY DEF FramesOK

(* A call has the environment that was made for it.                        *)
LEMMA FramePushed ==
  ASSUME NEW fs, NEW m \in Nat, FramesOK(fs, m), NEW f \in FrameRecord, f.env = m + 1
  PROVE  FramesOK(Append(fs, f), m + 1)
<1>1. fs \in Seq(FrameRecord) /\ Len(fs) \in Nat
  BY LenProperties DEF FramesOK
<1>2. /\ Append(fs, f) \in Seq(FrameRecord) /\ Len(Append(fs, f)) = Len(fs) + 1
      /\ \A j \in 1 .. Len(fs) : Append(fs, f)[j] = fs[j]
      /\ Append(fs, f)[Len(fs) + 1] = f
  BY <1>1, AppendProperties
<1>3. \A i \in 1 .. Len(fs) : fs[i].env \in 1 .. m
  BY DEF FramesOK
<1> QED
  BY <1>1, <1>2, <1>3 DEF FramesOK

LEMMA FramePopped ==
  ASSUME NEW fs, NEW m \in Nat, FramesOK(fs, m), Len(fs) > 1
  PROVE  FramesOK(Front(fs), m)
<1>1. fs \in Seq(FrameRecord) /\ Len(fs) \in Nat
  BY LenProperties DEF FramesOK
<1>2. \A i \in 1 .. Len(fs) - 1 : fs[i] \in FrameRecord
  BY <1>1, ElementOfSeq
<1>3. /\ Front(fs) \in Seq(FrameRecord) /\ Len(Front(fs)) = Len(fs) - 1
      /\ \A i \in 1 .. Len(fs) - 1 : Front(fs)[i] = fs[i]
  BY <1>1, <1>2, SubSeqProperties DEF Front
<1> QED
  BY <1>1, <1>3 DEF FramesOK

(***************************************************************************)
(* One instruction after the other.                                        *)
(***************************************************************************)
LEMMA StopKeeps ==
  ASSUME NamesInv, NEW why \in {"failed", "no variable", "no property", "corrupted"}, Stop(why),
         program' = program, looking' = looking
  PROVE  NamesInv'
BY DEF NamesInv, Stop

LEMMA EnvsKeep ==
  ASSUME NamesInv, EnvsOK(envs'), Len(envs') = Len(envs),
         UNCHANGED <<program, things, frames, looking, status>>
  PROVE  NamesInv'
BY DEF NamesInv

LEMMA DeclVarKeeps ==
  ASSUME NamesInv, NEW name \in Symbols, OpDeclVar(name)
  PROVE  NamesInv'
<1>1. PICK room : \/ /\ envs' = SetVar(Running.env, name, Undefined, room).envs
                     /\ UNCHANGED <<things, frames, status>>
                  \/ Stop("failed")
  BY DEF OpDeclVar
<1>2. UNCHANGED <<program, looking>>
  BY DEF OpDeclVar
<1>3. EnvsOK(envs)
  BY DEF NamesInv
<1>4. CASE envs' = SetVar(Running.env, name, Undefined, room).envs /\ UNCHANGED <<things, frames, status>>
  <2>1. EnvsOK(envs') /\ Len(envs') = Len(envs)
    BY <1>3, <1>4, RunningFacts, UndefinedIsValue, SetVarKeeps
  <2> QED
    BY <1>2, <1>4, <2>1, EnvsKeep
<1>5. CASE Stop("failed")
  BY <1>2, <1>5, StopKeeps
<1> QED
  BY <1>1, <1>4, <1>5

LEMMA LoadKeeps ==
  ASSUME NamesInv, NEW name \in Symbols, OpLoad(name)
  PROVE  NamesInv'
<1>1. UNCHANGED <<program, looking>> /\ (Stop("no variable") \/ UNCHANGED <<envs, things, frames, status>>)
  BY DEF OpLoad
<1>2. CASE Stop("no variable")
  BY <1>1, <1>2, StopKeeps
<1>3. CASE UNCHANGED <<envs, things, frames, status>>
  BY <1>1, <1>3, EnvsKeep DEF NamesInv
<1> QED
  BY <1>1, <1>2, <1>3

LEMMA StoreKeeps ==
  ASSUME NamesInv, NEW name \in Symbols, NEW value \in Literals, OpStore(name, value)
  PROVE  NamesInv'
<1>1. UNCHANGED <<program, looking>>
  BY DEF OpStore
<1>2. PICK e : Stop("no variable") \/ (envs' = Assigned(envs, e, name, value) /\ UNCHANGED <<things, frames, status>>)
  BY DEF OpStore
<1>3. EnvsOK(envs)
  BY DEF NamesInv
<1>4. CASE Stop("no variable")
  BY <1>1, <1>4, StopKeeps
<1>5. CASE envs' = Assigned(envs, e, name, value) /\ UNCHANGED <<things, frames, status>>
  <2>1. EnvsOK(envs') /\ Len(envs') = Len(envs)
    BY <1>3, <1>5, LiteralFacts, AssignedKeeps
  <2> QED
    BY <1>1, <1>5, <2>1, EnvsKeep
<1> QED
  BY <1>2, <1>4, <1>5

LEMMA ArgKeeps ==
  ASSUME NamesInv, NEW name \in Symbols, NEW idx \in Nat, OpArg(name, idx)
  PROVE  NamesInv'
<1> DEFINE value == IF idx < Len(Running.args) THEN Running.args[idx + 1] ELSE Undefined
<1>1. UNCHANGED <<program, looking>>
  BY DEF OpArg
<1>2. PICK room, e :
        \/ Stop("failed") \/ Stop("no variable")
        \/ /\ envs' = Assigned(SetVar(Running.env, name, Undefined, room).envs, e, name, value)
           /\ UNCHANGED <<things, frames, status>>
  BY DEF OpArg
<1>3. EnvsOK(envs)
  BY DEF NamesInv
<1>4. CASE Stop("failed") \/ Stop("no variable")
  BY <1>1, <1>4, StopKeeps
<1>5. CASE /\ envs' = Assigned(SetVar(Running.env, name, Undefined, room).envs, e, name, value)
           /\ UNCHANGED <<things, frames, status>>
  <2> DEFINE es == SetVar(Running.env, name, Undefined, room).envs
  <2>1. EnvsOK(es) /\ Len(es) = Len(envs)
    BY <1>3, RunningFacts, UndefinedIsValue, SetVarKeeps
  <2>2. value \in Values
    <3>1. Running.args \in Seq(Values)
      BY RunningFacts DEF FrameRecord
    <3>2. CASE idx < Len(Running.args)
      <4>1. idx + 1 \in 1 .. Len(Running.args)
        BY <3>1, <3>2, LenProperties
      <4> QED
        BY <3>1, <3>2, <4>1, ElementOfSeq
    <3> QED
      BY <3>2, UndefinedIsValue
  <2>3. EnvsOK(envs') /\ Len(envs') = Len(envs)
    <3> HIDE DEF es, value
    <3>1. EnvsOK(Assigned(es, e, name, value)) /\ Len(Assigned(es, e, name, value)) = Len(es)
      BY <2>1, <2>2, AssignedKeeps
    <3>2. envs' = Assigned(es, e, name, value)
      BY <1>5 DEF es, value
    <3> QED
      BY <2>1, <3>1, <3>2
  <2> QED
    BY <1>1, <1>5, <2>3, EnvsKeep
<1> QED
  BY <1>2, <1>4, <1>5

LEMMA ObjSetKeeps ==
  ASSUME NamesInv, NEW obj \in AtHand, NEW key \in program.keys, NEW value \in AtHand \cup Literals,
         OpObjSet(obj, key, value)
  PROVE  NamesInv'
<1>1. UNCHANGED <<program, looking>>
  BY DEF OpObjSet
<1>2. CASE Stop("failed")
  BY <1>1, <1>2, StopKeeps
<1>3. CASE ~Stop("failed")
  <2>1. /\ IsThing(obj) /\ things' = [things EXCEPT ![obj.is] = PropertiesSet(@, key, value)]
        /\ UNCHANGED <<envs, frames, status>>
    BY <1>3 DEF OpObjSet
  <2>2. obj.is \in 1 .. Len(things)
    BY <2>1, AtHandFacts DEF Within
  <2>3. key \in AnyKey /\ value \in Values /\ Within(value, Len(things))
    BY KeyFacts, AtHandFacts, LiteralFacts
  <2>4. Len(things) \in Nat /\ Len(envs) \in Nat /\ ThingsOK(things, Len(envs))
    BY Counts DEF NamesInv
  <2>5. ThingOK(PropertiesSet(things[obj.is], key, value), Len(things), Len(envs))
    BY <2>2, <2>3, <2>4, ThingFacts, PropertiesSetKeeps
  <2>6. ThingsOK(things', Len(envs)) /\ Len(things') = Len(things)
    BY <2>1, <2>2, <2>4, <2>5, ThingChanged
  <2> QED
    BY <1>1, <2>1, <2>6 DEF NamesInv
<1> QED
  BY <1>2, <1>3

LEMMA ObjGetKeeps ==
  ASSUME NamesInv, NEW obj \in AtHand, NEW key \in program.keys, OpObjGet(obj, key)
  PROVE  NamesInv'
<1>1. looking' = [on |-> TRUE, obj |-> obj, key |-> key, cur |-> obj] /\ UNCHANGED <<program, envs, things, frames, status>>
  BY DEF OpObjGet
<1>2. obj \in Values /\ Within(obj, Len(things)) /\ key \in AnyKey
  BY AtHandFacts, KeyFacts
<1>3. LookOK(looking', Len(things))
  BY <1>1, <1>2 DEF LookOK, LookRecord
<1> QED
  BY <1>1, <1>3 DEF NamesInv

LEMMA NothingIsOK ==
  ASSUME NEW n
  PROVE  LookOK(Nothing, n)
BY UndefinedIsValue DEF LookOK, LookRecord, Nothing, Within, IsThing, AnyKey, Undefined

(* A search goes from one thing to another that there is, or ends.         *)
LEMMA LookKeeps ==
  ASSUME NamesInv, Look
  PROVE  NamesInv'
<1>1. UNCHANGED <<program, envs, things, frames>>
  BY DEF Look, Stop
<1>2. status' \in {"running", "failed", "no variable", "no property", "corrupted"}
  BY DEF Look, Stop, NamesInv
<1>3. LookOK(looking', Len(things))
  <2>1. looking' = Nothing \/ (IsThing(looking.cur) /\ looking' = Further(looking))
    BY DEF Look
  <2>2. CASE looking' = Nothing
    BY <2>2, NothingIsOK
  <2>3. CASE IsThing(looking.cur) /\ looking' = Further(looking)
    <3>1. LookOK(looking, Len(things))
      BY DEF NamesInv
    <3>2. looking.cur.is \in 1 .. Len(things)
      BY <2>3, <3>1 DEF LookOK, Within
    <3>3. things[looking.cur.is].proto \in Values /\ Within(things[looking.cur.is].proto, Len(things))
      BY <3>2, ThingFacts DEF ThingOK
    <3> QED
      BY <2>3, <3>1, <3>3 DEF Further, LookOK, LookRecord
  <2> QED
    BY <2>1, <2>2, <2>3
<1> QED
  BY <1>1, <1>2, <1>3 DEF NamesInv

(* The prototypes that the boot has left are there.                        *)
LEMMA LookStays ==
  ASSUME NEW n \in Nat, NEW n2 \in Nat, n <= n2, NEW l, LookOK(l, n)
  PROVE  LookOK(l, n2)
BY DEF LookOK, Within

LEMMA PrototypesFacts ==
  ASSUME NEW n \in Nat, n > 2
  PROVE  /\ ObjectPrototype \in Values /\ FunctionPrototype \in Values
         /\ Within(ObjectPrototype, n) /\ Within(FunctionPrototype, n) /\ Within(Undefined, n) /\ Within(Null, n)
         /\ Getter \in Values
<1>1. {1, 2, 3} \subseteq 1 .. MaxThings
  BY NamesAssumption
<1> QED
  BY <1>1 DEF Values, Within, IsThing, ObjectPrototype, FunctionPrototype, Getter, Undefined, Null

(* There are environments, calls, things and a search as before, and more. *)
LEMMA GrownKeeps ==
  ASSUME NamesInv, EnvsOK(envs'), Len(envs') \in Nat, Len(envs) <= Len(envs'),
         ThingsOK(things', Len(envs')), Len(things') \in Nat, Len(things) <= Len(things'),
         FramesOK(frames', Len(envs')),
         UNCHANGED <<program, looking, status>>
  PROVE  NamesInv'
<1>1. Len(things) \in Nat /\ Len(things) > 2 /\ LookOK(looking, Len(things))
  BY Counts, Parts
<1>2. LookOK(looking, Len(things')) /\ Len(things') > 2
  BY <1>1, LookStays
<1> QED
  BY <1>2 DEF NamesInv

(* One thing comes behind the others.                                      *)
LEMMA ThingAppended ==
  ASSUME NEW ts, NEW m \in Nat, NEW m2 \in Nat, m <= m2, ThingsOK(ts, m), Len(ts) < MaxThings, MaxThings \in Nat,
         NEW t, ThingOK(t, Len(ts) + 1, m2)
  PROVE  ThingsOK(Append(ts, t), m2) /\ Len(Append(ts, t)) = Len(ts) + 1
<1>1. ts \in Seq(ThingRecord) /\ Len(ts) \in Nat /\ t \in ThingRecord
  BY LenProperties DEF ThingsOK, ThingOK
<1>2. /\ Append(ts, t) \in Seq(ThingRecord) /\ Len(Append(ts, t)) = Len(ts) + 1
      /\ \A j \in 1 .. Len(ts) : Append(ts, t)[j] = ts[j]
      /\ Append(ts, t)[Len(ts) + 1] = t
  BY <1>1, AppendProperties
<1>3. \A u \in Len(ts) + 1 .. Len(Append(ts, t)) : ThingOK(Append(ts, t)[u], Len(Append(ts, t)), m2)
  BY <1>1, <1>2
<1>4. Len(ts) <= Len(Append(ts, t)) /\ Len(Append(ts, t)) <= MaxThings
  BY <1>1, <1>2
<1> QED
  BY <1>2, <1>3, <1>4, ThingsGrow

LEMMA LoadObjectKeeps ==
  ASSUME NamesInv, OpLoadObject
  PROVE  NamesInv'
<1> DEFINE t == NewThing("object", ObjectPrototype, Undefined, 0)
<1>1. UNCHANGED <<program, envs, frames, looking, status>>
  BY DEF OpLoadObject
<1>2. CASE things' = things
  BY <1>1, <1>2 DEF NamesInv
<1>3. CASE things' = Append(things, t) /\ Len(things) < program.max.things
  <2>1. Len(things) \in Nat /\ Len(envs) \in Nat /\ Len(things) > 2 /\ ThingsOK(things, Len(envs))
    BY Counts, Parts
  <2>2. MaxThings \in Nat /\ Len(things) < MaxThings
    BY <1>3, Counts
  <2>3. ThingOK(t, Len(things) + 1, Len(envs))
    BY <2>1, PrototypesFacts, UndefinedIsValue, NewThingOK
  <2>4. ThingsOK(things', Len(envs)) /\ Len(things') = Len(things) + 1
    <3> HIDE DEF t
    <3> QED
      BY <1>3, <2>1, <2>2, <2>3, ThingAppended
  <2>5. EnvsOK(envs') /\ Len(envs') = Len(envs) /\ FramesOK(frames', Len(envs'))
    BY <1>1 DEF NamesInv
  <2> QED
    BY <1>1, <2>1, <2>4, <2>5, GrownKeeps
<1> QED
  BY <1>2, <1>3 DEF OpLoadObject

(* A function's environment is made with it, the object in its "prototype" *)
(* behind it.                                                              *)
LEMMA LoadFunctionKeeps ==
  ASSUME NamesInv, OpLoadFunction
  PROVE  NamesInv'
<1> DEFINE o == NewThing("object", Undefined, Undefined, 0)
           m == Len(envs) + 1
           n == Len(things)
<1>1. UNCHANGED <<program, frames, looking, status>> /\ envs' = Append(envs, NewEnv(Running.env)) /\ n + 2 <= program.max.things
  BY DEF OpLoadFunction
<1>2. PICK objects \in BOOLEAN :
        things' = things
          \o <<NewThing("function", FunctionPrototype,
                        IF objects THEN [type |-> "object", is |-> n + 1 + 1] ELSE Undefined, m)>>
          \o (IF objects THEN <<o>> ELSE <<>>)
  BY DEF OpLoadFunction
<1> DEFINE proto == IF objects THEN [type |-> "object", is |-> n + 1 + 1] ELSE Undefined
           f == NewThing("function", FunctionPrototype, proto, m)
           n2 == IF objects THEN n + 2 ELSE n + 1
<1>3. /\ n \in Nat /\ m \in Nat /\ Len(envs) \in Nat /\ n > 2 /\ n + 2 <= MaxThings /\ MaxThings \in Nat
      /\ ThingsOK(things, Len(envs)) /\ things \in Seq(ThingRecord)
  <2> HIDE DEF o, f, proto
  <2>1. ThingsOK(things, Len(envs)) /\ n > 2
    BY Parts
  <2>2. things \in Seq(ThingRecord)
    BY <2>1 DEF ThingsOK
  <2>3. /\ n \in Nat /\ m \in Nat /\ Len(envs) \in Nat /\ MaxThings \in Nat
        /\ program.max.things \in 0 .. MaxThings
    BY Counts
  <2>4. n + 2 <= MaxThings
    BY <1>1, <2>3
  <2> QED
    BY <2>1, <2>2, <2>3, <2>4
<1>4. EnvsOK(envs') /\ Len(envs') = m
  <2>1. EnvsOK(envs) /\ Running.env \in 0 .. Len(envs)
    <3>1. Running.env \in 1 .. Len(envs)
      BY RunningFacts
    <3>2. Running.env \in 0 .. Len(envs)
      BY <1>3, <3>1
    <3> QED
      BY <3>2, Parts, Zenon
  <2>2. EnvsOK(Append(envs, NewEnv(Running.env))) /\ Len(Append(envs, NewEnv(Running.env))) = Len(envs) + 1
    BY <2>1, EnvAppended
  <2> QED
    BY <1>1, <2>2
<1>5. proto \in Values /\ Within(proto, n2)
  <2>1. CASE objects
    <3>1. proto \in [type : {"object", "function"}, is : 1 .. MaxThings] /\ proto.is \in 1 .. n2
      BY <1>3, <2>1
    <3> QED
      BY <3>1 DEF Values, Within
  <2>2. CASE ~objects
    BY <1>3, <2>2, UndefinedIsValue, PrototypesFacts DEF Within, IsThing, Undefined
  <2> QED
    BY <2>1, <2>2
<1>6. ThingOK(f, n2, m)
  <2>1. FunctionPrototype \in Values /\ Within(FunctionPrototype, n2) /\ n2 \in Nat /\ m \in 1 .. m
    BY <1>3, PrototypesFacts
  <2> HIDE DEF proto, n2, m
  <2> QED
    BY <1>3, <1>5, <2>1, NewThingOK
<1>7. ThingOK(o, n + 2, m)
  <2>1. Within(Undefined, n + 2)
    BY DEF Within, IsThing, Undefined
  <2> QED
    BY <1>3, <2>1, UndefinedIsValue, NewThingOK
<1>8. things \o <<f>> = Append(things, f) /\ f \in ThingRecord /\ o \in ThingRecord
  <2>1. f \in ThingRecord /\ o \in ThingRecord
    BY <1>6, <1>7 DEF ThingOK
  <2> QED
    BY <1>3, <2>1, AppendIsConcat
<1> HIDE DEF f, o, m
<1>9. /\ Append(things, f) \in Seq(ThingRecord) /\ Len(Append(things, f)) = n + 1
      /\ \A j \in 1 .. n : Append(things, f)[j] = things[j]
      /\ Append(things, f)[n + 1] = f
  BY <1>3, <1>8, AppendProperties
<1>10. ThingsOK(things', m) /\ Len(things') = n2
  <2>1. CASE ~objects
    <3>1. things' = Append(things, f)
      BY <1>2, <1>8, <1>9, <2>1, ConcatEmptySeq DEF f, m
    <3> QED
      BY <1>3, <1>6, <1>9, <2>1, <3>1, ThingAppended DEF m
  <2>2. CASE objects
    <3>1. things' = Append(Append(things, f), o)
      BY <1>2, <1>8, <1>9, <2>2, AppendIsConcat DEF f, m, o
    <3>2. /\ things' \in Seq(ThingRecord) /\ Len(things') = n + 2
          /\ \A j \in 1 .. n + 1 : things'[j] = Append(things, f)[j]
          /\ things'[n + 2] = o
      BY <1>3, <1>8, <1>9, <3>1, AppendProperties
    <3>3. \A u \in 1 .. n : things'[u] = things[u]
      BY <1>3, <1>9, <3>2
    <3>4. \A u \in n + 1 .. n + 2 : ThingOK(things'[u], n + 2, m)
      BY <1>3, <1>6, <1>7, <1>9, <2>2, <3>2
    <3>5. things' \in Seq(ThingRecord) /\ n <= Len(things') /\ Len(things') <= MaxThings
      BY <1>3, <3>2
    <3>6. \A u \in n + 1 .. Len(things') : ThingOK(things'[u], Len(things'), m)
      BY <3>2, <3>4
    <3>7. Len(envs) <= m
      BY <1>3 DEF m
    <3>8. ThingsOK(things', m)
      <4> HIDE DEF n2
      <4> QED
        BY <1>3, <3>3, <3>5, <3>6, <3>7, ThingsGrow
    <3> QED
      BY <2>2, <3>2, <3>8
  <2> QED
    BY <2>1, <2>2
<1>11. FramesOK(frames', m)
  <2>1. FramesOK(frames, Len(envs))
    BY Parts
  <2>2. frames' = frames /\ Len(envs) <= m
    BY <1>1, <1>3 DEF m
  <2> QED
    BY <1>3, <2>1, <2>2, FramesStay
<1> QED
  BY <1>1, <1>3, <1>4, <1>10, <1>11, GrownKeeps DEF m

LEMMA LoadFunctionFailsKeeps ==
  ASSUME NamesInv, LoadFunctionFails
  PROVE  NamesInv'
BY StopKeeps DEF LoadFunctionFails

(* A call has an environment within that of its function.                  *)
LEMMA CallKeeps ==
  ASSUME NamesInv, NEW callee \in AtHand, NEW this \in Values, NEW args \in Seq(Values), OpCall(callee, this, args)
  PROVE  NamesInv'
<1>1. UNCHANGED <<program, looking>>
  BY DEF OpCall
<1>2. CASE Stop("failed")
  BY <1>1, <1>2, StopKeeps
<1>3. CASE ~Stop("failed")
  <2> DEFINE f == [env |-> Len(envs) + 1, this |-> this, type |-> "CALL", args |-> args]
  <2>1. /\ IsFunction(callee) /\ envs' = Append(envs, NewEnv(things[callee.is].env))
        /\ frames' = Append(frames, f) /\ UNCHANGED <<things, status>>
    BY <1>3 DEF OpCall, CallEnv, Pushed
  <2>2. things[callee.is].env \in 1 .. Len(envs)
    BY <2>1, AtHandFacts, ThingFacts
  <2>3. Len(envs) \in Nat /\ Len(things) \in Nat /\ EnvsOK(envs) /\ FramesOK(frames, Len(envs)) /\ ThingsOK(things, Len(envs))
    BY Counts, Parts
  <2>4. EnvsOK(envs') /\ Len(envs') = Len(envs) + 1
    BY <2>1, <2>2, <2>3, EnvAppended
  <2>5. f \in FrameRecord /\ f.env = Len(envs) + 1
    BY <2>3 DEF FrameRecord
  <2>6. FramesOK(frames', Len(envs'))
    <3> HIDE DEF f
    <3> QED
      BY <2>1, <2>3, <2>4, <2>5, FramePushed
  <2>7. ThingsOK(things', Len(envs'))
    <3>1. ThingsOK(things, Len(envs) + 1)
      BY <2>3, ThingsStay
    <3> QED
      BY <2>1, <2>4, <3>1
  <2> QED
    BY <1>1, <2>1, <2>3, <2>4, <2>6, <2>7, GrownKeeps
<1> QED
  BY <1>2, <1>3

(* What is constructed looks further in the constructor's prototype, which *)
(* is there.                                                               *)
LEMMA NewKeeps ==
  ASSUME NamesInv, NEW callee \in AtHand, NEW args \in Seq(Values), OpNew(callee, args)
  PROVE  NamesInv'
<1>1. UNCHANGED <<program, looking>>
  BY DEF OpNew
<1>2. CASE Stop("failed") \/ Stop("corrupted")
  BY <1>1, <1>2, StopKeeps
<1>3. CASE ~Stop("failed") /\ ~Stop("corrupted")
  <2> DEFINE this == [type |-> "object", is |-> Len(things) + 1]
             f == [env |-> Len(envs) + 1, this |-> this, type |-> "NEW", args |-> args]
             t == NewThing("object", things[callee.is].prototype, Undefined, 0)
  <2>1. /\ IsFunction(callee) /\ Len(things) < program.max.things
        /\ envs' = Append(envs, NewEnv(things[callee.is].env)) /\ things' = Append(things, t)
        /\ frames' = Append(frames, f) /\ UNCHANGED status
    BY <1>3 DEF OpNew, CallEnv, Pushed
  <2>2. /\ Len(envs) \in Nat /\ Len(things) \in Nat /\ Len(things) < MaxThings /\ MaxThings \in Nat
        /\ EnvsOK(envs) /\ FramesOK(frames, Len(envs)) /\ ThingsOK(things, Len(envs))
    <3> HIDE DEF this, f, t
    <3>1. Len(envs) \in Nat /\ Len(things) \in Nat /\ MaxThings \in Nat /\ program.max.things \in 0 .. MaxThings
      BY Counts
    <3>2. Len(things) < MaxThings
      BY <2>1, <3>1
    <3> QED
      BY <3>1, <3>2, Parts
  <2>3. callee.is \in 1 .. Len(things) /\ things[callee.is].type = "function"
    BY <2>1, AtHandFacts
  <2>4. /\ things[callee.is].env \in 1 .. Len(envs) /\ things[callee.is].prototype \in Values
        /\ Within(things[callee.is].prototype, Len(things))
    BY <2>3, ThingFacts DEF ThingOK
  <2>5. EnvsOK(envs') /\ Len(envs') = Len(envs) + 1
    BY <2>1, <2>2, <2>4, EnvAppended
  <2>6. f \in FrameRecord /\ f.env = Len(envs) + 1
    <3>1. this \in [type : {"object", "function"}, is : 1 .. MaxThings]
      BY <2>2
    <3>2. this \in Values
      BY <3>1 DEF Values
    <3> QED
      BY <2>2, <3>2 DEF FrameRecord
  <2>7. FramesOK(frames', Len(envs'))
    <3> HIDE DEF f
    <3> QED
      BY <2>1, <2>2, <2>5, <2>6, FramePushed
  <2>8. ThingOK(t, Len(things) + 1, Len(envs'))
    <3>1. Within(things[callee.is].prototype, Len(things) + 1) /\ Within(Undefined, Len(things) + 1)
      BY <2>2, <2>4 DEF Within, IsThing, Undefined
    <3> QED
      BY <2>2, <2>4, <2>5, <3>1, UndefinedIsValue, NewThingOK
  <2>9. ThingsOK(things', Len(envs')) /\ Len(things') = Len(things) + 1
    <3> HIDE DEF t
    <3> QED
      BY <2>1, <2>2, <2>5, <2>8, ThingAppended
  <2> QED
    BY <1>1, <2>1, <2>2, <2>5, <2>7, <2>9, GrownKeeps
<1> QED
  BY <1>2, <1>3

LEMMA RetKeeps ==
  ASSUME NamesInv, NEW value, OpRet(value)
  PROVE  NamesInv'
<1>1. UNCHANGED <<program, envs, things, looking, status>> /\ frames' = Front(frames) /\ Len(frames) > 1
  BY DEF OpRet
<1>2. FramesOK(frames', Len(envs))
  BY <1>1, Counts, FramePopped DEF NamesInv
<1> QED
  BY <1>1, <1>2 DEF NamesInv

LEMMA NextKeeps ==
  ASSUME NamesInv, Next
  PROVE  NamesInv'
<1>1. CASE Variables
  BY <1>1, DeclVarKeeps, LoadKeeps, ArgKeeps, StoreKeeps DEF Variables
<1>2. CASE Properties
  <2>1. PICK o \in AtHand, k \in program.keys :
          OpObjGet(o, k) \/ \E v \in AtHand \cup Literals : OpObjSet(o, k, v)
    BY <1>2 DEF Properties
  <2> QED
    BY <2>1, ObjGetKeeps, ObjSetKeeps
<1>3. CASE Look
  BY <1>3, LookKeeps
<1>4. CASE Calls
  <2>1. CASE \E f \in AtHand, v \in Literals : OpCall(f, Undefined, <<v>>) \/ OpNew(f, <<v>>)
    <3>1. \A v \in Literals : <<v>> \in Seq(Values)
      BY LiteralFacts
    <3> QED
      BY <2>1, <3>1, UndefinedIsValue, CallKeeps, NewKeeps
  <2>2. CASE \E v \in Literals : OpRet(v)
    BY <2>2, RetKeeps
  <2> QED
    BY <1>4, <2>1, <2>2 DEF Calls
<1>5. CASE OpLoadObject
  BY <1>5, LoadObjectKeeps
<1>6. CASE OpLoadFunction
  BY <1>6, LoadFunctionKeeps
<1>7. CASE LoadFunctionFails
  BY <1>7, LoadFunctionFailsKeeps
<1> QED
  BY <1>1, <1>2, <1>3, <1>4, <1>5, <1>6, <1>7 DEF Next

(* What the boot leaves is well made.                                      *)
LEMMA BootIsOK ==
  ASSUME Init
  PROVE  NamesInv
<1>1. EnvsOK(envs) /\ Len(envs) = 2
  <2> DEFINE name == CHOOSE n \in Symbols : TRUE
             list == <<[name |-> name, value |-> ObjectPrototype]>>
             g == [parent |-> 0, vars |-> list]
             f == [parent |-> 1, vars |-> <<>>]
  <2>1. name \in Symbols
    BY NamesAssumption
  <2>2. list \in Seq(VarRecord) /\ UniqueVars(list)
    <3>1. [name |-> name, value |-> ObjectPrototype] \in VarRecord
      BY <2>1, PrototypesFacts DEF VarRecord
    <3> QED
      BY <3>1 DEF UniqueVars
  <2>3. /\ g \in EnvRecord /\ g.parent = 0 /\ g.vars = list
        /\ f \in EnvRecord /\ f.parent = 1 /\ UniqueVars(f.vars)
    <3>1. f \in EnvRecord
      BY EmptySeq DEF EnvRecord
    <3>2. UniqueVars(f.vars)
      BY DEF UniqueVars
    <3> HIDE DEF list
    <3>3. g \in EnvRecord
      BY <2>2 DEF EnvRecord
    <3> QED
      BY <3>1, <3>2, <3>3
  <2>4. envs = <<g, f>>
    BY DEF Init, NewEnv
  <2> HIDE DEF g, f, list
  <2>5. envs \in Seq(EnvRecord) /\ Len(envs) = 2 /\ envs[1] = g /\ envs[2] = f
    BY <2>3, <2>4
  <2>6. \A e \in 1 .. 2 : envs[e].parent \in 0 .. e - 1 /\ UniqueVars(envs[e].vars)
    <3> TAKE e \in 1 .. 2
    <3>1. CASE e = 1
      BY <2>2, <2>3, <2>5, <3>1
    <3>2. CASE e = 2
      BY <2>3, <2>5, <3>2
    <3> QED
      BY <3>1, <3>2
  <2> QED
    BY <2>5, <2>6 DEF EnvsOK
<1>2. ThingsOK(things, 2) /\ Len(things) = 3
  <2> DEFINE p == [key |-> Call, type |-> "getter", value |-> Getter]
             a == NewThing("object", Null, Undefined, 0)
             b0 == NewThing("object", ObjectPrototype, Undefined, 0)
             b == [b0 EXCEPT !.props = <<p>>]
             c == NewThing("function", FunctionPrototype, Undefined, 2)
  <2>1. things = <<a, b, c>>
    BY DEF Init
  <2>2. ThingOK(a, 3, 2) /\ ThingOK(b0, 3, 2) /\ ThingOK(c, 3, 2)
    BY UndefinedIsValue, PrototypesFacts, NewThingOK
  <2>3. ThingOK(b, 3, 2)
    <3>1. p \in PropRecord
      BY PrototypesFacts DEF PropRecord, AnyKey
    <3>2. <<p>> \in Seq(PropRecord) /\ UniqueProps(<<p>>)
      BY <3>1 DEF UniqueProps
    <3> HIDE DEF p, b0
    <3> QED
      BY <2>2, <3>2 DEF ThingOK, ThingRecord
  <2> HIDE DEF a, b, c
  <2>4. a \in ThingRecord /\ b \in ThingRecord /\ c \in ThingRecord
    BY <2>2, <2>3 DEF ThingOK
  <2> QED
    BY <2>1, <2>2, <2>3, <2>4, NamesAssumption DEF ThingsOK
<1>3. FramesOK(frames, 2)
  <2> DEFINE f == [env |-> 1, this |-> Undefined, type |-> "CALL", args |-> <<>>]
  <2>1. f \in FrameRecord /\ f.env = 1
    BY UndefinedIsValue, EmptySeq DEF FrameRecord
  <2>2. frames = <<f>>
    BY DEF Init
  <2> HIDE DEF f
  <2> QED
    BY <2>1, <2>2 DEF FramesOK
<1>4. LookOK(looking, Len(things))
  BY NothingIsOK DEF Init
<1> QED
  BY <1>1, <1>2, <1>3, <1>4 DEF NamesInv, Init

LEMMA StutterKeeps ==
  ASSUME NamesInv, UNCHANGED vars
  PROVE  NamesInv'
BY DEF NamesInv, vars

(* The invariant says what is to be shown.                                 *)
LEMMA InvImpliesSound ==
  ASSUME NamesInv
  PROVE  ListsSound
<1>1. OneEntryEach
  <2>1. \A e \in 1 .. Len(envs) : UniqueVars(envs[e].vars) /\ DOMAIN envs[e].vars = 1 .. Len(envs[e].vars)
    BY Parts, VarsOf1, LenProperties DEF EnvsOK
  <2>2. \A u \in 1 .. Len(things) : UniqueProps(things[u].props) /\ DOMAIN things[u].props = 1 .. Len(things[u].props)
    <3> TAKE u \in 1 .. Len(things)
    <3>1. things[u].props \in Seq(PropRecord) /\ UniqueProps(things[u].props)
      BY ThingFacts DEF ThingOK, ThingRecord
    <3> QED
      BY <3>1, LenProperties
  <2> QED
    BY <2>1, <2>2, Counts DEF OneEntryEach, UniqueVars, UniqueProps
<1>2. TypeOK
  <2>1. \A e \in DOMAIN envs :
          envs[e].parent \in 0 .. e - 1 /\ \A i \in DOMAIN envs[e].vars : envs[e].vars[i].name \in Symbols
    <3> TAKE e \in DOMAIN envs
    <3>1. e \in 1 .. Len(envs) /\ EnvsOK(envs)
      BY Counts, Parts
    <3>2. envs[e].parent \in 0 .. e - 1 /\ envs[e].vars \in Seq(VarRecord)
      BY <3>1, VarsOf1 DEF EnvsOK
    <3>3. \A i \in DOMAIN envs[e].vars : envs[e].vars[i] \in VarRecord
      BY <3>2, ElementOfSeq, LenProperties
    <3> QED
      BY <3>2, <3>3 DEF VarRecord
  <2>2. \A u \in DOMAIN things : IsFunction(things[u]) <=> things[u].env \in DOMAIN envs
    <3> TAKE u \in DOMAIN things
    <3>1. ThingOK(things[u], Len(things), Len(envs)) /\ DOMAIN envs = 1 .. Len(envs) /\ Len(envs) \in Nat
      BY Counts, ThingFacts
    <3> QED
      BY <3>1 DEF ThingOK, IsFunction
  <2>3. \A i, j \in DOMAIN frames : i # j => frames[i].env # frames[j].env
    BY Parts, LenProperties DEF FramesOK
  <2>4. looking.on /\ IsThing(looking.cur) => looking.cur.is \in DOMAIN things
    BY Parts, Counts DEF LookOK, Within
  <2> QED
    BY <2>1, <2>2, <2>3, <2>4, Parts DEF TypeOK
<1> QED
  BY <1>1, <1>2 DEF ListsSound

(* Whatever a program does with its variables and its objects, environments *)
(* form trees, no two calls share one, a search never leaves the things    *)
(* there are, and a list has one entry of a name and one for all keys that *)
(* compare equal.                                                          *)
THEOREM ListsAlwaysSound == Spec => []ListsSound
<1>1. Init => NamesInv
  BY BootIsOK
<1>2. NamesInv /\ [Next]_vars => NamesInv'
  BY NextKeeps, StutterKeeps
<1>3. NamesInv => ListsSound
  BY InvImpliesSound
<1> QED
  BY <1>1, <1>2, <1>3, PTL DEF Spec

----------------------------------------------------------------------------
(***************************************************************************)
(* The innermost of a chain of environments.                               *)
(***************************************************************************)

(* The innermost number of H on the chain from i.                          *)
Innermost(g, n, up, H) == g = [i \in 0 .. n |-> IF i = 0 THEN 0 ELSE IF i \in H THEN i ELSE g[up[i]]]
Falls(up, n) == \A i \in 1 .. n : up[i] \in 0 .. i - 1

(* A chain of smaller and smaller numbers has an innermost one of a set.   *)
LEMMA InnermostThereIs ==
  ASSUME NEW n \in Nat, NEW up, NEW H, Falls(up, n)
  PROVE  \E g : Innermost(g, n, up, H)
<1> DEFINE Item(g, i) == IF i = 0 THEN 0 ELSE IF i \in H THEN i ELSE g[up[i]]
           Good(g, k) == \A i \in 0 .. n : i <= k => g[i] = Item(g, i)
           S == {k \in Nat : \E g \in [0 .. n -> 0 .. n] : Good(g, k)}
<1>1. 0 \in S
  <2>1. [i \in 0 .. n |-> 0] \in [0 .. n -> 0 .. n]
    OBVIOUS
  <2>2. Good([i \in 0 .. n |-> 0], 0)
    OBVIOUS
  <2> QED
    BY <2>1, <2>2
<1>2. \A k \in Nat : k \in S => k + 1 \in S
  <2> SUFFICES ASSUME NEW k \in Nat, k \in S PROVE k + 1 \in S
    OBVIOUS
  <2>1. PICK g \in [0 .. n -> 0 .. n] : Good(g, k)
    OBVIOUS
  <2>2. CASE k + 1 \notin 0 .. n
    <3>1. ASSUME NEW i \in 0 .. n, i <= k + 1 PROVE i <= k
      BY <2>2, <3>1
    <3> HIDE DEF Item
    <3>2. Good(g, k + 1)
      BY <2>1, <3>1
    <3>3. k + 1 \in Nat
      OBVIOUS
    <3> HIDE DEF Good
    <3> QED
      BY <3>2, <3>3
  <2>3. CASE k + 1 \in 0 .. n
    <3> DEFINE h == [g EXCEPT ![k + 1] = Item(g, k + 1)]
    <3>0. k + 1 \in 1 .. n
      BY <2>3
    <3>01. up[k + 1] \in 0 .. (k + 1) - 1
      BY <3>0 DEF Falls
    <3>1. up[k + 1] \in 0 .. n /\ up[k + 1] <= k
      <4>1. PICK v : v = up[k + 1]
        OBVIOUS
      <4>2. v \in 0 .. (k + 1) - 1 /\ k \in Nat /\ k + 1 <= n
        BY <3>0, <3>01, <4>1
      <4>3. v \in 0 .. n /\ v <= k
        BY <4>2
      <4> QED
        BY <4>1, <4>3, Zenon
    <3>2. Item(g, k + 1) \in 0 .. n
      <4>1. g[up[k + 1]] \in 0 .. n
        BY <3>1
      <4>2. k + 1 \in 0 .. n /\ 0 \in 0 .. n
        BY <3>0
      <4> QED
        BY <4>1, <4>2
    <3>3. h \in [0 .. n -> 0 .. n]
      <4> HIDE DEF Item
      <4> QED
        BY <3>2
    <3>4. ASSUME NEW i \in 0 .. n, i <= k + 1 PROVE h[i] = Item(h, i)
      <4>0. i # 0 => i \in 1 .. n
        OBVIOUS
      <4>1. i # 0 => up[i] \in 0 .. i - 1
        BY <4>0 DEF Falls
      <4>2. i # 0 => h[up[i]] = g[up[i]]
        BY <3>4, <4>1
      <4>3. CASE i = k + 1
        BY <2>3, <4>2, <4>3
      <4>4. CASE i # k + 1
        <5>1. i <= k
          BY <3>4, <4>4
        <5>2. h[i] = g[i] /\ g[i] = Item(g, i)
          BY <2>1, <4>4, <5>1
        <5> QED
          BY <4>2, <5>2
      <4> QED
        BY <4>3, <4>4
    <3> HIDE DEF h, Item
    <3>5. Good(h, k + 1)
      BY <3>4
    <3>6. k + 1 \in Nat
      OBVIOUS
    <3> HIDE DEF Good
    <3> QED
      BY <3>3, <3>5, <3>6
  <2> QED
    BY <2>2, <2>3
<1>3. n \in S
  <2> HIDE DEF S
  <2> QED
    BY <1>1, <1>2, NatSetInduction
<1>4. PICK g \in [0 .. n -> 0 .. n] : Good(g, n)
  BY <1>3
<1>5. g = [i \in 0 .. n |-> Item(g, i)]
  BY <1>4
<1> QED
  BY <1>5 DEF Innermost

(* What the machine finds is in the environment it asks first, or is found *)
(* in the one around it.                                                   *)
LEMMA FindVarStep ==
  ASSUME NEW es, EnvsOK(es), NEW name
  PROVE  /\ FindVar(es, 0, name) = 0
         /\ \A e \in 1 .. Len(es) :
              FindVar(es, e, name) =
                IF PlaceOf(es[e].vars, name) # 0 THEN e ELSE FindVar(es, es[e].parent, name)
<1> DEFINE n == Len(es)
           up == [e \in 1 .. n |-> es[e].parent]
           H == {e \in 1 .. n : PlaceOf(es[e].vars, name) # 0}
           Eq(g) == g = [i \in 0 .. n |-> IF i = 0 THEN 0
                                          ELSE IF PlaceOf(es[i].vars, name) # 0 THEN i ELSE g[es[i].parent]]
<1>1. n \in Nat /\ \A e \in 1 .. n : es[e].parent \in 0 .. e - 1
  BY LenProperties DEF EnvsOK
<1>2. Falls(up, n)
  BY <1>1 DEF Falls
<1>3. PICK h : Innermost(h, n, up, H)
  <2> HIDE DEF n, up, H, Eq
  <2> QED
    BY <1>1, <1>2, InnermostThereIs
<1>4. \E g : Eq(g)
  <2>1. \A i \in 0 .. n : (IF i = 0 THEN 0 ELSE IF i \in H THEN i ELSE h[up[i]])
           = (IF i = 0 THEN 0 ELSE IF PlaceOf(es[i].vars, name) # 0 THEN i ELSE h[es[i].parent])
    BY <1>1
  <2>2. Eq(h)
    BY <1>3, <2>1 DEF Innermost
  <2> QED
    BY <2>2
<1> DEFINE f == CHOOSE g : Eq(g)
<1>5. Eq(f)
  <2> HIDE DEF Eq
  <2> QED
    BY <1>4
<1>6. \A e : FindVar(es, e, name) = f[e]
  BY Zenon DEF FindVar
<1>7. \A i \in 0 .. n : f[i] = IF i = 0 THEN 0 ELSE IF PlaceOf(es[i].vars, name) # 0 THEN i ELSE f[es[i].parent]
  <2>1. PICK g : g = f
    OBVIOUS
  <2> HIDE DEF f
  <2> QED
    BY <1>5, <2>1
<1>8. ASSUME NEW e \in 1 .. Len(es)
      PROVE  FindVar(es, e, name) = IF PlaceOf(es[e].vars, name) # 0 THEN e ELSE FindVar(es, es[e].parent, name)
  <2> HIDE DEF f, Eq
  <2>1. e \in 0 .. n /\ e # 0
    BY <1>1
  <2> HIDE DEF n
  <2>2. f[e] = IF PlaceOf(es[e].vars, name) # 0 THEN e ELSE f[es[e].parent]
    BY <1>7, <2>1
  <2> QED
    BY <1>6, <2>2
<1>9. FindVar(es, 0, name) = 0
  <2> HIDE DEF f, Eq
  <2> QED
    BY <1>1, <1>6, <1>7
<1> QED
  BY <1>8, <1>9

(***************************************************************************)
(* The scopes that environments stand for.                                 *)
(***************************************************************************)
BoundOf(list) == [n \in {list[i].name : i \in DOMAIN list} |-> list[PlaceOf(list, n)].value]
Functions(ts) == {u \in DOMAIN ts : IsFunction(ts[u])}
MadeEnvs(ts) == {ts[u].env : u \in Functions(ts)}
OuterOf(es, e) == IF es[e].parent = 0 THEN 0 ELSE es[es[e].parent].parent
ScopesOf(es, M) == [e \in DOMAIN es \ M |-> [outer |-> OuterOf(es, e), bound |-> BoundOf(es[e].vars)]]
BindingIn(sc, s, n) ==
  LET around[t \in {0} \cup DOMAIN sc] ==
        IF t = 0 THEN 0 ELSE IF n \in DOMAIN sc[t].bound THEN t ELSE around[sc[t].outer]
  IN  around[s]

(* Environments of functions and of calls take turns: a function's has no  *)
(* variables and lies within that of the call that made it, a call's lies  *)
(* within that of its function, and calls run in theirs only.              *)
TwoLevels(es, M) ==
  /\ M \subseteq DOMAIN es
  /\ \A e \in M : es[e].vars = <<>> /\ es[e].parent \in DOMAIN es \ M
  /\ \A e \in DOMAIN es \ M : es[e].parent \in {0} \cup M

LEMMA BoundFacts ==
  ASSUME NEW list \in Seq(VarRecord)
  PROVE  /\ DOMAIN BoundOf(list) = {list[i].name : i \in 1 .. Len(list)}
         /\ \A n : n \in DOMAIN BoundOf(list) <=> PlaceOf(list, n) # 0
         /\ UniqueVars(list) => \A i \in 1 .. Len(list) : BoundOf(list)[list[i].name] = list[i].value
<1>1. DOMAIN list = 1 .. Len(list) /\ Len(list) \in Nat
  BY LenProperties
<1>2. DOMAIN BoundOf(list) = {list[i].name : i \in 1 .. Len(list)}
  BY <1>1 DEF BoundOf
<1>3. ASSUME NEW n PROVE n \in DOMAIN BoundOf(list) <=> PlaceOf(list, n) # 0
  <2>1. PICK k : k = PlaceOf(list, n)
    OBVIOUS
  <2>2. /\ k \in 0 .. Len(list)
        /\ k # 0 => list[k].name = n
        /\ k = 0 => \A i \in 1 .. Len(list) : list[i].name # n
    BY <2>1, PlaceFacts
  <2>3. k # 0 => k \in 1 .. Len(list)
    BY <1>1, <2>2
  <2>4. n \in {list[i].name : i \in 1 .. Len(list)} <=> k # 0
    BY <2>2, <2>3
  <2> QED
    BY <1>2, <2>1, <2>4
<1>4. ASSUME UniqueVars(list), NEW i \in 1 .. Len(list) PROVE BoundOf(list)[list[i].name] = list[i].value
  <2>0. PICK n : n = list[i].name
    OBVIOUS
  <2>1. PICK k : k = PlaceOf(list, n)
    OBVIOUS
  <2>2. /\ k \in 0 .. Len(list)
        /\ k # 0 => list[k].name = n
        /\ k = 0 => \A j \in 1 .. Len(list) : list[j].name # n
    BY <2>1, PlaceFacts
  <2>3. k # 0
    BY <2>0, <2>2
  <2>4. k \in 1 .. Len(list)
    BY <1>1, <2>2, <2>3
  <2>5. k = i
    BY <1>4, <2>0, <2>2, <2>3, <2>4 DEF UniqueVars
  <2>6. n \in {list[j].name : j \in DOMAIN list}
    BY <1>1, <2>0
  <2>7. BoundOf(list)[n] = list[PlaceOf(list, n)].value
    BY <2>6 DEF BoundOf
  <2> QED
    BY <2>0, <2>1, <2>5, <2>7
<1> QED
  BY <1>2, <1>3, <1>4

(* The scope that binds a name is the environment that the machine finds.  *)
LEMMA BindingIsFound ==
  ASSUME NEW es, EnvsOK(es), NEW M, TwoLevels(es, M), NEW name, NEW s \in {0} \cup (DOMAIN es \ M)
  PROVE  /\ BindingIn(ScopesOf(es, M), s, name) = FindVar(es, s, name)
         /\ FindVar(es, s, name) \in {0} \cup (DOMAIN es \ M)
<1> DEFINE sc == ScopesOf(es, M)
           D == {0} \cup (DOMAIN es \ M)
           Item(g, t) == IF t = 0 THEN 0 ELSE IF name \in DOMAIN sc[t].bound THEN t ELSE g[sc[t].outer]
           Eq(g) == g = [t \in D |-> Item(g, t)]
           h == [t \in D |-> FindVar(es, t, name)]
<1>1. DOMAIN es = 1 .. Len(es) /\ Len(es) \in Nat /\ es \in Seq(EnvRecord)
  BY LenProperties DEF EnvsOK
<1>2. DOMAIN sc = DOMAIN es \ M /\ \A t \in DOMAIN es \ M : sc[t] = [outer |-> OuterOf(es, t), bound |-> BoundOf(es[t].vars)]
  BY DEF ScopesOf
<1>3. ASSUME NEW t \in DOMAIN es \ M
      PROVE  /\ name \in DOMAIN sc[t].bound <=> PlaceOf(es[t].vars, name) # 0
             /\ sc[t].outer \in D /\ sc[t].outer \in 0 .. t - 1
             /\ FindVar(es, t, name) = IF PlaceOf(es[t].vars, name) # 0 THEN t ELSE FindVar(es, sc[t].outer, name)
  <2>0. t \in 1 .. Len(es)
    BY <1>1
  <2>1. name \in DOMAIN sc[t].bound <=> PlaceOf(es[t].vars, name) # 0
    <3>1. PICK list \in Seq(VarRecord) : list = es[t].vars
      BY <2>0, VarsOf1
    <3>2. sc[t].bound = BoundOf(list)
      BY <1>2, <3>1
    <3>3. name \in DOMAIN BoundOf(list) <=> PlaceOf(list, name) # 0
      BY BoundFacts
    <3> QED
      BY <3>1, <3>2, <3>3
  <2>2. PICK p : p = es[t].parent
    OBVIOUS
  <2>3. p \in 0 .. t - 1 /\ p \in {0} \cup M
    BY <2>0, <2>2 DEF EnvsOK, TwoLevels
  <2>4. sc[t].outer = IF p = 0 THEN 0 ELSE es[p].parent
    BY <1>2, <2>2 DEF OuterOf
  <2>5. FindVar(es, t, name) = IF PlaceOf(es[t].vars, name) # 0 THEN t ELSE FindVar(es, p, name)
    BY <2>0, <2>2, FindVarStep
  <2>6. CASE p = 0
    <3>1. sc[t].outer = 0
      BY <2>4, <2>6
    <3> QED
      BY <2>0, <2>1, <2>5, <2>6, <3>1, <1>1
  <2>7. CASE p # 0
    <3>1. p \in M /\ p \in 1 .. Len(es) /\ p < t
      BY <1>1, <2>0, <2>3, <2>7
    <3>2. es[p].vars = <<>> /\ es[p].parent \in DOMAIN es \ M
      BY <3>1 DEF TwoLevels
    <3>3. PICK q : q = es[p].parent
      OBVIOUS
    <3>4. q \in 0 .. p - 1
      BY <3>1, <3>3 DEF EnvsOK
    <3>5. PlaceOf(es[p].vars, name) = 0
      <4>1. PICK none \in Seq(VarRecord) : none = <<>> /\ Len(none) = 0
        BY EmptySeq
      <4>2. PlaceOf(none, name) \in 0 .. 0
        BY <4>1, PlaceFacts
      <4> QED
        BY <3>2, <4>1, <4>2
    <3>6. FindVar(es, p, name) = FindVar(es, q, name)
      BY <3>1, <3>3, <3>5, FindVarStep
    <3>7. sc[t].outer = q
      BY <2>4, <2>7, <3>3
    <3>8. q \in D /\ q \in 0 .. t - 1
      BY <2>0, <1>1, <3>1, <3>2, <3>3, <3>4
    <3> HIDE DEF sc, D
    <3> QED
      BY <2>1, <2>5, <3>6, <3>7, <3>8
  <2> QED
    BY <2>6, <2>7
<1>4. FindVar(es, 0, name) = 0
  BY FindVarStep
<1>5. Eq(h)
  <2>1. ASSUME NEW t \in D PROVE FindVar(es, t, name) = Item(h, t)
    <3>1. CASE t = 0
      BY <1>4, <3>1
    <3>2. CASE t # 0
      <4>1. t \in DOMAIN es \ M
        BY <3>2
      <4>2. h[sc[t].outer] = FindVar(es, sc[t].outer, name)
        BY <1>3, <4>1
      <4> HIDE DEF h, sc, D
      <4> QED
        BY <1>3, <3>2, <4>1, <4>2
    <3> QED
      BY <3>1, <3>2
  <2>2. PICK h2 : h2 = h
    OBVIOUS
  <2> HIDE DEF Item, D
  <2> QED
    BY <2>1
<1> DEFINE f == CHOOSE g : Eq(g)
<1>6. Eq(f)
  <2> HIDE DEF Eq, h
  <2> QED
    BY <1>5
<1>7. BindingIn(sc, s, name) = f[s]
  <2> HIDE DEF sc
  <2>1. DOMAIN es \ M = DOMAIN sc
    BY <1>2
  <2> QED
    BY <2>1, Zenon DEF BindingIn
<1>8. \A t \in D : f[t] = Item(f, t)
  <2>1. PICK f2 : f2 = f
    OBVIOUS
  <2> HIDE DEF f, Item, D
  <2>2. Eq(f2) /\ f2 = f
    BY <1>6, <2>1
  <2> QED
    BY <2>2
<1>9. \A t \in D : f[t] = FindVar(es, t, name) /\ FindVar(es, t, name) \in D
  <2> DEFINE S == {k \in Nat : \A t \in D : t <= k => f[t] = FindVar(es, t, name) /\ FindVar(es, t, name) \in D}
  <2> HIDE DEF f
  <2>0. D \subseteq 0 .. Len(es)
    BY <1>1
  <2>1. 0 \in S
    <3>1. \A t \in D : t <= 0 => t = 0
      BY <1>1, <2>0
    <3> QED
      BY <1>4, <1>8, <3>1
  <2>2. \A k \in Nat : k \in S => k + 1 \in S
    <3> SUFFICES ASSUME NEW k \in Nat, k \in S PROVE k + 1 \in S
      OBVIOUS
    <3>1. ASSUME NEW t \in D, t <= k + 1 PROVE f[t] = FindVar(es, t, name) /\ FindVar(es, t, name) \in D
      <4>1. CASE t = 0
        BY <1>4, <1>8, <4>1
      <4>2. CASE t # 0
        <5>1. t \in DOMAIN es \ M
          BY <4>2
        <5>2. PICK o : o = sc[t].outer
          OBVIOUS
        <5>3. /\ name \in DOMAIN sc[t].bound <=> PlaceOf(es[t].vars, name) # 0
              /\ o \in D /\ o \in 0 .. t - 1
              /\ FindVar(es, t, name) = IF PlaceOf(es[t].vars, name) # 0 THEN t ELSE FindVar(es, o, name)
          BY <1>3, <5>1, <5>2
        <5>4. o <= k
          BY <1>1, <2>0, <3>1, <5>3
        <5>5. f[o] = FindVar(es, o, name) /\ FindVar(es, o, name) \in D
          BY <5>3, <5>4
        <5>6. f[t] = IF name \in DOMAIN sc[t].bound THEN t ELSE f[o]
          BY <1>8, <4>2, <5>2
        <5> HIDE DEF sc, D
        <5> QED
          BY <5>3, <5>5, <5>6
      <4> QED
        BY <4>1, <4>2
    <3> HIDE DEF D
    <3>2. k + 1 \in Nat
      OBVIOUS
    <3> QED
      BY <3>1, <3>2
  <2>3. Len(es) \in S
    <3> HIDE DEF S
    <3> QED
      BY <1>1, <2>1, <2>2, NatSetInduction
  <2>4. \A t \in D : t <= Len(es)
    BY <1>1, <2>0
  <2> HIDE DEF D
  <2> QED
    BY <2>3, <2>4
<1> QED
  BY <1>7, <1>9

(* A function with one more argument, or another value at it.              *)
With(f, n, v) == [m \in DOMAIN f \cup {n} |-> IF m = n THEN v ELSE f[m]]

LEMMA BoundIs ==
  ASSUME NEW list \in Seq(VarRecord), UniqueVars(list), NEW list2 \in Seq(VarRecord), UniqueVars(list2),
         NEW n, NEW v,
         \E i \in 1 .. Len(list2) : list2[i].name = n /\ list2[i].value = v,
         \A i \in 1 .. Len(list2) : list2[i].name # n => \E j \in 1 .. Len(list) : list[j] = list2[i],
         \A j \in 1 .. Len(list) : list[j].name # n => \E i \in 1 .. Len(list2) : list2[i] = list[j]
  PROVE  BoundOf(list2) = With(BoundOf(list), n, v)
<1>1. PICK b, b2 : b = BoundOf(list) /\ b2 = BoundOf(list2)
  OBVIOUS
<1>2. /\ DOMAIN b = {list[i].name : i \in 1 .. Len(list)}
      /\ \A i \in 1 .. Len(list) : b[list[i].name] = list[i].value
  BY <1>1, BoundFacts
<1>3. /\ DOMAIN b2 = {list2[i].name : i \in 1 .. Len(list2)}
      /\ \A i \in 1 .. Len(list2) : b2[list2[i].name] = list2[i].value
  BY <1>1, BoundFacts
<1>4. b2 = [m \in DOMAIN b2 |-> b2[m]]
  BY <1>1 DEF BoundOf
<1>5. DOMAIN b2 = DOMAIN b \cup {n}
  BY <1>2, <1>3
<1>6. ASSUME NEW m \in DOMAIN b2 PROVE b2[m] = IF m = n THEN v ELSE b[m]
  <2>1. PICK i \in 1 .. Len(list2) : list2[i].name = m
    BY <1>3
  <2>2. b2[m] = list2[i].value
    BY <1>3, <2>1
  <2>3. CASE m = n
    <3>1. PICK k \in 1 .. Len(list2) : list2[k].name = n /\ list2[k].value = v
      OBVIOUS
    <3>2. b2[n] = v
      BY <1>3, <3>1
    <3> QED
      BY <2>3, <3>2
  <2>4. CASE m # n
    <3>1. PICK j \in 1 .. Len(list) : list[j] = list2[i]
      BY <2>1, <2>4
    <3>2. b[list[j].name] = list[j].value
      BY <1>2
    <3> QED
      BY <2>1, <2>2, <2>4, <3>1, <3>2
  <2> QED
    BY <2>3, <2>4
<1>7. [m \in DOMAIN b2 |-> b2[m]] = With(b, n, v)
  BY <1>5, <1>6 DEF With
<1> QED
  BY <1>1, <1>4, <1>7

LEMMA BoundReplaced ==
  ASSUME NEW list \in Seq(VarRecord), UniqueVars(list), NEW name \in Symbols, NEW v \in Values, PlaceOf(list, name) # 0
  PROVE  BoundOf(ReplaceAt(list, PlaceOf(list, name), [name |-> name, value |-> v])) = With(BoundOf(list), name, v)
<1> DEFINE r == [name |-> name, value |-> v]
<1>1. PICK k : k = PlaceOf(list, name)
  OBVIOUS
<1>2. k \in 1 .. Len(list) /\ list[k].name = name
  <2>1. k \in 0 .. Len(list) /\ list[k].name = name /\ Len(list) \in Nat
    BY <1>1, PlaceFacts, LenProperties
  <2> QED
    BY <1>1, <2>1
<1>3. r \in VarRecord /\ r.name = name /\ r.value = v
  BY DEF VarRecord
<1>4. PICK list2 : list2 = ReplaceAt(list, k, r)
  OBVIOUS
<1>5. list2 \in Seq(VarRecord) /\ UniqueVars(list2)
  BY <1>2, <1>4, VarReplaced
<1> HIDE DEF r
<1>6. Len(list2) = Len(list) /\ \A j \in 1 .. Len(list) : list2[j] = IF j = k THEN r ELSE list[j]
  <2>1. list2 = [list EXCEPT ![k] = r]
    BY <1>4 DEF ReplaceAt
  <2> QED
    BY <1>2, <1>3, <2>1, ExceptSeq
<1>7. \E i \in 1 .. Len(list2) : list2[i].name = name /\ list2[i].value = v
  BY <1>2, <1>3, <1>6
<1>8. \A i \in 1 .. Len(list2) : list2[i].name # name => \E j \in 1 .. Len(list) : list[j] = list2[i]
  BY <1>3, <1>6
<1>9. \A j \in 1 .. Len(list) : list[j].name # name => \E i \in 1 .. Len(list2) : list2[i] = list[j]
  BY <1>2, <1>6
<1>10. BoundOf(list2) = With(BoundOf(list), name, v)
  BY <1>5, <1>7, <1>8, <1>9, BoundIs
<1> QED
  BY <1>1, <1>4, <1>10 DEF r

LEMMA BoundAppended ==
  ASSUME NEW list \in Seq(VarRecord), UniqueVars(list), NEW name \in Symbols, NEW v \in Values, PlaceOf(list, name) = 0
  PROVE  BoundOf(Append(list, [name |-> name, value |-> v])) = With(BoundOf(list), name, v)
<1> DEFINE r == [name |-> name, value |-> v]
<1>2. \A i \in 1 .. Len(list) : list[i].name # name
  BY PlaceFacts
<1>3. r \in VarRecord /\ r.name = name /\ r.value = v
  BY DEF VarRecord
<1>4. PICK list2 : list2 = Append(list, r)
  OBVIOUS
<1>5. list2 \in Seq(VarRecord) /\ UniqueVars(list2)
  BY <1>2, <1>4, VarAppended
<1> HIDE DEF r
<1>6. /\ Len(list2) = Len(list) + 1 /\ Len(list) \in Nat
      /\ \A j \in 1 .. Len(list) : list2[j] = list[j]
      /\ list2[Len(list) + 1] = r
  BY <1>3, <1>4, AppendProperties, LenProperties
<1>7. \E i \in 1 .. Len(list2) : list2[i].name = name /\ list2[i].value = v
  <2>1. Len(list) + 1 \in 1 .. Len(list2)
    BY <1>6
  <2> QED
    BY <1>3, <1>6, <2>1
<1>8. \A i \in 1 .. Len(list2) : list2[i].name # name => \E j \in 1 .. Len(list) : list[j] = list2[i]
  <2> TAKE i \in 1 .. Len(list2)
  <2>1. i \in 1 .. Len(list) \/ i = Len(list) + 1
    BY <1>6
  <2> QED
    BY <1>3, <1>6, <2>1
<1>9. \A j \in 1 .. Len(list) : list[j].name # name => \E i \in 1 .. Len(list2) : list2[i] = list[j]
  <2> TAKE j \in 1 .. Len(list)
  <2>1. j \in 1 .. Len(list2) /\ list2[j] = list[j]
    BY <1>6
  <2> QED
    BY <2>1
<1>10. BoundOf(list2) = With(BoundOf(list), name, v)
  BY <1>5, <1>7, <1>8, <1>9, BoundIs
<1> QED
  BY <1>4, <1>10 DEF r

BindIn(sc, s, n, v) == [sc EXCEPT ![s].bound = With(@, n, v)]

(* The list of an environment exchanged.                                   *)
LEMMA ScopesPut ==
  ASSUME NEW es, EnvsOK(es), NEW M, TwoLevels(es, M), NEW e \in DOMAIN es \ M, NEW list,
         NEW n, NEW v, BoundOf(list) = With(BoundOf(es[e].vars), n, v)
  PROVE  /\ ScopesOf([es EXCEPT ![e].vars = list], M) = BindIn(ScopesOf(es, M), e, n, v)
         /\ TwoLevels([es EXCEPT ![e].vars = list], M)
<1>1. PICK es2 : es2 = [es EXCEPT ![e].vars = list]
  OBVIOUS
<1>2. DOMAIN es = 1 .. Len(es) /\ es \in Seq(EnvRecord)
  BY LenProperties DEF EnvsOK
<1>3. /\ DOMAIN es2 = DOMAIN es
      /\ \A i \in DOMAIN es : es2[i].parent = es[i].parent /\ es2[i].vars = IF i = e THEN list ELSE es[i].vars
  <2>1. \A i \in DOMAIN es : es[i] \in EnvRecord
    BY <1>2, ElementOfSeq
  <2> QED
    BY <1>1, <2>1 DEF EnvRecord
<1>4. TwoLevels(es2, M)
  BY <1>3 DEF TwoLevels
<1>5. PICK sc : sc = ScopesOf(es, M)
  OBVIOUS
<1>6. \A i \in DOMAIN es \ M : OuterOf(es2, i) = OuterOf(es, i)
  <2> TAKE i \in DOMAIN es \ M
  <2>1. es[i].parent # 0 => es[i].parent \in DOMAIN es
    BY DEF TwoLevels
  <2> QED
    BY <1>3, <2>1 DEF OuterOf
<1>7. \A i \in DOMAIN es \ M : sc[i] = [outer |-> OuterOf(es, i), bound |-> BoundOf(es[i].vars)]
  BY <1>5 DEF ScopesOf
<1>8. ScopesOf(es2, M) = [i \in DOMAIN es \ M |->
         IF i = e THEN [outer |-> sc[i].outer, bound |-> With(sc[i].bound, n, v)] ELSE sc[i]]
  <2>1. ASSUME NEW i \in DOMAIN es \ M
        PROVE  [outer |-> OuterOf(es2, i), bound |-> BoundOf(es2[i].vars)]
                 = IF i = e THEN [outer |-> sc[i].outer, bound |-> With(sc[i].bound, n, v)] ELSE sc[i]
    <3>1. sc[i].outer = OuterOf(es, i) /\ sc[i].bound = BoundOf(es[i].vars)
      <4>1. PICK o, b : o = OuterOf(es, i) /\ b = BoundOf(es[i].vars)
        OBVIOUS
      <4>2. sc[i] = [outer |-> o, bound |-> b]
        BY <1>7, <4>1
      <4> QED
        BY <4>1, <4>2
    <3>2. es2[i].vars = IF i = e THEN list ELSE es[i].vars
      BY <1>3
    <3>3. OuterOf(es2, i) = OuterOf(es, i)
      BY <1>6
    <3>4. CASE i = e
      <4>1. BoundOf(es2[i].vars) = With(sc[i].bound, n, v)
        BY <3>1, <3>2, <3>4
      <4> QED
        BY <3>1, <3>3, <3>4, <4>1
    <3>5. CASE i # e
      <4>1. BoundOf(es2[i].vars) = BoundOf(es[i].vars)
        BY <3>2, <3>5
      <4> QED
        BY <1>7, <3>3, <3>5, <4>1
    <3> QED
      BY <3>4, <3>5
  <2> QED
    BY <1>3, <2>1 DEF ScopesOf
<1>9. BindIn(sc, e, n, v) = [i \in DOMAIN es \ M |->
         IF i = e THEN [outer |-> sc[i].outer, bound |-> With(sc[i].bound, n, v)] ELSE sc[i]]
  <2>1. DOMAIN sc = DOMAIN es \ M /\ sc = [i \in DOMAIN es \ M |-> sc[i]]
    BY <1>5 DEF ScopesOf
  <2>2. [sc[e] EXCEPT !.bound = With(@, n, v)] = [outer |-> sc[e].outer, bound |-> With(sc[e].bound, n, v)]
    <3>1. PICK o, b, w : o = OuterOf(es, e) /\ b = BoundOf(es[e].vars) /\ w = With(sc[e].bound, n, v)
      OBVIOUS
    <3>2. sc[e] = [outer |-> o, bound |-> b]
      BY <1>7, <3>1
    <3>3. [sc[e] EXCEPT !.bound = w] = [outer |-> sc[e].outer, bound |-> w]
      BY <3>2
    <3> QED
      BY <3>1, <3>3
  <2> QED
    BY <2>1, <2>2 DEF BindIn
<1> QED
  BY <1>1, <1>4, <1>5, <1>8, <1>9

(***************************************************************************)
(* The machine as it looks through its scopes.                             *)
(***************************************************************************)
ClosureOf(es, ts) == [u \in Functions(ts) |-> es[ts[u].env].parent]
Scoped == ScopesOf(envs, MadeEnvs(things))
Opened == [i \in DOMAIN frames |-> frames[i].env]
Closed == ClosureOf(envs, things)

ScopeInv ==
  /\ NamesInv /\ TwoLevels(envs, MadeEnvs(things))
  /\ \A i \in 1 .. Len(frames) : frames[i].env \notin MadeEnvs(things)

LEMMA OpenedFacts ==
  ASSUME NamesInv
  PROVE  /\ DOMAIN Opened = 1 .. Len(frames) /\ Len(Opened) = Len(frames) /\ Opened \in Seq(Nat)
         /\ \A i \in 1 .. Len(frames) : Opened[i] = frames[i].env
         /\ Opened[Len(Opened)] = Running.env
<1>1. DOMAIN frames = 1 .. Len(frames) /\ Len(frames) \in Nat /\ Len(frames) > 0
  BY LenProperties DEF NamesInv, FramesOK
<1>2. \A i \in 1 .. Len(frames) : frames[i].env \in Nat
  <2>1. FramesOK(frames, Len(envs)) /\ Len(envs) \in Nat
    BY Parts, Counts
  <2>2. \A i \in 1 .. Len(frames) : frames[i].env \in 1 .. Len(envs)
    BY <2>1 DEF FramesOK
  <2> QED
    BY <2>1, <2>2
<1>3. Opened \in [1 .. Len(frames) -> Nat]
  BY <1>1, <1>2 DEF Opened
<1>4. Opened \in Seq(Nat) /\ Len(Opened) = Len(frames)
  <2>1. Opened \in Seq(Nat)
    BY <1>1, <1>3, SeqDef
  <2> QED
    BY <1>1, <1>3, <2>1, LenProperties
<1> QED
  BY <1>1, <1>3, <1>4 DEF Opened, Running

LEMMA LexicalTop ==
  ASSUME NamesInv
  PROVE  Lexical!Top = Running.env
BY OpenedFacts DEF Lexical!Top, Opened

(* The running call is in a scope, with its variables.                     *)
LEMMA ScopedFacts ==
  ASSUME ScopeInv
  PROVE  /\ Running.env \in DOMAIN envs \ MadeEnvs(things) /\ Running.env \in 1 .. Len(envs)
         /\ DOMAIN Scoped = DOMAIN envs \ MadeEnvs(things)
         /\ \A e \in DOMAIN Scoped : Scoped[e].bound = BoundOf(envs[e].vars) /\ Scoped[e].outer = OuterOf(envs, e)
<1>1. NamesInv
  BY DEF ScopeInv
<1>2. Running.env \in 1 .. Len(envs) /\ DOMAIN envs = 1 .. Len(envs) /\ Len(frames) \in 1 .. Len(frames)
  <2>1. Len(frames) \in Nat /\ Len(frames) > 0 /\ DOMAIN envs = 1 .. Len(envs)
    BY <1>1, Counts, Parts DEF FramesOK
  <2> QED
    BY <1>1, <2>1, RunningFacts
<1>3. Running.env \notin MadeEnvs(things)
  BY <1>2 DEF ScopeInv, Running
<1>4. DOMAIN Scoped = DOMAIN envs \ MadeEnvs(things)
  BY DEF Scoped, ScopesOf
<1>5. ASSUME NEW e \in DOMAIN Scoped
      PROVE  Scoped[e].bound = BoundOf(envs[e].vars) /\ Scoped[e].outer = OuterOf(envs, e)
  <2>1. PICK o, b : o = OuterOf(envs, e) /\ b = BoundOf(envs[e].vars)
    OBVIOUS
  <2>2. Scoped[e] = [outer |-> o, bound |-> b]
    BY <1>4, <2>1 DEF Scoped, ScopesOf
  <2> QED
    BY <2>1, <2>2
<1> QED
  BY <1>2, <1>3, <1>4, <1>5

LEMMA LexicalBinding ==
  ASSUME ScopeInv, NEW name
  PROVE  Lexical!Binding(Running.env, name) = FindVar(envs, Running.env, name)
<1>1. Lexical!Binding(Running.env, name) = BindingIn(Scoped, Running.env, name)
  BY DEF Lexical!Binding, Lexical!Binds, BindingIn, Scoped, ScopesOf, MadeEnvs, Functions, ClosureEnvs, Outer, OuterOf, Bound, BoundOf
<1>2. Running.env \in DOMAIN envs \ MadeEnvs(things)
  BY ScopedFacts
<1> QED
  BY <1>1, <1>2, BindingIsFound DEF ScopeInv, NamesInv, Scoped

LEMMA LexicalBind ==
  ASSUME NEW s, NEW n, NEW v
  PROVE  Lexical!Bind(s, n, v) = BindIn(Scoped, s, n, v)
BY DEF Lexical!Bind, BindIn, With, Scoped, ScopesOf, MadeEnvs, Functions, ClosureEnvs, Outer, OuterOf, Bound, BoundOf

LEMMA LexicalDeclare ==
  ASSUME NEW n \in Symbols, NamesInv, status = "running",
         got'.op = "declare", got'.name = n, got'.value \in Values,
         \/ Scoped' = BindIn(Scoped, Running.env, n, Undefined)
         \/ DOMAIN Scoped[Running.env].bound = {} /\ Scoped' = Scoped,
         UNCHANGED <<Opened, Closed, status>>
  PROVE  Lexical!ScopesNext
<1>1. Lexical!Declare(n)
  BY LexicalTop, LexicalBind DEF Lexical!Declare, Lexical!Told, Opened, Closed, ClosureOf, Functions, Scoped, ScopesOf, MadeEnvs, ClosureEnvs, Outer, OuterOf, Bound, BoundOf
<1> QED
  BY <1>1 DEF Lexical!ScopesNext

LEMMA LexicalArgument ==
  ASSUME NEW n \in Symbols, ScopeInv, status = "running",
         got'.op = "argument", got'.name = n, got'.value \in Values,
         \/ Scoped' = BindIn(Scoped, Running.env, n, got'.value)
         \/ /\ DOMAIN Scoped[Running.env].bound = {} /\ FindVar(envs, Running.env, n) # 0
            /\ Scoped' = BindIn(Scoped, FindVar(envs, Running.env, n), n, got'.value),
         UNCHANGED <<Opened, Closed, status>>
  PROVE  Lexical!ScopesNext
<1>1. Lexical!Argument(n)
  BY LexicalTop, LexicalBind, LexicalBinding DEF Lexical!Argument, Lexical!Told, Opened, Closed, ClosureOf, Functions, Scoped, ScopesOf, MadeEnvs, ClosureEnvs, Outer, OuterOf, Bound, BoundOf, ScopeInv
<1> QED
  BY <1>1 DEF Lexical!ScopesNext

LEMMA LexicalLoad ==
  ASSUME NEW n \in Symbols, ScopeInv, status = "running", FindVar(envs, Running.env, n) # 0,
         got'.op = "load", got'.name = n, got'.value \in Values,
         got'.value = Scoped[FindVar(envs, Running.env, n)].bound[n],
         UNCHANGED <<Scoped, Opened, Closed, status>>
  PROVE  Lexical!ScopesNext
<1>1. Lexical!Load(n)
  BY LexicalTop, LexicalBinding DEF Lexical!Load, Lexical!Told, Opened, Closed, ClosureOf, Functions, Scoped, ScopesOf, MadeEnvs, ClosureEnvs, Outer, OuterOf, Bound, BoundOf, ScopeInv
<1> QED
  BY <1>1 DEF Lexical!ScopesNext

LEMMA LexicalStore ==
  ASSUME NEW n \in Symbols, ScopeInv, status = "running", FindVar(envs, Running.env, n) # 0,
         got'.op = "store", got'.name = n, got'.value \in Values,
         Scoped' = BindIn(Scoped, FindVar(envs, Running.env, n), n, got'.value),
         UNCHANGED <<Opened, Closed, status>>
  PROVE  Lexical!ScopesNext
<1>1. Lexical!Store(n)
  BY LexicalTop, LexicalBind, LexicalBinding DEF Lexical!Store, Lexical!Told, Opened, Closed, ClosureOf, Functions, Scoped, ScopesOf, MadeEnvs, ClosureEnvs, Outer, OuterOf, Bound, BoundOf, ScopeInv
<1> QED
  BY <1>1 DEF Lexical!ScopesNext

LEMMA LexicalUnbound ==
  ASSUME NEW n \in Symbols, ScopeInv, status = "running", FindVar(envs, Running.env, n) = 0,
         status' = "no variable", UNCHANGED <<Scoped, Opened, Closed>>
  PROVE  Lexical!ScopesNext
<1>1. Lexical!Unbound(n)
  BY LexicalTop, LexicalBinding DEF Lexical!Unbound, Opened, Closed, ClosureOf, Functions, Scoped, ScopesOf, MadeEnvs, ClosureEnvs, Outer, OuterOf, Bound, BoundOf, ScopeInv
<1> QED
  BY <1>1 DEF Lexical!ScopesNext

LEMMA LexicalClose ==
  ASSUME ScopeInv, status = "running", got'.op = "function",
         NEW f, f \notin DOMAIN Closed, Closed' = With(Closed, f, Running.env),
         UNCHANGED <<Scoped, Opened, status>>
  PROVE  Lexical!ScopesNext
<1>1. Lexical!Close
  <2>1. f \in DOMAIN Closed' \ DOMAIN Closed
    BY DEF With
  <2>2. Lexical!Top = Running.env
    BY LexicalTop DEF ScopeInv
  <2>3. Closed' = Lexical!Extended(Closed, f, Lexical!Top)
    BY <2>2 DEF Lexical!Extended, With
  <2>4. \E g \in DOMAIN Closed' \ DOMAIN Closed : Closed' = Lexical!Extended(Closed, g, Lexical!Top)
    BY <2>1, <2>3
  <2> QED
    BY <2>4 DEF Lexical!Close, Opened, Closed, ClosureOf, Functions, Scoped, ScopesOf, MadeEnvs, ClosureEnvs, Outer, OuterOf, Bound, BoundOf
<1> QED
  BY <1>1 DEF Lexical!ScopesNext

LEMMA LexicalEnter ==
  ASSUME ScopeInv, status = "running", got'.op \in {"call", "new"}, got'.of.is \in DOMAIN Closed,
         NEW s, s \notin DOMAIN Scoped, Scoped' = With(Scoped, s, [outer |-> Closed[got'.of.is], bound |-> <<>>]),
         Opened' = Append(Opened, s),
         UNCHANGED <<Closed, status>>
  PROVE  Lexical!ScopesNext
<1>1. Lexical!Enter
  <2>1. s \in DOMAIN Scoped' \ DOMAIN Scoped
    BY DEF With
  <2>2. PICK f \in DOMAIN Closed : f = got'.of.is
    OBVIOUS
  <2>3. Scoped' = With(Scoped, s, [outer |-> Closed[f], bound |-> <<>>])
    BY <2>2
  <2> QED
    BY <2>1, <2>2, <2>3 DEF Lexical!Enter, Lexical!Extended, With, Opened, Closed, ClosureOf, Functions, Scoped, ScopesOf, MadeEnvs, ClosureEnvs, Outer, OuterOf, Bound, BoundOf
<1> QED
  BY <1>1 DEF Lexical!ScopesNext

LEMMA LexicalLeave ==
  ASSUME ScopeInv, status = "running", got'.op = "return",
         Len(Opened) > 1, Opened' = SubSeq(Opened, 1, Len(Opened) - 1),
         UNCHANGED <<Scoped, Closed, status>>
  PROVE  Lexical!ScopesNext
<1>1. Lexical!Leave
  BY DEF Lexical!Leave, Opened, Closed, ClosureOf, Functions, Scoped, ScopesOf, MadeEnvs, ClosureEnvs, Outer, OuterOf, Bound, BoundOf
<1> QED
  BY <1>1 DEF Lexical!ScopesNext

LEMMA LexicalElse ==
  ASSUME status = "running",
         \/ status' \notin {"running", "no variable"}
         \/ status' = "running" /\ got'.op \in {"object", "set", "get"},
         UNCHANGED <<Scoped, Opened, Closed>>
  PROVE  Lexical!ScopesNext
<1>1. Lexical!Else
  BY DEF Lexical!Else, Opened, Closed, ClosureOf, Functions, Scoped, ScopesOf, MadeEnvs, ClosureEnvs, Outer, OuterOf, Bound, BoundOf
<1> QED
  BY <1>1 DEF Lexical!ScopesNext

LEMMA LexicalStutter ==
  ASSUME UNCHANGED <<Scoped, Opened, Closed, got, status>>
  PROVE  UNCHANGED Lexical!vars
BY DEF Lexical!vars, Opened, Closed, ClosureOf, Functions, Scoped, ScopesOf, MadeEnvs, ClosureEnvs, Outer, OuterOf, Bound, BoundOf

(***************************************************************************)
(* Scopes after a change.                                                  *)
(***************************************************************************)
LEMMA FindVarFinds ==
  ASSUME NEW es, EnvsOK(es), NEW name, NEW e \in 0 .. Len(es)
  PROVE  /\ FindVar(es, e, name) \in 0 .. Len(es)
         /\ FindVar(es, e, name) # 0 => PlaceOf(es[FindVar(es, e, name)].vars, name) # 0
<1> DEFINE P(x) == /\ FindVar(es, x, name) \in 0 .. Len(es)
                   /\ FindVar(es, x, name) # 0 => PlaceOf(es[FindVar(es, x, name)].vars, name) # 0
           S == {k \in Nat : \A x \in 0 .. Len(es) : x <= k => P(x)}
<1>0. Len(es) \in Nat /\ \A i \in 1 .. Len(es) : es[i].parent \in 0 .. i - 1
  BY LenProperties DEF EnvsOK
<1>1. P(0)
  BY <1>0, FindVarStep
<1>2. 0 \in S
  <2>1. \A x \in 0 .. Len(es) : x <= 0 => x = 0
    BY <1>0
  <2> HIDE DEF P
  <2> QED
    BY <1>1, <2>1
<1>3. ASSUME NEW k \in Nat, k \in S PROVE k + 1 \in S
  <2>1. ASSUME NEW x \in 0 .. Len(es), x <= k + 1 PROVE P(x)
    <3>1. CASE x = 0
      BY <1>1, <3>1
    <3>2. CASE x # 0
      <4>1. PICK p : p = es[x].parent
        OBVIOUS
      <4>2. x \in 1 .. Len(es)
        BY <1>0, <3>2
      <4>3. p \in 0 .. x - 1
        BY <1>0, <4>1, <4>2
      <4>4. p \in 0 .. Len(es) /\ p <= k
        BY <2>1, <4>2, <4>3
      <4>5. P(p)
        BY <1>3, <4>4
      <4>6. PICK v : v = FindVar(es, x, name)
        OBVIOUS
      <4>7. v = IF PlaceOf(es[x].vars, name) # 0 THEN x ELSE FindVar(es, p, name)
        BY <4>1, <4>2, <4>6, FindVarStep
      <4>8. v \in 0 .. Len(es) /\ (v # 0 => PlaceOf(es[v].vars, name) # 0)
        BY <4>5, <4>7
      <4> QED
        BY <4>6, <4>8
    <3> QED
      BY <3>1, <3>2
  <2>2. k + 1 \in Nat
    OBVIOUS
  <2> HIDE DEF P
  <2> QED
    BY <2>1, <2>2
<1>4. Len(es) \in S
  <2> HIDE DEF S
  <2> QED
    BY <1>0, <1>2, <1>3, NatSetInduction
<1>5. P(e)
  <2>1. e <= Len(es)
    BY <1>0
  <2> HIDE DEF P
  <2> QED
    BY <1>4, <2>1
<1> QED
  BY <1>5

(* What lies around the environments of functions stays.                   *)
LEMMA ClosurePut ==
  ASSUME NEW es, EnvsOK(es), NEW ts, MadeEnvs(ts) \subseteq DOMAIN es, NEW e, NEW list
  PROVE  ClosureOf([es EXCEPT ![e].vars = list], ts) = ClosureOf(es, ts)
<1>1. PICK es2 : es2 = [es EXCEPT ![e].vars = list]
  OBVIOUS
<1>2. \A i \in DOMAIN es : es2[i].parent = es[i].parent
  <2>1. \A i \in DOMAIN es : es[i] \in EnvRecord
    BY ElementOfSeq, LenProperties DEF EnvsOK
  <2> QED
    BY <1>1, <2>1 DEF EnvRecord
<1>3. \A u \in Functions(ts) : ts[u].env \in DOMAIN es
  BY DEF MadeEnvs
<1> QED
  BY <1>1, <1>2, <1>3 DEF ClosureOf

LEMMA AssignedScopes ==
  ASSUME NEW es, EnvsOK(es), NEW ts, TwoLevels(es, MadeEnvs(ts)), NEW e \in DOMAIN es \ MadeEnvs(ts),
         NEW n \in Symbols, NEW v \in Values, PlaceOf(es[e].vars, n) # 0
  PROVE  /\ ScopesOf(Assigned(es, e, n, v), MadeEnvs(ts)) = BindIn(ScopesOf(es, MadeEnvs(ts)), e, n, v)
         /\ TwoLevels(Assigned(es, e, n, v), MadeEnvs(ts))
         /\ ClosureOf(Assigned(es, e, n, v), ts) = ClosureOf(es, ts)
<1>1. PICK list : list = ReplaceAt(es[e].vars, PlaceOf(es[e].vars, n), [name |-> n, value |-> v])
  OBVIOUS
<1>2. Assigned(es, e, n, v) = [es EXCEPT ![e].vars = list]
  BY <1>1 DEF Assigned
<1>3. BoundOf(list) = With(BoundOf(es[e].vars), n, v)
  <2>1. e \in 1 .. Len(es)
    BY LenProperties DEF EnvsOK
  <2>2. es[e].vars \in Seq(VarRecord) /\ UniqueVars(es[e].vars)
    BY <2>1, VarsOf1
  <2> QED
    BY <1>1, <2>2, BoundReplaced
<1>4. MadeEnvs(ts) \subseteq DOMAIN es
  BY DEF TwoLevels
<1>5. ScopesOf([es EXCEPT ![e].vars = list], MadeEnvs(ts)) = BindIn(ScopesOf(es, MadeEnvs(ts)), e, n, v)
  BY <1>3, ScopesPut
<1>6. TwoLevels([es EXCEPT ![e].vars = list], MadeEnvs(ts))
  BY <1>3, ScopesPut
<1>7. ClosureOf([es EXCEPT ![e].vars = list], ts) = ClosureOf(es, ts)
  BY <1>4, ClosurePut
<1> QED
  BY <1>2, <1>5, <1>6, <1>7

LEMMA SetVarScopes ==
  ASSUME EnvsOK(envs), NEW ts, TwoLevels(envs, MadeEnvs(ts)), NEW e \in DOMAIN envs \ MadeEnvs(ts),
         NEW n \in Symbols, NEW v \in Values, NEW room,
         PlaceOf(envs[e].vars, n) # 0 \/ room
  PROVE  /\ ScopesOf(SetVar(e, n, v, room).envs, MadeEnvs(ts)) = BindIn(ScopesOf(envs, MadeEnvs(ts)), e, n, v)
         /\ TwoLevels(SetVar(e, n, v, room).envs, MadeEnvs(ts))
         /\ ClosureOf(SetVar(e, n, v, room).envs, ts) = ClosureOf(envs, ts)
         /\ FindVar(SetVar(e, n, v, room).envs, e, n) = e
         /\ PlaceOf(SetVar(e, n, v, room).envs[e].vars, n) # 0
<1>0. e \in 1 .. Len(envs)
  BY LenProperties DEF EnvsOK
<1>1. PICK old : old = envs[e].vars
  OBVIOUS
<1>2. old \in Seq(VarRecord) /\ UniqueVars(old)
  BY <1>0, <1>1, VarsOf1
<1>3. PICK list : list = IF PlaceOf(old, n) # 0 THEN ReplaceAt(old, PlaceOf(old, n), [name |-> n, value |-> v])
                         ELSE IF room THEN Append(old, [name |-> n, value |-> v]) ELSE old
  OBVIOUS
<1>4. SetVar(e, n, v, room).envs = [envs EXCEPT ![e].vars = list]
  BY <1>1, <1>3 DEF SetVar
<1>5. BoundOf(list) = With(BoundOf(old), n, v) /\ list \in Seq(VarRecord)
  <2>1. CASE PlaceOf(old, n) # 0
    <3>1. BoundOf(list) = With(BoundOf(old), n, v)
      BY <1>2, <1>3, <2>1, BoundReplaced
    <3>2. PlaceOf(old, n) \in 0 .. Len(old) /\ Len(old) \in Nat /\ old[PlaceOf(old, n)].name = n
      BY <1>2, <2>1, PlaceFacts, LenProperties
    <3>3. PlaceOf(old, n) \in 1 .. Len(old)
      BY <2>1, <3>2
    <3>4. list \in Seq(VarRecord)
      BY <1>2, <1>3, <2>1, <3>2, <3>3, VarReplaced
    <3> QED
      BY <3>1, <3>4
  <2>2. CASE PlaceOf(old, n) = 0
    <3>1. list = Append(old, [name |-> n, value |-> v])
      BY <1>1, <1>3, <2>2
    <3>2. \A i \in 1 .. Len(old) : old[i].name # n
      BY <1>2, <2>2, PlaceFacts
    <3> QED
      BY <1>2, <2>2, <3>1, <3>2, BoundAppended, VarAppended
  <2> QED
    BY <2>1, <2>2
<1>6. MadeEnvs(ts) \subseteq DOMAIN envs
  BY DEF TwoLevels
<1>7. BoundOf(list) = With(BoundOf(envs[e].vars), n, v)
  BY <1>1, <1>5
<1>8. ScopesOf([envs EXCEPT ![e].vars = list], MadeEnvs(ts)) = BindIn(ScopesOf(envs, MadeEnvs(ts)), e, n, v)
  BY <1>7, ScopesPut
<1>9. TwoLevels([envs EXCEPT ![e].vars = list], MadeEnvs(ts))
  BY <1>7, ScopesPut
<1>10. ClosureOf([envs EXCEPT ![e].vars = list], ts) = ClosureOf(envs, ts)
  BY <1>6, ClosurePut
<1>11. PICK es : es = [envs EXCEPT ![e].vars = list]
  OBVIOUS
<1>12. PlaceOf(es[e].vars, n) # 0
  <2>1. es[e].vars = list
    <3>1. envs[e] \in EnvRecord
      BY <1>0, ElementOfSeq DEF EnvsOK
    <3> QED
      BY <1>11, <3>1 DEF EnvRecord
  <2>2. n \in DOMAIN BoundOf(list)
    BY <1>5 DEF With
  <2> QED
    BY <1>5, <2>1, <2>2, BoundFacts
<1>13. FindVar(es, e, n) = e
  <2>1. EnvsOK(es) /\ Len(es) = Len(envs)
    BY <1>0, <1>4, <1>11, SetVarKeeps
  <2> QED
    BY <1>0, <1>12, <2>1, FindVarStep
<1> QED
  BY <1>4, <1>8, <1>9, <1>10, <1>11, <1>12, <1>13

(* A declaration that found no block and said nothing.                     *)
LEMMA SetVarLost ==
  ASSUME EnvsOK(envs), NEW e \in 1 .. Len(envs), NEW n, NEW v, NEW room,
         SetVar(e, n, v, room).ok, PlaceOf(envs[e].vars, n) = 0, ~room
  PROVE  SetVar(e, n, v, room).envs = envs /\ envs[e].vars = <<>> /\ DOMAIN BoundOf(envs[e].vars) = {}
<1>1. envs[e].vars = <<>>
  BY DEF SetVar
<1>2. SetVar(e, n, v, room).envs = [envs EXCEPT ![e].vars = envs[e].vars]
  BY DEF SetVar
<1>3. envs[e] \in EnvRecord /\ envs \in Seq(EnvRecord)
  BY ElementOfSeq DEF EnvsOK
<1>4. [envs EXCEPT ![e].vars = envs[e].vars] = envs
  <2>1. [envs[e] EXCEPT !.vars = envs[e].vars] = envs[e]
    BY <1>3 DEF EnvRecord
  <2>2. envs = [i \in DOMAIN envs |-> envs[i]]
    BY <1>3, LenProperties
  <2>3. [envs EXCEPT ![e] = envs[e]] = envs
    BY <2>2
  <2> QED
    BY <2>1, <2>3
<1>5. DOMAIN BoundOf(envs[e].vars) = {}
  BY <1>1 DEF BoundOf
<1> QED
  BY <1>1, <1>2, <1>4, <1>5

LEMMA BoundTwice ==
  ASSUME NEW sc, NEW s \in DOMAIN sc, NEW n, NEW u, NEW v,
         sc = [t \in DOMAIN sc |-> sc[t]], NEW o, NEW b, sc[s] = [outer |-> o, bound |-> b]
  PROVE  BindIn(BindIn(sc, s, n, u), s, n, v) = BindIn(sc, s, n, v)
<1>1. PICK w, x, y : w = With(b, n, u) /\ x = With(w, n, v) /\ y = With(b, n, v)
  OBVIOUS
<1>2. x = y
  BY <1>1 DEF With
<1>3. PICK sc2 : sc2 = BindIn(sc, s, n, u)
  OBVIOUS
<1>4. sc2 = [sc EXCEPT ![s] = [outer |-> o, bound |-> w]]
  <2>1. [sc[s] EXCEPT !.bound = With(sc[s].bound, n, u)] = [outer |-> o, bound |-> w]
    BY <1>1
  <2> QED
    BY <1>3, <2>1 DEF BindIn
<1>5. sc2[s] = [outer |-> o, bound |-> w] /\ DOMAIN sc2 = DOMAIN sc
  BY <1>4
<1>6. BindIn(sc2, s, n, v) = [sc2 EXCEPT ![s] = [outer |-> o, bound |-> x]]
  <2>1. [sc2[s] EXCEPT !.bound = With(sc2[s].bound, n, v)] = [outer |-> o, bound |-> x]
    BY <1>1, <1>5
  <2> QED
    BY <2>1 DEF BindIn
<1>7. BindIn(sc, s, n, v) = [sc EXCEPT ![s] = [outer |-> o, bound |-> y]]
  <2>1. [sc[s] EXCEPT !.bound = With(sc[s].bound, n, v)] = [outer |-> o, bound |-> y]
    BY <1>1
  <2> QED
    BY <2>1 DEF BindIn
<1> QED
  BY <1>2, <1>3, <1>4, <1>6, <1>7

(* A call opens a scope.                                                   *)
LEMMA CallScopes ==
  ASSUME NEW es, EnvsOK(es), NEW M, TwoLevels(es, M), NEW m \in M
  PROVE  /\ ScopesOf(Append(es, NewEnv(m)), M) = With(ScopesOf(es, M), Len(es) + 1, [outer |-> es[m].parent, bound |-> <<>>])
         /\ TwoLevels(Append(es, NewEnv(m)), M)
         /\ Len(es) + 1 \notin DOMAIN ScopesOf(es, M) /\ Len(es) + 1 \notin M
<1>1. PICK es2, l : es2 = Append(es, NewEnv(m)) /\ l = Len(es) + 1
  OBVIOUS
<1>2. m \in 1 .. Len(es) /\ DOMAIN es = 1 .. Len(es) /\ Len(es) \in Nat /\ M \subseteq 1 .. Len(es)
  BY LenProperties DEF EnvsOK, TwoLevels
<1>3. PICK r : r = NewEnv(m)
  OBVIOUS
<1>4. r \in EnvRecord /\ r.parent = m /\ r.vars = <<>>
  BY <1>2, <1>3, EmptySeq DEF NewEnv, EnvRecord
<1>5. /\ es2 \in Seq(EnvRecord) /\ Len(es2) = l
      /\ \A i \in 1 .. Len(es) : es2[i] = es[i]
      /\ es2[l] = r
  BY <1>1, <1>3, <1>4, AppendProperties DEF EnvsOK
<1>6. DOMAIN es2 = DOMAIN es \cup {l} /\ l \notin DOMAIN es /\ l \notin M
  <2>1. DOMAIN es2 = 1 .. l
    BY <1>5, LenProperties
  <2> QED
    BY <1>1, <1>2, <2>1
<1>7. TwoLevels(es2, M)
  <2>1. \A i \in M : es2[i] = es[i] /\ i \in DOMAIN es
    BY <1>2, <1>5
  <2>2. \A i \in DOMAIN es2 \ M : i # l => es2[i] = es[i] /\ i \in DOMAIN es \ M
    BY <1>2, <1>5, <1>6
  <2>3. \A i \in M : es2[i].vars = <<>> /\ es2[i].parent \in DOMAIN es2 \ M
    BY <2>1, <1>6 DEF TwoLevels
  <2>4. \A i \in DOMAIN es2 \ M : es2[i].parent \in {0} \cup M
    BY <2>2, <1>4, <1>5 DEF TwoLevels
  <2> QED
    BY <1>2, <1>6, <2>3, <2>4 DEF TwoLevels
<1>8. PICK new : new = [outer |-> es[m].parent, bound |-> <<>>]
  OBVIOUS
<1>9. \A i \in DOMAIN es \ M : OuterOf(es2, i) = OuterOf(es, i) /\ es2[i].vars = es[i].vars
  <2> TAKE i \in DOMAIN es \ M
  <2>1. es[i].parent # 0 => es[i].parent \in 1 .. Len(es)
    BY <1>2 DEF TwoLevels
  <2> QED
    BY <1>2, <1>5, <2>1 DEF OuterOf
<1>10. OuterOf(es2, l) = es[m].parent
  BY <1>2, <1>4, <1>5 DEF OuterOf
<1>11. BoundOf(es2[l].vars) = <<>>
  <2>1. BoundOf(<<>>) = <<>>
    BY DEF BoundOf
  <2> QED
    BY <1>4, <1>5, <2>1
<1>12. ScopesOf(es2, M) = [i \in (DOMAIN es \ M) \cup {l} |-> IF i = l THEN new ELSE [outer |-> OuterOf(es, i), bound |-> BoundOf(es[i].vars)]]
  <2>1. DOMAIN es2 \ M = (DOMAIN es \ M) \cup {l}
    BY <1>6
  <2>2. ASSUME NEW i \in DOMAIN es2 \ M
        PROVE  [outer |-> OuterOf(es2, i), bound |-> BoundOf(es2[i].vars)]
                 = IF i = l THEN new ELSE [outer |-> OuterOf(es, i), bound |-> BoundOf(es[i].vars)]
    <3>1. CASE i = l
      BY <1>8, <1>10, <1>11, <3>1
    <3>2. CASE i # l
      <4>1. i \in DOMAIN es \ M
        BY <1>6, <3>2
      <4>2. OuterOf(es2, i) = OuterOf(es, i) /\ BoundOf(es2[i].vars) = BoundOf(es[i].vars)
        BY <1>9, <4>1
      <4> QED
        BY <3>2, <4>2
    <3> QED
      BY <3>1, <3>2
  <2> QED
    BY <2>1, <2>2 DEF ScopesOf
<1>13. With(ScopesOf(es, M), l, new) = [i \in (DOMAIN es \ M) \cup {l} |-> IF i = l THEN new ELSE [outer |-> OuterOf(es, i), bound |-> BoundOf(es[i].vars)]]
  <2>1. PICK sc : sc = ScopesOf(es, M)
    OBVIOUS
  <2>2. DOMAIN sc = DOMAIN es \ M /\ \A i \in DOMAIN es \ M : sc[i] = [outer |-> OuterOf(es, i), bound |-> BoundOf(es[i].vars)]
    BY <2>1 DEF ScopesOf
  <2> QED
    BY <2>1, <2>2, <1>6 DEF With
<1>14. l \notin DOMAIN ScopesOf(es, M)
  BY <1>6 DEF ScopesOf
<1> QED
  BY <1>1, <1>6, <1>7, <1>8, <1>12, <1>13, <1>14

(* A function opens none; it remembers the one it is made in.              *)
LEMMA FunctionScopes ==
  ASSUME NEW es, EnvsOK(es), NEW ts, TwoLevels(es, MadeEnvs(ts)), NEW p \in DOMAIN es \ MadeEnvs(ts),
         NEW ts2, NEW f, Functions(ts2) = Functions(ts) \cup {f}, f \notin Functions(ts),
         ts2[f].env = Len(es) + 1, \A u \in Functions(ts) : ts2[u].env = ts[u].env
  PROVE  /\ ScopesOf(Append(es, NewEnv(p)), MadeEnvs(ts2)) = ScopesOf(es, MadeEnvs(ts))
         /\ TwoLevels(Append(es, NewEnv(p)), MadeEnvs(ts2))
         /\ ClosureOf(Append(es, NewEnv(p)), ts2) = With(ClosureOf(es, ts), f, p)
         /\ MadeEnvs(ts2) = MadeEnvs(ts) \cup {Len(es) + 1}
<1>1. PICK es2, l : es2 = Append(es, NewEnv(p)) /\ l = Len(es) + 1
  OBVIOUS
<1>0. PICK M, M2 : M = MadeEnvs(ts) /\ M2 = MadeEnvs(ts2)
  OBVIOUS
<1>2. p \in 1 .. Len(es) /\ p \notin M /\ DOMAIN es = 1 .. Len(es) /\ Len(es) \in Nat /\ M \subseteq 1 .. Len(es)
  BY <1>0, LenProperties DEF EnvsOK, TwoLevels
<1>3. PICK r : r = NewEnv(p)
  OBVIOUS
<1>4. r \in EnvRecord /\ r.parent = p /\ r.vars = <<>>
  BY <1>2, <1>3, EmptySeq DEF NewEnv, EnvRecord
<1>5. /\ es2 \in Seq(EnvRecord) /\ Len(es2) = l
      /\ \A i \in 1 .. Len(es) : es2[i] = es[i]
      /\ es2[l] = r
  BY <1>1, <1>3, <1>4, AppendProperties DEF EnvsOK
<1>6. DOMAIN es2 = DOMAIN es \cup {l} /\ l \notin DOMAIN es /\ l \notin M
  <2>1. DOMAIN es2 = 1 .. l
    BY <1>5, LenProperties
  <2> QED
    BY <1>1, <1>2, <2>1
<1>7. M2 = M \cup {l}
  BY <1>0, <1>1 DEF MadeEnvs
<1>8. TwoLevels(es, M)
  BY <1>0
<1>9. TwoLevels(es2, M2)
  <2>1. \A i \in M : es2[i] = es[i] /\ es[i].vars = <<>> /\ es[i].parent \in DOMAIN es \ M
    BY <1>2, <1>5, <1>8 DEF TwoLevels
  <2>2. DOMAIN es2 \ M2 = DOMAIN es \ M
    BY <1>6, <1>7
  <2>3. \A i \in M2 : es2[i].vars = <<>> /\ es2[i].parent \in DOMAIN es2 \ M2
    BY <1>2, <1>4, <1>5, <1>7, <2>1, <2>2
  <2>4. \A i \in DOMAIN es \ M : es2[i] = es[i]
    BY <1>2, <1>5
  <2>5. \A i \in DOMAIN es2 \ M2 : es2[i].parent \in {0} \cup M2
    BY <1>7, <1>8, <2>2, <2>4 DEF TwoLevels
  <2>6. M2 \subseteq DOMAIN es2
    BY <1>2, <1>6, <1>7
  <2> QED
    BY <2>3, <2>5, <2>6 DEF TwoLevels
<1>10. ScopesOf(es2, M2) = ScopesOf(es, M)
  <2>1. DOMAIN es2 \ M2 = DOMAIN es \ M
    BY <1>6, <1>7
  <2>2. ASSUME NEW i \in DOMAIN es \ M
        PROVE  OuterOf(es2, i) = OuterOf(es, i) /\ es2[i].vars = es[i].vars
    <3>1. es[i].parent # 0 => es[i].parent \in 1 .. Len(es)
      BY <1>2, <1>8 DEF TwoLevels
    <3> QED
      BY <1>2, <1>5, <3>1 DEF OuterOf
  <2> QED
    BY <2>1, <2>2 DEF ScopesOf
<1>11. ClosureOf(es2, ts2) = With(ClosureOf(es, ts), f, p)
  <2>1. \A u \in Functions(ts) : ts2[u].env = ts[u].env /\ es2[ts[u].env] = es[ts[u].env]
    <3>1. \A u \in Functions(ts) : ts[u].env \in M
      BY <1>0 DEF MadeEnvs
    <3> QED
      BY <1>2, <1>5, <3>1
  <2>2. es2[ts2[f].env].parent = p
    BY <1>1, <1>4, <1>5
  <2> QED
    BY <2>1, <2>2 DEF ClosureOf, With
<1> QED
  BY <1>0, <1>1, <1>7, <1>9, <1>10, <1>11

(* Whatever happens to things that are the same functions.                 *)
LEMMA FunctionsSame ==
  ASSUME NEW ts, NEW ts2, Functions(ts2) = Functions(ts), \A u \in Functions(ts) : ts2[u].env = ts[u].env
  PROVE  MadeEnvs(ts2) = MadeEnvs(ts) /\ \A es : ClosureOf(es, ts2) = ClosureOf(es, ts)
BY DEF MadeEnvs, ClosureOf

(***************************************************************************)
(* One instruction after the other, as the scopes see it.                  *)
(***************************************************************************)
Levels ==
  /\ TwoLevels(envs, MadeEnvs(things))
  /\ \A i \in 1 .. Len(frames) : frames[i].env \notin MadeEnvs(things)
Lexically == Levels' /\ (Lexical!ScopesNext \/ UNCHANGED Lexical!vars)

LEMMA LevelsStay ==
  ASSUME ScopeInv, UNCHANGED frames, TwoLevels(envs', MadeEnvs(things')), MadeEnvs(things') = MadeEnvs(things)
  PROVE  Levels'
BY DEF ScopeInv, Levels

LEMMA SameStays ==
  ASSUME ScopeInv, UNCHANGED <<envs, frames, things>>
  PROVE  Levels' /\ UNCHANGED <<Scoped, Opened, Closed>>
BY DEF ScopeInv, Levels, Scoped, Opened, Closed

LEMMA StopMoves ==
  ASSUME ScopeInv, status = "running", NEW why, why \notin {"running", "no variable"}, Stop(why)
  PROVE  Lexically
<1>1. Levels' /\ UNCHANGED <<Scoped, Opened, Closed>> /\ status' = why
  BY SameStays DEF Stop
<1> QED
  BY <1>1, LexicalElse DEF Lexically

LEMMA UnboundMoves ==
  ASSUME ScopeInv, status = "running", NEW name \in Symbols, FindVar(envs, Running.env, name) = 0, Stop("no variable")
  PROVE  Lexically
<1>1. Levels' /\ UNCHANGED <<Scoped, Opened, Closed>> /\ status' = "no variable"
  BY SameStays DEF Stop
<1> QED
  BY <1>1, LexicalUnbound DEF Lexically

LEMMA DeclVarMoves ==
  ASSUME ScopeInv, NEW name \in Symbols, OpDeclVar(name)
  PROVE  Lexically
<1>1. PICK room : \/ /\ SetVar(Running.env, name, Undefined, room).ok
                     /\ envs' = SetVar(Running.env, name, Undefined, room).envs
                     /\ got' = Told("declare", name, Undefined, Undefined, Undefined, Undefined)
                     /\ UNCHANGED <<things, frames, status>>
                  \/ Stop("failed")
  BY DEF OpDeclVar
<1>2. status = "running" /\ NamesInv /\ EnvsOK(envs) /\ TwoLevels(envs, MadeEnvs(things))
  BY DEF OpDeclVar, Instruction, ScopeInv, NamesInv
<1>3. Running.env \in DOMAIN envs \ MadeEnvs(things) /\ Running.env \in 1 .. Len(envs)
  BY ScopedFacts
<1>4. CASE Stop("failed")
  BY <1>2, <1>4, StopMoves
<1>5. CASE /\ SetVar(Running.env, name, Undefined, room).ok
           /\ envs' = SetVar(Running.env, name, Undefined, room).envs
           /\ got' = Told("declare", name, Undefined, Undefined, Undefined, Undefined)
           /\ UNCHANGED <<things, frames, status>>
  <2>1. got'.op = "declare" /\ got'.name = name /\ got'.value \in Values
    BY <1>5, UndefinedIsValue DEF Told
  <2>2. CASE PlaceOf(envs[Running.env].vars, name) # 0 \/ room
    <3>1. /\ ScopesOf(envs', MadeEnvs(things)) = BindIn(ScopesOf(envs, MadeEnvs(things)), Running.env, name, Undefined)
          /\ TwoLevels(envs', MadeEnvs(things)) /\ ClosureOf(envs', things) = ClosureOf(envs, things)
      <4>1. PICK e : e = Running.env
        OBVIOUS
      <4>2. /\ ScopesOf(SetVar(e, name, Undefined, room).envs, MadeEnvs(things))
                 = BindIn(ScopesOf(envs, MadeEnvs(things)), e, name, Undefined)
            /\ TwoLevels(SetVar(e, name, Undefined, room).envs, MadeEnvs(things))
            /\ ClosureOf(SetVar(e, name, Undefined, room).envs, things) = ClosureOf(envs, things)
        <5>1. e \in DOMAIN envs \ MadeEnvs(things) /\ (PlaceOf(envs[e].vars, name) # 0 \/ room)
          BY <1>3, <2>2, <4>1
        <5>2. EnvsOK(envs) /\ TwoLevels(envs, MadeEnvs(things)) /\ Undefined \in Values
          BY <1>2, UndefinedIsValue
        <5> QED
          BY <5>1, <5>2, SetVarScopes
      <4>3. envs' = SetVar(e, name, Undefined, room).envs
        BY <1>5, <4>1
      <4> QED
        BY <4>1, <4>2, <4>3
    <3>2. Scoped' = BindIn(Scoped, Running.env, name, Undefined) /\ UNCHANGED <<Opened, Closed>>
      BY <1>5, <3>1 DEF Scoped, Opened, Closed
    <3>3. Levels'
      BY <1>5, <3>1, LevelsStay
    <3> QED
      BY <1>2, <1>5, <2>1, <3>2, <3>3, LexicalDeclare DEF Lexically
  <2>3. CASE ~(PlaceOf(envs[Running.env].vars, name) # 0 \/ room)
    <3>1. envs' = envs /\ DOMAIN BoundOf(envs[Running.env].vars) = {}
      BY <1>2, <1>3, <1>5, <2>3, SetVarLost
    <3>2. Levels' /\ UNCHANGED <<Scoped, Opened, Closed>>
      BY <1>5, <3>1, SameStays
    <3>3. DOMAIN Scoped[Running.env].bound = {}
      BY <3>1, ScopedFacts
    <3> QED
      BY <1>2, <1>5, <2>1, <3>2, <3>3, LexicalDeclare DEF Lexically
  <2> QED
    BY <2>2, <2>3
<1> QED
  BY <1>1, <1>4, <1>5

LEMMA FoundFacts ==
  ASSUME ScopeInv, NEW name, NEW e, e = FindVar(envs, Running.env, name), e # 0
  PROVE  /\ e \in DOMAIN envs \ MadeEnvs(things) /\ e \in 1 .. Len(envs)
         /\ envs[e].vars \in Seq(VarRecord) /\ UniqueVars(envs[e].vars)
         /\ PlaceOf(envs[e].vars, name) # 0
<1>1. EnvsOK(envs) /\ DOMAIN envs = 1 .. Len(envs) /\ Len(envs) \in Nat /\ TwoLevels(envs, MadeEnvs(things))
  BY Counts DEF ScopeInv, NamesInv
<1>2. Running.env \in 0 .. Len(envs) /\ Running.env \in {0} \cup (DOMAIN envs \ MadeEnvs(things))
  BY <1>1, ScopedFacts
<1>3. PlaceOf(envs[e].vars, name) # 0
  BY <1>1, <1>2, FindVarFinds
<1>4. e \in DOMAIN envs \ MadeEnvs(things)
  BY <1>1, <1>2, BindingIsFound
<1> QED
  BY <1>1, <1>3, <1>4, VarsOf1

LEMMA LoadMoves ==
  ASSUME ScopeInv, NEW name \in Symbols, OpLoad(name)
  PROVE  Lexically
<1>1. PICK e : e = FindVar(envs, Running.env, name)
  OBVIOUS
<1>2. status = "running"
  BY DEF OpLoad, Instruction
<1>3. CASE e = 0
  BY <1>1, <1>2, <1>3, UnboundMoves DEF OpLoad
<1>4. CASE e # 0
  <2>1. /\ got' = Told("load", name, Undefined, Undefined, envs[e].vars[PlaceOf(envs[e].vars, name)].value, Undefined)
        /\ UNCHANGED <<envs, things, frames, status>>
    BY <1>1, <1>4 DEF OpLoad
  <2>2. /\ e \in DOMAIN envs \ MadeEnvs(things) /\ e \in 1 .. Len(envs)
        /\ envs[e].vars \in Seq(VarRecord) /\ PlaceOf(envs[e].vars, name) # 0
    BY <1>1, <1>4, FoundFacts
  <2>3. PICK list \in Seq(VarRecord) : list = envs[e].vars
    BY <2>2
  <2>4. PICK k : k = PlaceOf(list, name)
    OBVIOUS
  <2>5. k \in 1 .. Len(list)
    <3>1. k \in 0 .. Len(list) /\ k # 0 /\ Len(list) \in Nat
      BY <2>2, <2>3, <2>4, PlaceFacts, LenProperties
    <3> QED
      BY <3>1
  <2>6. list[k].value \in Values
    <3>1. list[k] \in VarRecord
      BY <2>5, ElementOfSeq
    <3> QED
      BY <3>1 DEF VarRecord
  <2>7. Scoped[e].bound[name] = list[k].value
    <3>1. Scoped[e].bound = BoundOf(list)
      BY <2>2, <2>3, ScopedFacts
    <3>2. name \in DOMAIN BoundOf(list)
      BY <2>2, <2>3, BoundFacts
    <3>3. BoundOf(list)[name] = list[PlaceOf(list, name)].value
      BY <3>2 DEF BoundOf
    <3> QED
      BY <2>4, <3>1, <3>3
  <2>8. got'.op = "load" /\ got'.name = name /\ got'.value = list[k].value
    BY <2>1, <2>3, <2>4 DEF Told
  <2>9. Levels' /\ UNCHANGED <<Scoped, Opened, Closed>>
    BY <2>1, SameStays
  <2>10. got'.value = Scoped[FindVar(envs, Running.env, name)].bound[name]
    BY <1>1, <2>7, <2>8
  <2> QED
    BY <1>1, <1>2, <1>4, <2>1, <2>6, <2>8, <2>9, <2>10, LexicalLoad DEF Lexically
<1> QED
  BY <1>3, <1>4

(* An assignment to the variable that was found.                           *)
LEMMA FoundAssigned ==
  ASSUME ScopeInv, NEW name \in Symbols, NEW value \in Values,
         NEW e, e = FindVar(envs, Running.env, name), e # 0,
         envs' = Assigned(envs, e, name, value), UNCHANGED <<things, frames>>
  PROVE  /\ Levels' /\ UNCHANGED <<Opened, Closed>>
         /\ Scoped' = BindIn(Scoped, FindVar(envs, Running.env, name), name, value)
<1>1. e \in DOMAIN envs \ MadeEnvs(things) /\ PlaceOf(envs[e].vars, name) # 0
  BY FoundFacts
<1>2. EnvsOK(envs) /\ TwoLevels(envs, MadeEnvs(things))
  BY DEF ScopeInv, NamesInv
<1>3. /\ ScopesOf(Assigned(envs, e, name, value), MadeEnvs(things)) = BindIn(ScopesOf(envs, MadeEnvs(things)), e, name, value)
      /\ TwoLevels(Assigned(envs, e, name, value), MadeEnvs(things))
      /\ ClosureOf(Assigned(envs, e, name, value), things) = ClosureOf(envs, things)
  BY <1>1, <1>2, AssignedScopes
<1>4. /\ ScopesOf(envs', MadeEnvs(things)) = BindIn(ScopesOf(envs, MadeEnvs(things)), e, name, value)
      /\ TwoLevels(envs', MadeEnvs(things)) /\ ClosureOf(envs', things) = ClosureOf(envs, things)
  BY <1>3
<1>5. Levels'
  BY <1>4, LevelsStay
<1> QED
  BY <1>4, <1>5 DEF Scoped, Opened, Closed

LEMMA StoreMoves ==
  ASSUME ScopeInv, NEW name \in Symbols, NEW value \in Literals, OpStore(name, value)
  PROVE  Lexically
<1>1. PICK e : e = FindVar(envs, Running.env, name)
  OBVIOUS
<1>2. status = "running" /\ value \in Values
  BY LiteralFacts DEF OpStore, Instruction
<1>3. CASE e = 0
  BY <1>1, <1>2, <1>3, UnboundMoves DEF OpStore
<1>4. CASE e # 0
  <2>1. /\ envs' = Assigned(envs, e, name, value)
        /\ got' = Told("store", name, Undefined, Undefined, value, Undefined)
        /\ UNCHANGED <<things, frames, status>>
    BY <1>1, <1>4 DEF OpStore
  <2>2. /\ Levels' /\ UNCHANGED <<Opened, Closed>>
        /\ Scoped' = BindIn(Scoped, FindVar(envs, Running.env, name), name, value)
    BY <1>1, <1>2, <1>4, <2>1, FoundAssigned
  <2>3. got'.op = "store" /\ got'.name = name /\ got'.value = value
    BY <2>1 DEF Told
  <2> QED
    BY <1>1, <1>2, <1>4, <2>1, <2>2, <2>3, LexicalStore DEF Lexically
<1> QED
  BY <1>3, <1>4

(* A parameter is bound in the scope of the call, unless it got lost.      *)
LEMMA ArgMoves ==
  ASSUME ScopeInv, NEW name \in Symbols, NEW idx \in Nat, OpArg(name, idx)
  PROVE  Lexically
<1>1. PICK env, value : env = Running.env /\ value = IF idx < Len(Running.args) THEN Running.args[idx + 1] ELSE Undefined
  OBVIOUS
<1>2. PICK room :
        \/ Stop("failed")
        \/ /\ SetVar(env, name, Undefined, room).ok
           /\ FindVar(SetVar(env, name, Undefined, room).envs, env, name) = 0 /\ Stop("no variable")
        \/ /\ SetVar(env, name, Undefined, room).ok
           /\ FindVar(SetVar(env, name, Undefined, room).envs, env, name) # 0
           /\ envs' = Assigned(SetVar(env, name, Undefined, room).envs,
                               FindVar(SetVar(env, name, Undefined, room).envs, env, name), name, value)
           /\ got' = Told("argument", name, Undefined, Undefined, value, Undefined)
           /\ UNCHANGED <<things, frames, status>>
  BY <1>1 DEF OpArg
<1>3. PICK es : es = SetVar(env, name, Undefined, room).envs
  OBVIOUS
<1>4. PICK M : M = MadeEnvs(things)
  OBVIOUS
<1>5. status = "running" /\ NamesInv /\ EnvsOK(envs) /\ TwoLevels(envs, M) /\ DOMAIN envs = 1 .. Len(envs)
  BY <1>4, Counts DEF OpArg, Instruction, ScopeInv, NamesInv
<1>6. env \in DOMAIN envs \ M /\ env \in 1 .. Len(envs) /\ env # 0
  BY <1>1, <1>4, ScopedFacts
<1>7. value \in Values
  <2>1. Running.args \in Seq(Values)
    BY <1>5, RunningFacts DEF FrameRecord
  <2>2. CASE idx < Len(Running.args)
    <3>1. idx + 1 \in 1 .. Len(Running.args)
      BY <2>1, <2>2, LenProperties
    <3> QED
      BY <1>1, <2>1, <2>2, <3>1, ElementOfSeq
  <2> QED
    BY <1>1, <2>2, UndefinedIsValue
<1>8. ASSUME PlaceOf(envs[env].vars, name) # 0 \/ room
      PROVE  /\ ScopesOf(es, M) = BindIn(ScopesOf(envs, M), env, name, Undefined)
             /\ TwoLevels(es, M) /\ ClosureOf(es, things) = ClosureOf(envs, things)
             /\ FindVar(es, env, name) = env /\ PlaceOf(es[env].vars, name) # 0
             /\ EnvsOK(es) /\ DOMAIN es = DOMAIN envs
  <2>1. env \in DOMAIN envs \ MadeEnvs(things) /\ (PlaceOf(envs[env].vars, name) # 0 \/ room)
    BY <1>4, <1>6, <1>8
  <2>2. EnvsOK(envs) /\ TwoLevels(envs, MadeEnvs(things)) /\ Undefined \in Values
    BY <1>4, <1>5, UndefinedIsValue
  <2>3. EnvsOK(es) /\ Len(es) = Len(envs)
    BY <1>3, <1>6, <2>2, SetVarKeeps
  <2>4. DOMAIN es = DOMAIN envs
    BY <1>5, <2>3, LenProperties DEF EnvsOK
  <2>5. /\ ScopesOf(SetVar(env, name, Undefined, room).envs, MadeEnvs(things)) = BindIn(ScopesOf(envs, MadeEnvs(things)), env, name, Undefined)
        /\ TwoLevels(SetVar(env, name, Undefined, room).envs, MadeEnvs(things))
        /\ ClosureOf(SetVar(env, name, Undefined, room).envs, things) = ClosureOf(envs, things)
        /\ FindVar(SetVar(env, name, Undefined, room).envs, env, name) = env
        /\ PlaceOf(SetVar(env, name, Undefined, room).envs[env].vars, name) # 0
    BY <2>1, <2>2, SetVarScopes
  <2> QED
    BY <1>3, <1>4, <2>3, <2>4, <2>5
<1>9. ASSUME SetVar(env, name, Undefined, room).ok, ~(PlaceOf(envs[env].vars, name) # 0 \/ room)
      PROVE  es = envs /\ DOMAIN BoundOf(envs[env].vars) = {}
  BY <1>3, <1>5, <1>6, <1>9, SetVarLost
<1>10. CASE Stop("failed")
  BY <1>5, <1>10, StopMoves
<1>11. CASE SetVar(env, name, Undefined, room).ok /\ FindVar(es, env, name) = 0 /\ Stop("no variable")
  <2>1. ~(PlaceOf(envs[env].vars, name) # 0 \/ room)
    BY <1>6, <1>8, <1>11
  <2>2. es = envs
    BY <1>9, <1>11, <2>1
  <2> QED
    BY <1>1, <1>5, <1>11, <2>2, UnboundMoves
<1>12. CASE /\ SetVar(env, name, Undefined, room).ok /\ FindVar(es, env, name) # 0
            /\ envs' = Assigned(es, FindVar(es, env, name), name, value)
            /\ got' = Told("argument", name, Undefined, Undefined, value, Undefined)
            /\ UNCHANGED <<things, frames, status>>
  <2>1. got'.op = "argument" /\ got'.name = name /\ got'.value = value
    BY <1>12 DEF Told
  <2>2. CASE PlaceOf(envs[env].vars, name) # 0 \/ room
    <3>1. envs' = Assigned(es, env, name, value)
      BY <1>8, <1>12, <2>2
    <3>2. /\ ScopesOf(Assigned(es, env, name, value), MadeEnvs(things)) = BindIn(ScopesOf(es, MadeEnvs(things)), env, name, value)
          /\ TwoLevels(Assigned(es, env, name, value), MadeEnvs(things))
          /\ ClosureOf(Assigned(es, env, name, value), things) = ClosureOf(es, things)
      BY <1>4, <1>6, <1>7, <1>8, <2>2, AssignedScopes
    <3>3. BindIn(BindIn(Scoped, env, name, Undefined), env, name, value) = BindIn(Scoped, env, name, value)
      <4>1. PICK sc, o, b : sc = Scoped /\ o = OuterOf(envs, env) /\ b = BoundOf(envs[env].vars)
        OBVIOUS
      <4>2. DOMAIN sc = DOMAIN envs \ M /\ sc[env] = [outer |-> o, bound |-> b] /\ sc = [t \in DOMAIN sc |-> sc[t]]
        BY <1>4, <1>6, <4>1 DEF Scoped, ScopesOf
      <4> QED
        BY <1>6, <4>1, <4>2, BoundTwice
    <3>4. Scoped' = BindIn(BindIn(Scoped, env, name, Undefined), env, name, value)
      <4>1. Scoped' = ScopesOf(envs', MadeEnvs(things))
        BY <1>12 DEF Scoped
      <4>2. ScopesOf(es, MadeEnvs(things)) = BindIn(Scoped, env, name, Undefined)
        BY <1>4, <1>8, <2>2 DEF Scoped
      <4> QED
        BY <3>1, <3>2, <4>1, <4>2
    <3>5. UNCHANGED <<Opened, Closed>>
      BY <1>8, <1>12, <2>2, <3>1, <3>2 DEF Opened, Closed
    <3>6. Levels'
      BY <1>12, <3>1, <3>2, LevelsStay
    <3>7. Scoped' = BindIn(Scoped, Running.env, name, got'.value)
      BY <1>1, <2>1, <3>3, <3>4
    <3> QED
      BY <1>5, <1>7, <1>12, <2>1, <3>5, <3>6, <3>7, LexicalArgument DEF Lexically
  <2>3. CASE ~(PlaceOf(envs[env].vars, name) # 0 \/ room)
    <3>1. es = envs /\ DOMAIN BoundOf(envs[env].vars) = {}
      BY <1>9, <1>12, <2>3
    <3>2. PICK e : e = FindVar(envs, Running.env, name)
      OBVIOUS
    <3>3. e # 0 /\ envs' = Assigned(envs, e, name, value) /\ UNCHANGED <<things, frames>>
      BY <1>1, <1>12, <3>1, <3>2
    <3>4. /\ Levels' /\ UNCHANGED <<Opened, Closed>>
          /\ Scoped' = BindIn(Scoped, FindVar(envs, Running.env, name), name, value)
      BY <1>7, <3>2, <3>3, FoundAssigned
    <3>5. DOMAIN Scoped[Running.env].bound = {}
      BY <1>1, <3>1, ScopedFacts
    <3> QED
      BY <1>5, <1>7, <1>12, <2>1, <3>2, <3>3, <3>4, <3>5, LexicalArgument DEF Lexically
  <2> QED
    BY <2>2, <2>3
<1> QED
  BY <1>2, <1>3, <1>10, <1>11, <1>12

LEMMA ToldOp ==
  ASSUME NEW op, \E of, key, value, receiver : got' = Told(op, "", of, key, value, receiver)
  PROVE  got'.op = op
<1>1. PICK of, key, value, receiver : got' = Told(op, "", of, key, value, receiver)
  OBVIOUS
<1> QED
  BY <1>1 DEF Told

LEMMA ObjSetMoves ==
  ASSUME ScopeInv, NEW obj \in AtHand, NEW key, NEW value, OpObjSet(obj, key, value)
  PROVE  Lexically
<1>1. status = "running" /\ NamesInv
  BY DEF OpObjSet, Instruction, ScopeInv
<1>2. CASE Stop("failed")
  BY <1>1, <1>2, StopMoves
<1>3. CASE ~Stop("failed")
  <2>1. /\ IsThing(obj) /\ things' = [things EXCEPT ![obj.is] = PropertiesSet(things[obj.is], key, value)]
        /\ got' = Told("set", "", obj, key, value, Undefined)
        /\ UNCHANGED <<envs, frames, status>>
    BY <1>3 DEF OpObjSet
  <2>2. obj.is \in 1 .. Len(things) /\ DOMAIN things = 1 .. Len(things)
    BY <1>1, <2>1, AtHandFacts, Counts DEF Within
  <2>3. PICK t, t2 : t = things[obj.is] /\ t2 = PropertiesSet(t, key, value)
    OBVIOUS
  <2>4. t \in ThingRecord
    BY <1>1, <2>2, <2>3, ThingFacts
  <2>5. t2.type = t.type /\ t2.env = t.env
    BY <2>3, <2>4 DEF PropertiesSet, ThingRecord
  <2>6. DOMAIN things' = DOMAIN things /\ \A u \in DOMAIN things : things'[u].type = things[u].type /\ things'[u].env = things[u].env
    BY <2>1, <2>2, <2>3, <2>5
  <2>7. Functions(things') = Functions(things) /\ \A u \in Functions(things) : things'[u].env = things[u].env
    BY <2>6 DEF Functions, IsFunction
  <2>8. MadeEnvs(things') = MadeEnvs(things) /\ ClosureOf(envs, things') = ClosureOf(envs, things)
    BY <2>7, FunctionsSame
  <2>9. UNCHANGED <<Scoped, Opened, Closed>>
    BY <2>1, <2>8 DEF Scoped, Opened, Closed
  <2>10. Levels'
    BY <2>1, <2>8, LevelsStay DEF ScopeInv
  <2> QED
    BY <1>1, <2>1, <2>9, <2>10, LexicalElse DEF Lexically, Told
<1> QED
  BY <1>2, <1>3

LEMMA ObjGetMoves ==
  ASSUME ScopeInv, NEW obj, NEW key, OpObjGet(obj, key)
  PROVE  Lexically
BY SameStays, LexicalStutter DEF OpObjGet, Lexically

LEMMA LookMoves ==
  ASSUME ScopeInv, Look
  PROVE  Lexically
<1>1. status = "running" /\ UNCHANGED <<envs, things, frames>>
  BY DEF Look, Stop
<1>2. Levels' /\ UNCHANGED <<Scoped, Opened, Closed>>
  BY <1>1, SameStays
<1>3. \/ status' \notin {"running", "no variable"}
      \/ status' = "running" /\ got'.op = "get"
      \/ UNCHANGED <<got, status>>
  <2>1. CASE status' = "no property" \/ status' = "failed" \/ UNCHANGED <<got, status>>
    BY <2>1
  <2>2. CASE ~(status' = "no property" \/ status' = "failed" \/ UNCHANGED <<got, status>>)
    <3>1. status' = status /\ \E p : Found(looking, p)
      BY <2>2 DEF Look, Stop
    <3>2. \E of, key, value, receiver : got' = Told("get", "", of, key, value, receiver)
      BY <3>1 DEF Found
    <3>3. got'.op = "get"
      BY <3>2, ToldOp
    <3> QED
      BY <1>1, <3>1, <3>3
  <2> QED
    BY <2>1, <2>2
<1> QED
  BY <1>1, <1>2, <1>3, LexicalElse, LexicalStutter DEF Lexically

(* What is no function changes no scope.                                   *)
LEMMA ObjectScopes ==
  ASSUME NEW ts \in Seq(ThingRecord), NEW t \in ThingRecord, t.type = "object"
  PROVE  /\ Functions(Append(ts, t)) = Functions(ts)
         /\ \A u \in Functions(ts) : Append(ts, t)[u].env = ts[u].env
<1>1. PICK ts2 : ts2 = Append(ts, t)
  OBVIOUS
<1>2. /\ DOMAIN ts = 1 .. Len(ts) /\ DOMAIN ts2 = 1 .. Len(ts) + 1 /\ Len(ts) \in Nat
      /\ \A j \in 1 .. Len(ts) : ts2[j] = ts[j]
      /\ ts2[Len(ts) + 1] = t
  BY <1>1, AppendProperties, LenProperties
<1>3. DOMAIN ts2 = DOMAIN ts \cup {Len(ts) + 1}
  BY <1>2
<1> QED
  BY <1>1, <1>2, <1>3 DEF Functions, IsFunction

LEMMA LoadObjectMoves ==
  ASSUME ScopeInv, OpLoadObject
  PROVE  Lexically
<1>1. status = "running" /\ NamesInv /\ UNCHANGED <<envs, frames, status>> /\ got'.op = "object"
  <2>1. status = "running" /\ NamesInv /\ UNCHANGED <<envs, frames, status>>
    BY DEF OpLoadObject, Instruction, ScopeInv
  <2>2. \E of, key, value, receiver : got' = Told("object", "", of, key, value, receiver)
    BY DEF OpLoadObject
  <2>3. got'.op = "object"
    BY <2>2, ToldOp
  <2> QED
    BY <2>1, <2>3
<1>2. CASE things' = things
  BY <1>1, <1>2, SameStays, LexicalElse DEF Lexically
<1>3. CASE things' # things
  <2>1. PICK t : t = NewThing("object", ObjectPrototype, Undefined, 0)
    OBVIOUS
  <2>2. things' = Append(things, t)
    BY <1>3, <2>1 DEF OpLoadObject
  <2>3. t \in ThingRecord /\ t.type = "object"
    <3>1. ObjectPrototype \in Values /\ Undefined \in Values
      <4>1. Len(things) \in Nat /\ Len(things) > 2
        BY <1>1, Counts, Parts
      <4> QED
        BY <4>1, PrototypesFacts, UndefinedIsValue
    <3> QED
      BY <2>1, <3>1, EmptySeq DEF NewThing, ThingRecord
  <2>4. things \in Seq(ThingRecord)
    BY <1>1 DEF NamesInv, ThingsOK
  <2>5. Functions(things') = Functions(things) /\ \A u \in Functions(things) : things'[u].env = things[u].env
    BY <2>2, <2>3, <2>4, ObjectScopes
  <2>6. MadeEnvs(things') = MadeEnvs(things) /\ ClosureOf(envs, things') = ClosureOf(envs, things)
    BY <2>5, FunctionsSame
  <2>7. UNCHANGED <<Scoped, Opened, Closed>>
    BY <1>1, <2>6 DEF Scoped, Opened, Closed
  <2>8. Levels'
    BY <1>1, <2>6, LevelsStay DEF ScopeInv
  <2> QED
    BY <1>1, <2>7, <2>8, LexicalElse DEF Lexically
<1> QED
  BY <1>2, <1>3

(* The things after a function was made: it, and the object in its         *)
(* "prototype" if there was a block for one.                               *)
LEMMA FunctionMade ==
  ASSUME NamesInv, OpLoadFunction
  PROVE  \E f, o \in ThingRecord :
           /\ f.type = "function" /\ f.env = Len(envs) + 1 /\ f.props = <<>> /\ o.type = "object" /\ o.props = <<>>
           /\ things' \in Seq(ThingRecord) /\ Len(things') \in {Len(things) + 1, Len(things) + 2}
           /\ \A u \in 1 .. Len(things) : things'[u] = things[u]
           /\ things'[Len(things) + 1] = f
           /\ Len(things') = Len(things) + 2 => things'[Len(things) + 2] = o
<1> DEFINE n == Len(things)
           P(objects) == IF objects THEN [type |-> "object", is |-> n + 1 + 1] ELSE Undefined
<1>1. n \in Nat /\ n > 2 /\ Len(envs) \in Nat /\ things \in Seq(ThingRecord) /\ n + 2 <= MaxThings /\ MaxThings \in Nat
  <2>1. n > 2 /\ things \in Seq(ThingRecord)
    BY DEF NamesInv, ThingsOK
  <2>2. /\ n \in Nat /\ Len(envs) \in Nat /\ MaxThings \in Nat
        /\ program.max.things \in 0 .. MaxThings /\ n + 2 <= program.max.things
    BY Counts DEF OpLoadFunction
  <2>3. n + 2 <= MaxThings
    BY <2>2
  <2> QED
    BY <2>1, <2>2, <2>3
<1>2. PICK objects \in BOOLEAN :
        things' = things
          \o <<NewThing("function", FunctionPrototype, P(objects), Len(envs) + 1)>>
          \o (IF objects THEN <<NewThing("object", Undefined, Undefined, 0)>> ELSE <<>>)
  BY DEF OpLoadFunction
<1>3. PICK f : f = NewThing("function", FunctionPrototype, P(objects), Len(envs) + 1)
  OBVIOUS
<1>4. PICK o : o = NewThing("object", Undefined, Undefined, 0)
  OBVIOUS
<1>5. f \in ThingRecord /\ f.type = "function" /\ f.env = Len(envs) + 1 /\ f.props = <<>>
  <2>1. P(objects) \in Values
    <3>1. CASE objects
      <4>1. P(objects) \in [type : {"object", "function"}, is : 1 .. MaxThings]
        BY <1>1, <3>1
      <4> QED
        BY <4>1 DEF Values
    <3>2. CASE ~objects
      BY <3>2, UndefinedIsValue
    <3> QED
      BY <3>1, <3>2
  <2>2. FunctionPrototype \in Values
    BY <1>1, PrototypesFacts
  <2> HIDE DEF P
  <2> QED
    BY <1>1, <1>3, <2>1, <2>2, EmptySeq DEF NewThing, ThingRecord
<1>6. o \in ThingRecord /\ o.type = "object" /\ o.props = <<>>
  BY <1>4, UndefinedIsValue, EmptySeq DEF NewThing, ThingRecord
<1>7. things \o <<f>> = Append(things, f)
  BY <1>1, <1>5, AppendIsConcat
<1>8. PICK ts : ts = Append(things, f)
  OBVIOUS
<1>9. /\ ts \in Seq(ThingRecord) /\ Len(ts) = n + 1
      /\ \A j \in 1 .. n : ts[j] = things[j]
      /\ ts[n + 1] = f
  BY <1>1, <1>5, <1>8, AppendProperties
<1>10. CASE ~objects
  <2>1. things' = ts
    BY <1>2, <1>3, <1>7, <1>8, <1>9, <1>10, ConcatEmptySeq
  <2>2. Len(things') # n + 2
    BY <1>1, <1>9, <2>1
  <2> HIDE DEF n
  <2>3. things' \in Seq(ThingRecord) /\ Len(things') = n + 1 /\ things'[n + 1] = f /\ \A u \in 1 .. n : things'[u] = things[u]
    BY <1>9, <2>1
  <2> QED
    BY <1>5, <1>6, <2>2, <2>3 DEF n
<1>11. CASE objects
  <2>1. things' = Append(ts, o)
    BY <1>2, <1>3, <1>4, <1>6, <1>7, <1>8, <1>9, <1>11, AppendIsConcat
  <2>2. /\ things' \in Seq(ThingRecord) /\ Len(things') = Len(ts) + 1
        /\ \A j \in 1 .. Len(ts) : things'[j] = ts[j]
        /\ things'[Len(ts) + 1] = o
    BY <1>6, <1>9, <2>1, AppendProperties
  <2>3. Len(ts) + 1 = n + 2 /\ n + 1 \in 1 .. Len(ts) /\ \A u \in 1 .. n : u \in 1 .. Len(ts)
    BY <1>1, <1>9
  <2> HIDE DEF n
  <2>4. things' \in Seq(ThingRecord) /\ Len(things') = n + 2 /\ things'[n + 1] = f /\ things'[n + 2] = o /\ \A u \in 1 .. n : things'[u] = things[u]
    BY <1>9, <2>2, <2>3
  <2> QED
    BY <1>5, <1>6, <2>4 DEF n
<1> QED
  BY <1>10, <1>11

LEMMA LoadFunctionMoves ==
  ASSUME ScopeInv, OpLoadFunction
  PROVE  Lexically
<1>1. /\ status = "running" /\ NamesInv /\ UNCHANGED <<frames, status>> /\ got'.op = "function"
      /\ envs' = Append(envs, NewEnv(Running.env))
      /\ EnvsOK(envs) /\ TwoLevels(envs, MadeEnvs(things))
  <2>1. \E of, key, value, receiver : got' = Told("function", "", of, key, value, receiver)
    BY DEF OpLoadFunction
  <2>2. status = "running" /\ UNCHANGED <<frames, status>> /\ envs' = Append(envs, NewEnv(Running.env))
    BY DEF OpLoadFunction, Instruction
  <2>3. NamesInv /\ EnvsOK(envs) /\ TwoLevels(envs, MadeEnvs(things))
    BY DEF ScopeInv, NamesInv
  <2>4. got'.op = "function"
    BY <2>1, ToldOp
  <2> QED
    BY <2>2, <2>3, <2>4
<1>2. PICK f, o \in ThingRecord :
        /\ f.type = "function" /\ f.env = Len(envs) + 1 /\ f.props = <<>> /\ o.type = "object" /\ o.props = <<>>
        /\ things' \in Seq(ThingRecord) /\ Len(things') \in {Len(things) + 1, Len(things) + 2}
        /\ \A u \in 1 .. Len(things) : things'[u] = things[u]
        /\ things'[Len(things) + 1] = f
        /\ Len(things') = Len(things) + 2 => things'[Len(things) + 2] = o
  BY <1>1, FunctionMade
<1>3. PICK u : u = Len(things) + 1
  OBVIOUS
<1>4. DOMAIN things = 1 .. Len(things) /\ Len(things) \in Nat /\ u \notin DOMAIN things
  BY <1>1, <1>3, Counts
<1>5. Functions(things') = Functions(things) \cup {u} /\ u \notin Functions(things)
  <2>1. DOMAIN things' = DOMAIN things \cup {u} \/ (DOMAIN things' = DOMAIN things \cup {u, u + 1} /\ things'[u + 1] = o)
    <3>1. DOMAIN things' = 1 .. Len(things')
      BY <1>2, LenProperties
    <3>2. CASE Len(things') = Len(things) + 1
      BY <1>3, <1>4, <3>1, <3>2
    <3>3. CASE Len(things') = Len(things) + 2
      <4>1. DOMAIN things' = DOMAIN things \cup {u, u + 1}
        BY <1>3, <1>4, <3>1, <3>3
      <4>2. u + 1 = Len(things) + 2
        BY <1>3, <1>4
      <4> QED
        BY <1>2, <3>3, <4>1, <4>2
    <3> QED
      BY <1>2, <3>2, <3>3
  <2>2. things'[u] = f /\ \A v \in DOMAIN things : things'[v] = things[v]
    BY <1>2, <1>3, <1>4
  <2> QED
    BY <1>2, <1>4, <2>1, <2>2 DEF Functions, IsFunction
<1>6. things'[u].env = Len(envs) + 1 /\ \A v \in Functions(things) : things'[v].env = things[v].env
  BY <1>2, <1>3, <1>4 DEF Functions
<1>7. PICK p : p = Running.env
  OBVIOUS
<1>8. p \in DOMAIN envs \ MadeEnvs(things) /\ p \in 1 .. Len(envs)
  BY <1>7, ScopedFacts
<1>9. /\ ScopesOf(Append(envs, NewEnv(p)), MadeEnvs(things')) = ScopesOf(envs, MadeEnvs(things))
      /\ TwoLevels(Append(envs, NewEnv(p)), MadeEnvs(things'))
      /\ ClosureOf(Append(envs, NewEnv(p)), things') = With(ClosureOf(envs, things), u, p)
      /\ MadeEnvs(things') = MadeEnvs(things) \cup {Len(envs) + 1}
  BY <1>1, <1>5, <1>6, <1>8, FunctionScopes
<1>10. /\ Scoped' = Scoped /\ Opened' = Opened /\ Closed' = With(Closed, u, Running.env)
  BY <1>1, <1>7, <1>9 DEF Scoped, Opened, Closed
<1>11. u \notin DOMAIN Closed
  BY <1>5 DEF Closed, ClosureOf
<1>12. Levels'
  <2>1. \A i \in 1 .. Len(frames) : frames[i].env \notin MadeEnvs(things')
    <3>1. FramesOK(frames, Len(envs)) /\ Len(envs) \in Nat
      BY <1>1, Counts, Parts
    <3>2. \A i \in 1 .. Len(frames) : frames[i].env \in 1 .. Len(envs)
      BY <3>1 DEF FramesOK
    <3>3. \A i \in 1 .. Len(frames) : frames[i].env # Len(envs) + 1
      <4> TAKE i \in 1 .. Len(frames)
      <4>1. frames[i].env \in 1 .. Len(envs)
        BY <3>2
      <4> QED
        BY <3>1, <4>1
    <3> QED
      BY <1>9, <3>3 DEF ScopeInv
  <2> QED
    BY <1>1, <1>7, <1>9, <2>1 DEF Levels
<1> QED
  BY <1>1, <1>10, <1>11, <1>12, LexicalClose DEF Lexically

LEMMA LoadFunctionFailsMoves ==
  ASSUME ScopeInv, LoadFunctionFails
  PROVE  Lexically
BY StopMoves DEF LoadFunctionFails, Instruction

(* Both instructions that begin a call.                                    *)
LEMMA EnterMoves ==
  ASSUME ScopeInv, status = "running", NEW callee \in AtHand, IsFunction(callee),
         envs' = Append(envs, NewEnv(things[callee.is].env)),
         NEW f, f.env = Len(envs) + 1, frames' = Append(frames, f), f \in FrameRecord,
         UNCHANGED status, got'.op \in {"call", "new"}, got'.of = callee,
         Functions(things') = Functions(things), \A u \in Functions(things) : things'[u].env = things[u].env
  PROVE  Lexically
<1>1. NamesInv /\ EnvsOK(envs) /\ TwoLevels(envs, MadeEnvs(things))
  BY DEF ScopeInv, NamesInv
<1>2. PICK u : u = callee.is
  OBVIOUS
<1>3. u \in Functions(things)
  <2>1. u \in 1 .. Len(things) /\ things[u].type = "function"
    BY <1>1, <1>2, AtHandFacts
  <2> QED
    BY <1>1, <2>1, Counts DEF Functions, IsFunction
<1>4. PICK M, m : M = MadeEnvs(things) /\ m = things[u].env
  OBVIOUS
<1>5. m \in M
  BY <1>3, <1>4 DEF MadeEnvs
<1>6. MadeEnvs(things') = M /\ \A es : ClosureOf(es, things') = ClosureOf(es, things)
  BY <1>4, FunctionsSame
<1>7. PICK l : l = Len(envs) + 1
  OBVIOUS
<1>8. /\ ScopesOf(envs', M) = With(ScopesOf(envs, M), l, [outer |-> envs[m].parent, bound |-> <<>>])
      /\ TwoLevels(envs', M) /\ l \notin DOMAIN ScopesOf(envs, M) /\ l \notin M
  <2>1. /\ ScopesOf(Append(envs, NewEnv(m)), M) = With(ScopesOf(envs, M), Len(envs) + 1, [outer |-> envs[m].parent, bound |-> <<>>])
        /\ TwoLevels(Append(envs, NewEnv(m)), M)
        /\ Len(envs) + 1 \notin DOMAIN ScopesOf(envs, M) /\ Len(envs) + 1 \notin M
    BY <1>1, <1>4, <1>5, CallScopes
  <2> QED
    BY <1>2, <1>4, <1>7, <2>1
<1>9. ClosureOf(envs', things) = ClosureOf(envs, things)
  <2>1. envs \in Seq(EnvRecord) /\ DOMAIN envs = 1 .. Len(envs) /\ M \subseteq DOMAIN envs /\ m \in DOMAIN envs
    BY <1>1, <1>4, <1>5, Counts DEF EnvsOK, TwoLevels
  <2>2. NewEnv(m) \in EnvRecord
    <3>1. m \in Nat
      BY <2>1
    <3> QED
      BY <3>1, EmptySeq DEF NewEnv, EnvRecord
  <2>3. \A i \in DOMAIN envs : envs'[i] = envs[i]
    BY <1>2, <1>4, <2>1, <2>2, AppendProperties
  <2>4. \A w \in Functions(things) : things[w].env \in DOMAIN envs
    BY <1>4, <2>1 DEF MadeEnvs
  <2> QED
    BY <2>3, <2>4 DEF ClosureOf
<1>10. Closed' = Closed /\ Closed[u] = envs[m].parent /\ u \in DOMAIN Closed
  BY <1>3, <1>4, <1>6, <1>9 DEF Closed, ClosureOf
<1>11. Scoped' = With(Scoped, l, [outer |-> Closed[u], bound |-> <<>>]) /\ l \notin DOMAIN Scoped
  BY <1>4, <1>6, <1>8, <1>10 DEF Scoped
<1>12. /\ frames \in Seq(FrameRecord) /\ Len(frames) \in Nat /\ DOMAIN frames = 1 .. Len(frames)
       /\ Len(frames') = Len(frames) + 1 /\ DOMAIN frames' = 1 .. Len(frames) + 1
       /\ \A i \in 1 .. Len(frames) : frames'[i] = frames[i]
       /\ frames'[Len(frames) + 1] = f
  <2>1. frames \in Seq(FrameRecord)
    BY <1>1 DEF NamesInv, FramesOK
  <2> QED
    BY <2>1, AppendProperties, LenProperties
<1>13. Opened' = Append(Opened, l)
  <2>1. PICK n : n = Len(frames)
    OBVIOUS
  <2>2. Opened \in Seq(Nat) /\ Len(Opened) = n /\ \A i \in 1 .. n : Opened[i] = frames[i].env
    BY <1>1, <2>1, OpenedFacts
  <2>3. l \in Nat /\ n \in Nat
    BY <1>1, <1>7, <1>12, <2>1, Counts
  <2>4. /\ Append(Opened, l) = [i \in 1 .. n + 1 |-> Append(Opened, l)[i]]
        /\ \A i \in 1 .. n : Append(Opened, l)[i] = Opened[i]
        /\ Append(Opened, l)[n + 1] = l
    <3>1. Append(Opened, l) \in Seq(Nat) /\ Len(Append(Opened, l)) = n + 1
      BY <2>2, <2>3, AppendProperties
    <3>2. Append(Opened, l) = [i \in 1 .. n + 1 |-> Append(Opened, l)[i]]
      BY <3>1, LenProperties
    <3> QED
      BY <2>2, <2>3, <3>2, AppendProperties
  <2>5. Opened' = [i \in 1 .. n + 1 |-> frames'[i].env]
    BY <1>12, <2>1 DEF Opened
  <2>6. \A i \in 1 .. n + 1 : frames'[i].env = Append(Opened, l)[i]
    <3> TAKE i \in 1 .. n + 1
    <3>1. i \in 1 .. n \/ i = n + 1
      BY <2>3
    <3> QED
      BY <1>7, <1>12, <2>1, <2>2, <2>4, <3>1
  <2> QED
    BY <2>4, <2>5, <2>6
<1>14. Levels'
  <2>1. \A i \in 1 .. Len(frames') : frames'[i].env \notin M
    <3> TAKE i \in 1 .. Len(frames')
    <3>1. i \in 1 .. Len(frames) \/ i = Len(frames) + 1
      BY <1>12
    <3> QED
      BY <1>4, <1>7, <1>8, <1>12, <3>1 DEF ScopeInv
  <2> QED
    BY <1>6, <1>8, <2>1 DEF Levels
<1> QED
  BY <1>2, <1>10, <1>11, <1>13, <1>14, LexicalEnter DEF Lexically

LEMMA CallMoves ==
  ASSUME ScopeInv, NEW callee \in AtHand, NEW this \in Values, NEW args \in Seq(Values), OpCall(callee, this, args)
  PROVE  Lexically
<1>1. status = "running" /\ NamesInv
  BY DEF OpCall, Instruction, ScopeInv
<1>2. CASE Stop("failed")
  BY <1>1, <1>2, StopMoves
<1>3. CASE ~Stop("failed")
  <2>1. PICK f : f = [env |-> Len(envs) + 1, this |-> this, type |-> "CALL", args |-> args]
    OBVIOUS
  <2>2. /\ IsFunction(callee) /\ envs' = Append(envs, NewEnv(things[callee.is].env))
        /\ frames' = Append(frames, f) /\ UNCHANGED <<things, status>>
        /\ got' = Told("call", "", callee, Undefined, Undefined, Undefined)
    BY <1>3, <2>1 DEF OpCall, CallEnv, Pushed
  <2>3. f \in FrameRecord /\ f.env = Len(envs) + 1
    <3>1. Len(envs) + 1 \in Nat
      BY <1>1, Counts
    <3> QED
      BY <2>1, <3>1 DEF FrameRecord
  <2>4. got'.op = "call" /\ got'.of = callee
    BY <2>2 DEF Told
  <2>5. Functions(things') = Functions(things) /\ \A u \in Functions(things) : things'[u].env = things[u].env
    BY <2>2
  <2> QED
    BY <1>1, <2>2, <2>3, <2>4, <2>5, EnterMoves
<1> QED
  BY <1>2, <1>3

LEMMA NewMoves ==
  ASSUME ScopeInv, NEW callee \in AtHand, NEW args \in Seq(Values), OpNew(callee, args)
  PROVE  Lexically
<1>1. status = "running" /\ NamesInv
  BY DEF OpNew, Instruction, ScopeInv
<1>2. CASE Stop("failed") \/ Stop("corrupted")
  BY <1>1, <1>2, StopMoves
<1>3. CASE ~Stop("failed") /\ ~Stop("corrupted")
  <2>1. PICK this : this = [type |-> "object", is |-> Len(things) + 1]
    OBVIOUS
  <2>2. PICK f : f = [env |-> Len(envs) + 1, this |-> this, type |-> "NEW", args |-> args]
    OBVIOUS
  <2>3. PICK t : t = NewThing("object", things[callee.is].prototype, Undefined, 0)
    OBVIOUS
  <2>4. /\ IsFunction(callee) /\ Len(things) < program.max.things
        /\ envs' = Append(envs, NewEnv(things[callee.is].env)) /\ things' = Append(things, t)
        /\ frames' = Append(frames, f) /\ UNCHANGED status
        /\ got' = Told("new", "", callee, Undefined, this, Undefined)
    BY <1>3, <2>1, <2>2, <2>3 DEF OpNew, CallEnv, Pushed
  <2>5. f \in FrameRecord /\ f.env = Len(envs) + 1
    <3>1. Len(envs) + 1 \in Nat /\ Len(things) \in Nat /\ MaxThings \in Nat /\ program.max.things \in 0 .. MaxThings
      BY <1>1, Counts
    <3>2. this \in [type : {"object", "function"}, is : 1 .. MaxThings]
      <4>0. PICK m : m = program.max.things
        OBVIOUS
      <4>01. Len(things) < m
        BY <2>4, <4>0
      <4>1. Len(things) + 1 \in 1 .. MaxThings
        BY <3>1, <4>0, <4>01
      <4> QED
        BY <2>1, <4>1
    <3>3. this \in Values
      BY <3>2 DEF Values
    <3> QED
      BY <2>2, <3>1, <3>3 DEF FrameRecord
  <2>6. t \in ThingRecord /\ t.type = "object"
    <3>1. callee.is \in 1 .. Len(things)
      BY <1>1, <2>4, AtHandFacts
    <3>2. things[callee.is].prototype \in Values
      BY <1>1, <3>1, ThingFacts
    <3> QED
      BY <2>3, <3>2, UndefinedIsValue, EmptySeq DEF NewThing, ThingRecord
  <2>7. things \in Seq(ThingRecord)
    BY <1>1 DEF NamesInv, ThingsOK
  <2>8. Functions(things') = Functions(things) /\ \A u \in Functions(things) : things'[u].env = things[u].env
    BY <2>4, <2>6, <2>7, ObjectScopes
  <2>9. got'.op = "new" /\ got'.of = callee
    BY <2>4 DEF Told
  <2> QED
    BY <1>1, <2>4, <2>5, <2>8, <2>9, EnterMoves
<1> QED
  BY <1>2, <1>3

LEMMA RetMoves ==
  ASSUME ScopeInv, NEW value, OpRet(value)
  PROVE  Lexically
<1>1. /\ status = "running" /\ NamesInv /\ UNCHANGED <<envs, things, status>>
      /\ frames' = Front(frames) /\ Len(frames) > 1
  BY DEF OpRet, Instruction, ScopeInv
<1>2. got'.op = "return"
  <2>1. \E of, key, v, receiver : got' = Told("return", "", of, key, v, receiver)
    BY DEF OpRet
  <2> QED
    BY <2>1, ToldOp
<1>3. PICK n : n = Len(frames) - 1
  OBVIOUS
<1>4. n \in Nat /\ n > 0 /\ frames \in Seq(FrameRecord) /\ Len(frames) = n + 1
  BY <1>1, <1>3, Counts DEF NamesInv, FramesOK
<1>5. /\ DOMAIN frames' = 1 .. n /\ Len(frames') = n
      /\ \A i \in 1 .. n : frames'[i] = frames[i]
  <2>1. \A i \in 1 .. n : frames[i] \in FrameRecord
    BY <1>4, ElementOfSeq
  <2>2. /\ SubSeq(frames, 1, n) \in Seq(FrameRecord) /\ Len(SubSeq(frames, 1, n)) = n
        /\ \A i \in 1 .. n : SubSeq(frames, 1, n)[i] = frames[i]
    BY <1>4, <2>1, SubSeqProperties
  <2>3. frames' = SubSeq(frames, 1, n)
    BY <1>1, <1>3 DEF Front
  <2> QED
    BY <2>2, <2>3, LenProperties
<1>6. Opened' = SubSeq(Opened, 1, Len(Opened) - 1) /\ Len(Opened) > 1
  <2>1. Opened \in Seq(Nat) /\ Len(Opened) = n + 1 /\ \A i \in 1 .. n + 1 : Opened[i] = frames[i].env
    BY <1>1, <1>4, OpenedFacts
  <2>2. Len(Opened) - 1 = n /\ Len(Opened) > 1
    BY <1>4, <2>1
  <2>3. \A i \in 1 .. n : Opened[i] \in Nat
    BY <1>4, <2>1, ElementOfSeq
  <2>4. PICK q : q = SubSeq(Opened, 1, n)
    OBVIOUS
  <2>5. q \in Seq(Nat) /\ Len(q) = n /\ \A i \in 1 .. n : q[i] = Opened[i]
    BY <1>4, <2>1, <2>3, <2>4, SubSeqProperties
  <2>6. q = [i \in 1 .. n |-> q[i]]
    BY <2>5, LenProperties
  <2>7. Opened' = [i \in 1 .. n |-> frames'[i].env]
    BY <1>5 DEF Opened
  <2>8. \A i \in 1 .. n : frames'[i].env = q[i]
    BY <1>4, <1>5, <2>1, <2>5
  <2> QED
    BY <2>2, <2>4, <2>6, <2>7, <2>8
<1>7. Scoped' = Scoped /\ Closed' = Closed
  BY <1>1 DEF Scoped, Closed
<1>8. Levels'
  <2>1. \A i \in 1 .. n : frames[i].env \notin MadeEnvs(things)
    BY <1>4 DEF ScopeInv
  <2> QED
    BY <1>1, <1>5, <2>1 DEF Levels, ScopeInv
<1> QED
  BY <1>1, <1>2, <1>6, <1>7, <1>8, LexicalLeave DEF Lexically

LEMMA NextMoves ==
  ASSUME ScopeInv, Next
  PROVE  Lexically
<1>1. CASE Variables
  BY <1>1, DeclVarMoves, LoadMoves, ArgMoves, StoreMoves DEF Variables
<1>2. CASE Properties
  <2>1. PICK o \in AtHand, k \in program.keys : OpObjGet(o, k) \/ \E v : OpObjSet(o, k, v)
    BY <1>2 DEF Properties
  <2> QED
    BY <2>1, ObjGetMoves, ObjSetMoves
<1>3. CASE Look
  BY <1>3, LookMoves
<1>4. CASE Calls
  <2>1. CASE \E f \in AtHand, v \in Literals : OpCall(f, Undefined, <<v>>) \/ OpNew(f, <<v>>)
    <3>1. \A v \in Literals : <<v>> \in Seq(Values)
      BY LiteralFacts
    <3> QED
      BY <2>1, <3>1, UndefinedIsValue, CallMoves, NewMoves
  <2>2. CASE \E v \in Literals : OpRet(v)
    BY <2>2, RetMoves
  <2> QED
    BY <1>4, <2>1, <2>2 DEF Calls
<1>5. CASE OpLoadObject
  BY <1>5, LoadObjectMoves
<1>6. CASE OpLoadFunction
  BY <1>6, LoadFunctionMoves
<1>7. CASE LoadFunctionFails
  BY <1>7, LoadFunctionFailsMoves
<1> QED
  BY <1>1, <1>2, <1>3, <1>4, <1>5, <1>6, <1>7 DEF Next

(* At the boot there is the global scope, with a function that has none.   *)
LEMMA BootIsScoped ==
  ASSUME Init
  PROVE  ScopeInv /\ Lexical!Begin
<1>1. NamesInv
  BY BootIsOK
<1>2. /\ DOMAIN envs = {1, 2} /\ envs[1].parent = 0 /\ envs[2].parent = 1 /\ envs[2].vars = <<>>
      /\ DOMAIN things = {1, 2, 3} /\ things[1].type = "object" /\ things[2].type = "object"
      /\ things[3].type = "function" /\ things[3].env = 2
      /\ DOMAIN frames = {1} /\ frames[1].env = 1 /\ Len(frames) = 1
  <2>1. PICK g, h : envs = <<g, h>> /\ g.parent = 0 /\ h.parent = 1 /\ h.vars = <<>>
    BY DEF Init, NewEnv
  <2>2. PICK a, b, c : things = <<a, b, c>> /\ a.type = "object" /\ b.type = "object" /\ c.type = "function" /\ c.env = 2
    <3> DEFINE a == NewThing("object", Null, Undefined, 0)
               b0 == NewThing("object", ObjectPrototype, Undefined, 0)
               b == [b0 EXCEPT !.props = <<[key |-> Call, type |-> "getter", value |-> Getter]>>]
               c == NewThing("function", FunctionPrototype, Undefined, 2)
    <3>1. things = <<a, b, c>>
      BY DEF Init
    <3>2. a.type = "object" /\ b.type = "object" /\ c.type = "function" /\ c.env = 2
      BY DEF NewThing
    <3> HIDE DEF a, b, c
    <3> QED
      BY <3>1, <3>2
  <2>3. PICK f : frames = <<f>> /\ f.env = 1
    BY DEF Init
  <2> QED
    BY <2>1, <2>2, <2>3
<1>3. Functions(things) = {3} /\ MadeEnvs(things) = {2}
  BY <1>2 DEF Functions, MadeEnvs, IsFunction
<1>4. TwoLevels(envs, MadeEnvs(things))
  BY <1>2, <1>3 DEF TwoLevels
<1>5. ScopeInv
  BY <1>1, <1>2, <1>3, <1>4 DEF ScopeInv
<1>6. Len(Opened) = 1 /\ Opened[1] = 1
  BY <1>1, <1>2, OpenedFacts
<1>7. DOMAIN Scoped = {1} /\ Scoped[1].outer = 0
  <2>1. DOMAIN Scoped = {1}
    BY <1>2, <1>3, <1>5, ScopedFacts
  <2> QED
    BY <1>2, <1>5, <2>1, ScopedFacts DEF OuterOf
<1>8. \A u \in DOMAIN Closed : Closed[u] = 1
  BY <1>2, <1>3 DEF Closed, ClosureOf
<1>9. status = "running"
  BY DEF Init
<1>10. Lexical!Begin
  BY <1>6, <1>7, <1>8, <1>9 DEF Lexical!Begin, Opened, Closed, ClosureOf, Functions, Scoped, ScopesOf, MadeEnvs, ClosureEnvs, Outer, OuterOf, Bound, BoundOf
<1> QED
  BY <1>5, <1>10

(* Variables have the scopes of the text of the program, whatever          *)
(* functions it makes and whoever calls them: the machine's environments,  *)
(* searched outward, do what lexical scopes promise.                       *)
THEOREM ImplementsScopes == Spec => ScopesMeant
<1>1. Init => ScopeInv /\ Lexical!Begin
  BY BootIsScoped
<1>2. ScopeInv /\ [Next]_vars => ScopeInv' /\ [Lexical!ScopesNext]_(Lexical!vars)
  <2> SUFFICES ASSUME ScopeInv, [Next]_vars PROVE ScopeInv' /\ [Lexical!ScopesNext]_(Lexical!vars)
    OBVIOUS
  <2>1. NamesInv'
    BY NextKeeps, StutterKeeps DEF ScopeInv
  <2>2. CASE Next
    <3>1. Levels' /\ (Lexical!ScopesNext \/ UNCHANGED Lexical!vars)
      BY <2>2, NextMoves DEF Lexically
    <3> QED
      BY <2>1, <3>1 DEF ScopeInv, Levels
  <2>3. CASE UNCHANGED vars
    <3>1. UNCHANGED <<envs, things, frames, got, status>>
      BY <2>3 DEF vars
    <3>2. Levels' /\ UNCHANGED <<Scoped, Opened, Closed>>
      BY <3>1, SameStays
    <3>3. UNCHANGED Lexical!vars
      BY <3>1, <3>2, LexicalStutter
    <3> QED
      BY <2>1, <3>2, <3>3 DEF ScopeInv, Levels
  <2> QED
    BY <2>2, <2>3
<1> QED
  BY <1>1, <1>2, PTL DEF Spec, ScopesMeant, Lexical!ScopesSpec

----------------------------------------------------------------------------
(***************************************************************************)
(* A search through a chain of things that may run in a circle.            *)
(***************************************************************************)

(* One row for each number of steps that the search may take: what is      *)
(* found from v on, among things T of which those in A answer.             *)
Row(g, n, V, T, A, id, next) ==
  [v \in V |-> IF n = 0 \/ v \notin T THEN 0 ELSE IF v \in A THEN id[v] ELSE g[n - 1][next[v]]]

IsSearch(g, N, V, T, A, id, next) == g = [n \in 0 .. N |-> Row(g, n, V, T, A, id, next)]

(* Of N things some may be two values, which are treated alike.            *)
IsChain(N, V, T, A, id, next) ==
  /\ N \in Nat /\ T \subseteq V
  /\ \A v \in T : id[v] \in 1 .. N /\ next[v] \in V
  /\ \A v, w \in T : id[v] = id[w] => (v \in A <=> w \in A) /\ next[v] = next[w]

LEMMA SearchThereIs ==
  ASSUME NEW N, NEW V, NEW T, NEW A, NEW id, NEW next, IsChain(N, V, T, A, id, next)
  PROVE  \E g : IsSearch(g, N, V, T, A, id, next)
<1> DEFINE R(g, n) == Row(g, n, V, T, A, id, next)
           G == [0 .. N -> [V -> 0 .. N]]
           Good(g, k) == \A n \in 0 .. N : n <= k => g[n] = R(g, n)
           S == {k \in Nat : \E g \in G : Good(g, k)}
<1>0. N \in Nat /\ T \subseteq V /\ \A v \in T : id[v] \in 1 .. N /\ next[v] \in V
  BY DEF IsChain
<1>1. ASSUME NEW g \in G, NEW n \in 0 .. N PROVE R(g, n) \in [V -> 0 .. N]
  <2>1. ASSUME NEW v \in V
        PROVE  (IF n = 0 \/ v \notin T THEN 0 ELSE IF v \in A THEN id[v] ELSE g[n - 1][next[v]]) \in 0 .. N
    <3>1. CASE n = 0 \/ v \notin T
      BY <1>0, <3>1
    <3>2. CASE ~(n = 0 \/ v \notin T)
      <4>1. n - 1 \in 0 .. N /\ id[v] \in 1 .. N /\ next[v] \in V
        BY <1>0, <3>2
      <4>2. g[n - 1] \in [V -> 0 .. N]
        BY <4>1
      <4>3. g[n - 1][next[v]] \in 0 .. N
        BY <4>1, <4>2
      <4>4. PICK found \in 0 .. N : found = g[n - 1][next[v]]
        BY <4>3
      <4>5. PICK known \in 1 .. N : known = id[v]
        BY <4>1
      <4>6. known \in 0 .. N
        BY <1>0
      <4> QED
        BY <3>2, <4>4, <4>5, <4>6
    <3> QED
      BY <3>1, <3>2
  <2> QED
    BY <2>1 DEF Row
<1>2. 0 \in S
  <2> DEFINE z == [n \in 0 .. N |-> [v \in V |-> 0]]
  <2>1. z \in G
    BY <1>0
  <2>2. Good(z, 0)
    <3>1. \A n \in 0 .. N : n <= 0 => n = 0
      BY <1>0
    <3>2. z[0] = R(z, 0)
      BY <1>0 DEF Row
    <3> HIDE DEF z, R
    <3> QED
      BY <3>1, <3>2
  <2> HIDE DEF z, Good, G
  <2> QED
    BY <2>1, <2>2
<1>3. ASSUME NEW k \in Nat, k \in S PROVE k + 1 \in S
  <2>1. PICK g \in G : Good(g, k)
    BY <1>3
  <2>2. k + 1 \in Nat
    OBVIOUS
  <2>3. CASE k + 1 \notin 0 .. N
    <3>1. \A n \in 0 .. N : n <= k + 1 => n <= k
      BY <1>0, <2>3
    <3> HIDE DEF R, G
    <3>2. Good(g, k + 1)
      BY <2>1, <3>1
    <3> HIDE DEF Good
    <3> QED
      BY <2>2, <3>2
  <2>4. CASE k + 1 \in 0 .. N
    <3> DEFINE r == R(g, k + 1)
               h == [g EXCEPT ![k + 1] = r]
    <3>1. r \in [V -> 0 .. N]
      BY <1>1, <2>4
    <3>2. h \in G /\ \A n \in 0 .. N : h[n] = IF n = k + 1 THEN r ELSE g[n]
      <4> HIDE DEF r
      <4> QED
        BY <2>4, <3>1
    <3>3. ASSUME NEW n \in 0 .. N, n <= k + 1 PROVE h[n] = R(h, n)
      <4> HIDE DEF h, r
      <4>1. n # 0 => h[n - 1] = g[n - 1]
        <5>1. n # 0 => n - 1 \in 0 .. N /\ n - 1 # k + 1
          BY <1>0, <3>3
        <5> QED
          BY <3>2, <5>1
      <4>2. R(h, n) = R(g, n)
        BY <4>1 DEF Row
      <4>3. CASE n = k + 1
        BY <2>4, <3>2, <4>2, <4>3 DEF r
      <4>4. CASE n # k + 1
        <5>1. n <= k
          BY <1>0, <3>3, <4>4
        <5> HIDE DEF R
        <5> QED
          BY <2>1, <3>2, <4>2, <4>4, <5>1
      <4> QED
        BY <4>3, <4>4
    <3> HIDE DEF h, R, r, G
    <3>4. Good(h, k + 1)
      BY <3>3
    <3> HIDE DEF Good
    <3> QED
      BY <2>2, <3>2, <3>4
  <2> QED
    BY <2>3, <2>4
<1>4. N \in S
  <2> HIDE DEF S
  <2> QED
    BY <1>0, <1>2, <1>3, NatSetInduction
<1>5. PICK g \in G : Good(g, N)
  BY <1>4
<1>6. \A n \in 0 .. N : g[n] = R(g, n)
  <2> HIDE DEF R
  <2> QED
    BY <1>0, <1>5
<1>7. g = [n \in 0 .. N |-> R(g, n)]
  <2> HIDE DEF R
  <2> QED
    BY <1>5, <1>6
<1> QED
  BY <1>7 DEF IsSearch

(* As many steps as there are things are enough: what is found in N steps  *)
(* is found from the next thing in N steps as well.  If the chain were     *)
(* longer, each step would find something from a thing that no shorter     *)
(* search has found anything from, and there are only N.                   *)
LEMMA StepsSuffice ==
  ASSUME NEW N, NEW V, NEW T, NEW A, NEW id, NEW next, IsChain(N, V, T, A, id, next),
         NEW g, IsSearch(g, N, V, T, A, id, next), NEW v \in V
  PROVE  g[N][v] = IF v \notin T THEN 0 ELSE IF v \in A THEN id[v] ELSE g[N][next[v]]
<1> DEFINE B(n) == {u \in 1 .. N : \E w \in T : id[w] = u /\ g[n][w] # 0}
           Stable(n) == \A w \in V : g[n + 1][w] = g[n][w]
<1>0. N \in Nat /\ T \subseteq V /\ \A w \in T : id[w] \in 1 .. N /\ next[w] \in V
  BY DEF IsChain
<1>1. \A n \in 0 .. N : \A w \in V :
        g[n][w] = IF n = 0 \/ w \notin T THEN 0 ELSE IF w \in A THEN id[w] ELSE g[n - 1][next[w]]
  <2> SUFFICES ASSUME NEW n \in 0 .. N, NEW w \in V
               PROVE  g[n][w] = IF n = 0 \/ w \notin T THEN 0 ELSE IF w \in A THEN id[w] ELSE g[n - 1][next[w]]
    OBVIOUS
  <2>1. g[n] = Row(g, n, V, T, A, id, next)
    BY DEF IsSearch
  <2>2. Row(g, n, V, T, A, id, next)[w]
          = IF n = 0 \/ w \notin T THEN 0 ELSE IF w \in A THEN id[w] ELSE g[n - 1][next[w]]
    BY DEF Row
  <2> QED
    BY <2>1, <2>2
<1>2. \A w \in T : id[w] # 0
  BY <1>0
(* What is found is found again with one step more.                        *)
<1>3. \A n \in 0 .. N - 1 : \A w \in V : g[n][w] # 0 => g[n + 1][w] = g[n][w]
  <2> DEFINE S == {n \in Nat : n < N => \A w \in V : g[n][w] # 0 => g[n + 1][w] = g[n][w]}
  <2>1. 0 \in S
    BY <1>0, <1>1
  <2>2. ASSUME NEW n \in Nat, n \in S PROVE n + 1 \in S
    <3>1. ASSUME n + 1 < N, NEW w \in V, g[n + 1][w] # 0 PROVE g[n + 1 + 1][w] = g[n + 1][w]
      <4>1. n \in 0 .. N /\ n + 1 \in 0 .. N /\ n + 1 + 1 \in 0 .. N /\ n + 1 # 0 /\ n + 1 + 1 # 0
            /\ n + 1 - 1 = n /\ n + 1 + 1 - 1 = n + 1 /\ n < N
        BY <1>0, <3>1
      <4>2. g[n + 1][w] = IF w \notin T THEN 0 ELSE IF w \in A THEN id[w] ELSE g[n][next[w]]
        BY <1>1, <4>1
      <4>3. g[n + 1 + 1][w] = IF w \notin T THEN 0 ELSE IF w \in A THEN id[w] ELSE g[n + 1][next[w]]
        BY <1>1, <4>1
      <4>4. w \in T
        BY <3>1, <4>2
      <4>5. CASE w \in A
        BY <4>2, <4>3, <4>5
      <4>6. CASE w \notin A
        <5>1. next[w] \in V /\ g[n][next[w]] # 0
          BY <1>0, <3>1, <4>2, <4>4, <4>6
        <5>2. g[n + 1][next[w]] = g[n][next[w]]
          BY <2>2, <4>1, <5>1
        <5> QED
          BY <4>2, <4>3, <4>4, <4>6, <5>2
      <4> QED
        BY <4>5, <4>6
    <3>2. n + 1 \in Nat
      OBVIOUS
    <3> QED
      BY <3>1, <3>2
  <2>3. \A n \in Nat : n \in S
    <3> HIDE DEF S
    <3> QED
      BY <2>1, <2>2, NatSetInduction
  <2>4. \A n \in 0 .. N - 1 : n \in Nat /\ n < N
    BY <1>0
  <2> QED
    BY <2>3, <2>4
(* What one step more finds nothing new from, no step more does.           *)
<1>4. ASSUME NEW n \in Nat, n + 1 < N, Stable(n) PROVE Stable(n + 1)
  <2> SUFFICES ASSUME NEW w \in V PROVE g[n + 1 + 1][w] = g[n + 1][w]
    OBVIOUS
  <2>1. n \in 0 .. N /\ n + 1 \in 0 .. N /\ n + 1 + 1 \in 0 .. N /\ n + 1 # 0 /\ n + 1 + 1 # 0
        /\ n + 1 - 1 = n /\ n + 1 + 1 - 1 = n + 1
    BY <1>0, <1>4
  <2>2. g[n + 1][w] = IF w \notin T THEN 0 ELSE IF w \in A THEN id[w] ELSE g[n][next[w]]
    BY <1>1, <2>1
  <2>3. g[n + 1 + 1][w] = IF w \notin T THEN 0 ELSE IF w \in A THEN id[w] ELSE g[n + 1][next[w]]
    BY <1>1, <2>1
  <2>4. w \in T => g[n + 1][next[w]] = g[n][next[w]]
    BY <1>0, <1>4
  <2> QED
    BY <2>2, <2>3, <2>4
<1>5. ASSUME NEW m \in Nat, m < N, Stable(m) PROVE Stable(N - 1)
  <2> DEFINE S == {k \in Nat : m + k < N => Stable(m + k)}
  <2> HIDE DEF Stable
  <2>1. 0 \in S
    BY <1>5
  <2>2. ASSUME NEW k \in Nat, k \in S PROVE k + 1 \in S
    <3>1. ASSUME m + (k + 1) < N PROVE Stable(m + (k + 1))
      <4>1. m + k \in Nat /\ (m + k) + 1 < N /\ m + k < N /\ m + (k + 1) = (m + k) + 1
        BY <1>0, <3>1
      <4>2. Stable(m + k)
        BY <2>2, <4>1
      <4>3. Stable((m + k) + 1)
        BY <1>4, <4>1, <4>2
      <4> QED
        BY <4>1, <4>3
    <3> QED
      BY <3>1
  <2>3. N - 1 - m \in Nat /\ m + (N - 1 - m) = N - 1 /\ N - 1 < N
    BY <1>0, <1>5
  <2>4. N - 1 - m \in S
    <3> HIDE DEF S
    <3> QED
      BY <2>1, <2>2, <2>3, NatSetInduction
  <2> QED
    BY <2>3, <2>4
<1>6. \A n \in Nat : IsFiniteSet(B(n)) /\ B(n) \subseteq 1 .. N /\ Cardinality(B(n)) \in Nat
  <2> TAKE n \in Nat
  <2>1. B(n) \subseteq 1 .. N
    OBVIOUS
  <2>2. IsFiniteSet(1 .. N)
    BY <1>0, FS_Interval
  <2> HIDE DEF B
  <2> QED
    BY <2>1, <2>2, FS_Subset, FS_CardinalityType
<1>7. ASSUME NEW n \in Nat, n < N, ~Stable(n)
      PROVE  B(n) \subseteq B(n + 1) /\ B(n) # B(n + 1)
  <2>1. n \in 0 .. N - 1 /\ n \in 0 .. N /\ n + 1 \in 0 .. N
    BY <1>0, <1>7
  <2>2. B(n) \subseteq B(n + 1)
    BY <1>0, <1>3, <2>1
  <2>3. PICK w \in V : g[n + 1][w] # g[n][w]
    BY <1>7
  <2>4. g[n][w] = 0 /\ g[n + 1][w] # 0
    BY <1>3, <2>1, <2>3
  <2>5. w \in T
    BY <1>1, <2>1, <2>4
  <2>6. id[w] \in B(n + 1)
    BY <1>0, <2>4, <2>5
  <2>7. id[w] \notin B(n)
    <3> SUFFICES ASSUME NEW x \in T, id[x] = id[w], g[n][x] # 0 PROVE FALSE
      OBVIOUS
    <3>1. (x \in A <=> w \in A) /\ next[x] = next[w]
      BY <2>5 DEF IsChain
    <3>2. g[n][x] = g[n][w]
      BY <1>0, <1>1, <2>1, <2>5, <3>1
    <3> QED
      BY <2>4, <3>2
  <2> QED
    BY <2>2, <2>6, <2>7
<1>8. ASSUME N > 0, ~Stable(N - 1) PROVE B(N) = 1 .. N
  <2> DEFINE S == {n \in Nat : n <= N => Cardinality(B(n)) >= n}
  <2>1. 0 \in S
    <3>1. Cardinality(B(0)) \in Nat
      BY <1>6
    <3> HIDE DEF B
    <3> QED
      BY <3>1
  <2>2. ASSUME NEW n \in Nat, n \in S PROVE n + 1 \in S
    <3>1. ASSUME n + 1 <= N PROVE Cardinality(B(n + 1)) >= n + 1
      <4> HIDE DEF B, Stable
      <4>1. n < N /\ n <= N /\ n + 1 \in Nat
        BY <1>0, <3>1
      <4>2. ~Stable(n)
        BY <1>5, <1>8, <4>1
      <4>3. B(n) \subseteq B(n + 1) /\ B(n) # B(n + 1)
        BY <1>7, <4>1, <4>2
      <4>4. /\ IsFiniteSet(B(n)) /\ IsFiniteSet(B(n + 1))
            /\ Cardinality(B(n)) \in Nat /\ Cardinality(B(n + 1)) \in Nat
        BY <1>6, <4>1
      <4>5. Cardinality(B(n)) < Cardinality(B(n + 1))
        BY <4>3, <4>4, FS_Subset
      <4>6. Cardinality(B(n)) >= n
        BY <2>2, <4>1
      <4> QED
        BY <4>4, <4>5, <4>6
    <3>2. n + 1 \in Nat
      OBVIOUS
    <3> HIDE DEF B
    <3> QED
      BY <3>1, <3>2
  <2>3. N \in S
    <3> HIDE DEF S
    <3> QED
      BY <1>0, <2>1, <2>2, NatSetInduction
  <2> HIDE DEF B
  <2>4. Cardinality(B(N)) >= N /\ B(N) \subseteq 1 .. N /\ IsFiniteSet(B(N)) /\ Cardinality(B(N)) \in Nat
    BY <1>0, <1>6, <2>3
  <2>5. IsFiniteSet(1 .. N) /\ Cardinality(1 .. N) = N
    <3>1. 1 \in Int /\ N \in Int
      BY <1>0
    <3>2. IsFiniteSet(1 .. N) /\ Cardinality(1 .. N) = IF 1 > N THEN 0 ELSE N - 1 + 1
      BY <3>1, FS_Interval
    <3> QED
      BY <1>0, <1>8, <3>2
  <2>6. SUFFICES ASSUME B(N) # 1 .. N PROVE FALSE
    OBVIOUS
  <2>7. Cardinality(B(N)) < Cardinality(1 .. N)
    <3> DEFINE all == 1 .. N
    <3>1. B(N) \subseteq all /\ B(N) # all /\ IsFiniteSet(all)
      BY <2>4, <2>5, <2>6
    <3> HIDE DEF all
    <3>2. Cardinality(B(N)) <= Cardinality(all) /\ Cardinality(B(N)) # Cardinality(all)
      BY <3>1, FS_Subset, Zenon
    <3>3. Cardinality(B(N)) \in Nat /\ Cardinality(all) \in Nat
      BY <1>0, <2>4, <2>5 DEF all
    <3>4. \A a, b \in Nat : a <= b /\ a # b => a < b
      OBVIOUS
    <3>5. Cardinality(B(N)) < Cardinality(all)
      BY <3>2, <3>3, <3>4, Zenon
    <3> QED
      BY <3>5, Zenon DEF all
  <2> QED
    BY <1>0, <2>4, <2>5, <2>7
<1>9. CASE v \notin T
  BY <1>0, <1>1, <1>9
<1>10. CASE v \in T
  <2>1. N > 0 /\ N \in 0 .. N /\ N - 1 \in 0 .. N /\ N - 1 \in 0 .. N - 1 /\ N - 1 + 1 = N /\ N # 0 /\ next[v] \in V /\ id[v] \in 1 .. N
    BY <1>0, <1>10
  <2>2. g[N][v] = IF v \in A THEN id[v] ELSE g[N - 1][next[v]]
    BY <1>1, <1>10, <2>1
  <2>3. CASE Stable(N - 1)
    <3>1. g[N][next[v]] = g[N - 1][next[v]]
      BY <2>1, <2>3
    <3> QED
      BY <1>10, <2>2, <3>1
  <2>4. CASE ~Stable(N - 1)
    <3>1. id[v] \in B(N)
      <4> HIDE DEF Stable, B
      <4> QED
        BY <1>8, <2>1, <2>4
    <3>2. PICK w \in T : id[w] = id[v] /\ g[N][w] # 0
      BY <3>1
    <3>3. (w \in A <=> v \in A) /\ next[w] = next[v]
      BY <1>10, <3>2 DEF IsChain
    <3>4. g[N][w] = IF w \in A THEN id[w] ELSE g[N - 1][next[w]]
      BY <1>0, <1>1, <2>1
    <3>5. g[N][v] # 0
      BY <2>2, <3>2, <3>3, <3>4
    <3>6. CASE v \in A
      BY <1>10, <2>2, <3>6
    <3>7. CASE v \notin A
      <4>1. g[N - 1][next[v]] # 0
        BY <2>2, <3>5, <3>7
      <4>2. g[N - 1 + 1][next[v]] = g[N - 1][next[v]]
        BY <1>3, <2>1, <4>1
      <4> QED
        BY <1>10, <2>1, <2>2, <3>7, <4>2
    <3> QED
      BY <3>6, <3>7
  <2> QED
    BY <2>3, <2>4
<1> QED
  BY <1>9, <1>10

(***************************************************************************)
(* Keys that compare equal have one name.                                  *)
(***************************************************************************)
OneOfItsKind(k) == k.type \in {"undefined", "null"} => k \in {Undefined, Null}

LEMMA KeysAreOne ==
  ASSUME NEW k \in AnyKey
  PROVE  OneOfItsKind(k)
<1>1. Undefined.type = "undefined" /\ Call.type = "string"
  BY DEF Undefined, Call, Str
<1>2. CASE k \in {Undefined, Call}
  BY <1>1, <1>2 DEF OneOfItsKind
<1>3. CASE \E p \in Programs : k \in p.keys
  BY <1>3, KeysAssumption DEF OneOfItsKind
<1> QED
  BY <1>2, <1>3 DEF AnyKey

LEMMA EqualKeys ==
  ASSUME NEW k, NEW l, OneOfItsKind(k), OneOfItsKind(l)
  PROVE  Eq2(k, l) <=> Findable(k) /\ Findable(l) /\ Nullish(k) = Nullish(l)
<1>1. Undefined.type = "undefined" /\ Null.type = "null" /\ Undefined # Null
  BY DEF Undefined, Null
<1>2. CASE Eq2(k, l)
  BY <1>1, <1>2 DEF Eq2, Findable, Nullish, OneOfItsKind
<1>3. CASE Findable(k) /\ Findable(l) /\ Nullish(k) = Nullish(l)
  BY <1>1, <1>3 DEF Eq2, Findable, Nullish, OneOfItsKind
<1> QED
  BY <1>2, <1>3

LEMMA NullishTwice ==
  ASSUME NEW k, OneOfItsKind(k)
  PROVE  /\ OneOfItsKind(Nullish(k)) /\ Nullish(Nullish(k)) = Nullish(k)
         /\ Findable(k) <=> Findable(Nullish(k))
<1>1. Undefined.type = "undefined" /\ Null.type = "null" /\ Undefined # Null
  BY DEF Undefined, Null
<1> QED
  BY <1>1 DEF Eq2, Findable, Nullish, OneOfItsKind

(***************************************************************************)
(* What an object has of its own.                                          *)
(***************************************************************************)
PropsOK(list) == list \in Seq(PropRecord) /\ UniqueProps(list)

LEMMA PropFacts ==
  ASSUME NEW list, PropsOK(list)
  PROVE  /\ Len(list) \in Nat /\ DOMAIN list = 1 .. Len(list)
         /\ \A i \in 1 .. Len(list) :
              list[i] \in PropRecord /\ list[i].key \in AnyKey /\ OneOfItsKind(list[i].key)
              /\ list[i].type \in {"value", "getter"} /\ list[i].value \in Values
<1>1. list \in Seq(PropRecord)
  BY DEF PropsOK
<1>2. \A i \in 1 .. Len(list) : list[i] \in PropRecord
  BY <1>1, ElementOfSeq
<1>3. \A i \in 1 .. Len(list) :
        list[i].key \in AnyKey /\ list[i].type \in {"value", "getter"} /\ list[i].value \in Values
  BY <1>2 DEF PropRecord
<1> QED
  BY <1>1, <1>2, <1>3, KeysAreOne, LenProperties

(* The entry found for a key is the only one that compares equal.          *)
LEMMA EntryIs ==
  ASSUME NEW list, PropsOK(list), NEW key, OneOfItsKind(key)
  PROVE  /\ EntryOf(list, key) # 0 =>
              EntryOf(list, key) \in 1 .. Len(list) /\ Eq2(list[EntryOf(list, key)].key, key)
         /\ \A i \in 1 .. Len(list) : Eq2(list[i].key, key) => EntryOf(list, key) = i
<1>1. Len(list) \in Nat /\ \A i \in 1 .. Len(list) : OneOfItsKind(list[i].key)
  BY PropFacts
<1>2. PICK e : e = EntryOf(list, key)
  OBVIOUS
<1>3. e # 0 => e \in 1 .. Len(list) /\ Eq2(list[e].key, key)
  <2> DEFINE I == {i \in 1 .. Len(list) : Eq2(list[i].key, key)}
  <2>1. I \in SUBSET Nat
    BY <1>1
  <2>2. I # {} => Min(I) \in I
    <3> HIDE DEF I
    <3> QED
      BY <2>1, Smallest
  <2>3. EntryOf(list, key) = IF I # {} THEN Min(I) ELSE 0
    BY DEF EntryOf, SelectInSeq
  <2>4. e # 0 => e \in I
    <3> HIDE DEF I
    <3> QED
      BY <1>2, <2>2, <2>3
  <2> QED
    BY <2>4
<1>4. ASSUME NEW i \in 1 .. Len(list), Eq2(list[i].key, key) PROVE e = i
  <2>1. e # 0
    BY <1>2, <1>4, EntryFacts DEF PropsOK
  <2>2. e \in 1 .. Len(list) /\ Eq2(list[e].key, key)
    BY <1>3, <2>1
  <2>3. PICK k, l : k = list[e].key /\ l = list[i].key
    OBVIOUS
  <2>4. OneOfItsKind(k) /\ OneOfItsKind(l) /\ Eq2(k, key) /\ Eq2(l, key)
    BY <1>1, <1>4, <2>2, <2>3
  <2>5. Eq2(k, l)
    BY <2>4, EqualKeys
  <2> QED
    BY <2>2, <2>3, <2>5 DEF PropsOK, UniqueProps
<1> QED
  BY <1>2, <1>3, <1>4

LEMMA OwnFacts ==
  ASSUME NEW list, PropsOK(list)
  PROVE  /\ DOMAIN Own(list) = {Nullish(list[i].key) : i \in {j \in 1 .. Len(list) : Findable(list[j].key)}}
         /\ \A i \in 1 .. Len(list) : Findable(list[i].key) =>
              Own(list)[Nullish(list[i].key)] = [type |-> list[i].type, value |-> list[i].value]
<1>0. DOMAIN list = 1 .. Len(list)
  BY PropFacts
<1> DEFINE D == {Nullish(k) : k \in {list[i].key : i \in {j \in DOMAIN list : Findable(list[j].key)}}}
<1>1. D = {Nullish(list[i].key) : i \in {j \in 1 .. Len(list) : Findable(list[j].key)}}
  BY <1>0
<1>2. Own(list) = [key \in D |-> [type |-> list[EntryOf(list, key)].type, value |-> list[EntryOf(list, key)].value]]
  BY DEF Own
<1>3. ASSUME NEW i \in 1 .. Len(list), Findable(list[i].key)
      PROVE  Own(list)[Nullish(list[i].key)] = [type |-> list[i].type, value |-> list[i].value]
  <2>1. PICK k, n : k = list[i].key /\ n = Nullish(k)
    OBVIOUS
  <2>2. OneOfItsKind(k) /\ OneOfItsKind(n) /\ Nullish(n) = n /\ Findable(n) /\ Findable(k)
    BY <1>3, <2>1, PropFacts, NullishTwice
  <2>3. Eq2(k, n)
    BY <2>1, <2>2, EqualKeys
  <2>4. EntryOf(list, n) = i
    BY <2>1, <2>2, <2>3, EntryIs
  <2>5. n \in D
    BY <1>1, <1>3, <2>1
  <2> HIDE DEF D
  <2>6. Own(list)[n] = [type |-> list[EntryOf(list, n)].type, value |-> list[EntryOf(list, n)].value]
    BY <1>2, <2>5
  <2> QED
    BY <2>1, <2>4, <2>6
<1>4. DOMAIN Own(list) = D
  <2> HIDE DEF D
  <2> QED
    BY <1>2
<1> QED
  BY <1>1, <1>3, <1>4

IsOwn(list, f) ==
  /\ f = [n \in DOMAIN f |-> f[n]]
  /\ DOMAIN f = {Nullish(list[i].key) : i \in {j \in 1 .. Len(list) : Findable(list[j].key)}}
  /\ \A i \in 1 .. Len(list) : Findable(list[i].key) =>
       f[Nullish(list[i].key)] = [type |-> list[i].type, value |-> list[i].value]

LEMMA OwnIs ==
  ASSUME NEW list, PropsOK(list), NEW f, IsOwn(list, f)
  PROVE  Own(list) = f
<1>0. /\ f = [n \in DOMAIN f |-> f[n]]
      /\ DOMAIN f = {Nullish(list[i].key) : i \in {j \in 1 .. Len(list) : Findable(list[j].key)}}
      /\ \A i \in 1 .. Len(list) : Findable(list[i].key) =>
           f[Nullish(list[i].key)] = [type |-> list[i].type, value |-> list[i].value]
  BY DEF IsOwn
<1>1. PICK o : o = Own(list)
  OBVIOUS
<1>2. /\ DOMAIN o = {Nullish(list[i].key) : i \in {j \in 1 .. Len(list) : Findable(list[j].key)}}
      /\ \A i \in 1 .. Len(list) : Findable(list[i].key) =>
           o[Nullish(list[i].key)] = [type |-> list[i].type, value |-> list[i].value]
  BY <1>1, OwnFacts
<1>3. o = [n \in DOMAIN o |-> o[n]]
  BY <1>1 DEF Own
<1>4. DOMAIN o = DOMAIN f
  BY <1>0, <1>2
<1>5. ASSUME NEW n \in DOMAIN f PROVE o[n] = f[n]
  <2>1. PICK i \in 1 .. Len(list) : Findable(list[i].key) /\ n = Nullish(list[i].key)
    BY <1>0
  <2> QED
    BY <1>0, <1>2, <2>1
<1> QED
  BY <1>0, <1>1, <1>3, <1>4, <1>5

(* What is found in a list is what the object has by the name of the key.  *)
LEMMA OwnAnswers ==
  ASSUME NEW list, PropsOK(list), NEW key, OneOfItsKind(key)
  PROVE  /\ Findable(key) /\ Nullish(key) \in DOMAIN Own(list) <=> EntryOf(list, key) # 0
         /\ EntryOf(list, key) # 0 =>
              Own(list)[Nullish(key)] = [type |-> list[EntryOf(list, key)].type, value |-> list[EntryOf(list, key)].value]
<1>1. PICK e, o : e = EntryOf(list, key) /\ o = Own(list)
  OBVIOUS
<1>2. /\ DOMAIN o = {Nullish(list[i].key) : i \in {j \in 1 .. Len(list) : Findable(list[j].key)}}
      /\ \A i \in 1 .. Len(list) : Findable(list[i].key) =>
           o[Nullish(list[i].key)] = [type |-> list[i].type, value |-> list[i].value]
  BY <1>1, OwnFacts
<1>3. /\ e # 0 => e \in 1 .. Len(list) /\ Eq2(list[e].key, key)
      /\ \A i \in 1 .. Len(list) : Eq2(list[i].key, key) => e = i
  BY <1>1, EntryIs
<1>4. \A i \in 1 .. Len(list) : OneOfItsKind(list[i].key) /\ i # 0
  BY PropFacts
<1>5. ASSUME e # 0
      PROVE  /\ Findable(key) /\ Nullish(key) \in DOMAIN o
             /\ o[Nullish(key)] = [type |-> list[e].type, value |-> list[e].value]
  <2>1. PICK k : k = list[e].key
    OBVIOUS
  <2>2. e \in 1 .. Len(list) /\ OneOfItsKind(k) /\ Eq2(k, key)
    BY <1>3, <1>4, <1>5, <2>1
  <2>3. Findable(k) /\ Findable(key) /\ Nullish(k) = Nullish(key)
    BY <2>2, EqualKeys
  <2> QED
    BY <1>2, <2>1, <2>2, <2>3
<1>6. ASSUME Findable(key), Nullish(key) \in DOMAIN o PROVE e # 0
  <2>1. PICK i \in 1 .. Len(list) : Findable(list[i].key) /\ Nullish(list[i].key) = Nullish(key)
    BY <1>2, <1>6
  <2>2. PICK k : k = list[i].key
    OBVIOUS
  <2>3. OneOfItsKind(k) /\ Findable(k) /\ Nullish(k) = Nullish(key)
    BY <1>4, <2>1, <2>2
  <2>4. Eq2(k, key)
    BY <1>6, <2>3, EqualKeys
  <2> QED
    BY <1>3, <1>4, <2>2, <2>4
<1> QED
  BY <1>1, <1>5, <1>6

PutIn(own, k, v) ==
  [n \in DOMAIN own \cup {Nullish(k)} |-> IF n = Nullish(k) THEN [type |-> "value", value |-> v] ELSE own[n]]

(* An entry is there by the name n.                                        *)
Named(list, i, n) == Findable(list[i].key) /\ Nullish(list[i].key) = n

LEMMA OwnPut ==
  ASSUME NEW list, PropsOK(list), NEW list2, PropsOK(list2), NEW key, NEW v,
         \E i \in 1 .. Len(list2) : Named(list2, i, Nullish(key)) /\ list2[i].type = "value" /\ list2[i].value = v,
         \A i \in 1 .. Len(list2) : ~Named(list2, i, Nullish(key)) => \E j \in 1 .. Len(list) : list[j] = list2[i],
         \A j \in 1 .. Len(list) : ~Named(list, j, Nullish(key)) => \E i \in 1 .. Len(list2) : list2[i] = list[j]
  PROVE  Own(list2) = PutIn(Own(list), key, v)
<1>1. PICK o, o2, n : o = Own(list) /\ o2 = Own(list2) /\ n = Nullish(key)
  OBVIOUS
<1>2. /\ DOMAIN o = {Nullish(list[i].key) : i \in {j \in 1 .. Len(list) : Findable(list[j].key)}}
      /\ \A i \in 1 .. Len(list) : Findable(list[i].key) =>
           o[Nullish(list[i].key)] = [type |-> list[i].type, value |-> list[i].value]
  BY <1>1, OwnFacts
<1>3. /\ DOMAIN o2 = {Nullish(list2[i].key) : i \in {j \in 1 .. Len(list2) : Findable(list2[j].key)}}
      /\ \A i \in 1 .. Len(list2) : Findable(list2[i].key) =>
           o2[Nullish(list2[i].key)] = [type |-> list2[i].type, value |-> list2[i].value]
  BY <1>1, OwnFacts
<1>4. o2 = [m \in DOMAIN o2 |-> o2[m]]
  BY <1>1 DEF Own
<1>5. PICK i0 \in 1 .. Len(list2) : Named(list2, i0, n) /\ list2[i0].type = "value" /\ list2[i0].value = v
  BY <1>1
<1>6. \A i \in 1 .. Len(list2) : ~Named(list2, i, n) => \E j \in 1 .. Len(list) : list[j] = list2[i]
  BY <1>1
<1>7. \A j \in 1 .. Len(list) : ~Named(list, j, n) => \E i \in 1 .. Len(list2) : list2[i] = list[j]
  BY <1>1
<1>8. DOMAIN o2 = DOMAIN o \cup {n}
  <2>1. \A m \in DOMAIN o2 : m = n \/ m \in DOMAIN o
    <3> TAKE m \in DOMAIN o2
    <3>1. PICK i \in 1 .. Len(list2) : Findable(list2[i].key) /\ Nullish(list2[i].key) = m
      BY <1>3
    <3>2. m # n => ~Named(list2, i, n)
      BY <3>1 DEF Named
    <3>3. m # n => \E j \in 1 .. Len(list) : list[j] = list2[i]
      BY <1>6, <3>2
    <3> QED
      BY <1>2, <3>1, <3>3
  <2>2. n \in DOMAIN o2
    BY <1>3, <1>5 DEF Named
  <2>3. \A m \in DOMAIN o : m # n => m \in DOMAIN o2
    <3> TAKE m \in DOMAIN o
    <3>1. PICK j \in 1 .. Len(list) : Findable(list[j].key) /\ Nullish(list[j].key) = m
      BY <1>2
    <3>2. m # n => ~Named(list, j, n)
      BY <3>1 DEF Named
    <3>3. m # n => \E i \in 1 .. Len(list2) : list2[i] = list[j]
      BY <1>7, <3>2
    <3> QED
      BY <1>3, <3>1, <3>3
  <2> QED
    BY <2>1, <2>2, <2>3
<1>9. o2[n] = [type |-> "value", value |-> v]
  BY <1>3, <1>5 DEF Named
<1>10. ASSUME NEW m \in DOMAIN o2, m # n PROVE o2[m] = o[m]
  <2>1. PICK i \in 1 .. Len(list2) : Findable(list2[i].key) /\ Nullish(list2[i].key) = m
    BY <1>3
  <2>2. ~Named(list2, i, n)
    BY <1>10, <2>1 DEF Named
  <2>3. PICK j \in 1 .. Len(list) : list[j] = list2[i]
    BY <1>6, <2>2
  <2>4. o2[m] = [type |-> list2[i].type, value |-> list2[i].value]
    BY <1>3, <2>1
  <2>5. o[Nullish(list[j].key)] = [type |-> list[j].type, value |-> list[j].value]
    BY <1>2, <2>1, <2>3
  <2> QED
    BY <2>1, <2>3, <2>4, <2>5
<1>11. [m \in DOMAIN o2 |-> o2[m]] = [m \in DOMAIN o \cup {n} |-> IF m = n THEN [type |-> "value", value |-> v] ELSE o[m]]
  BY <1>8, <1>9, <1>10
<1> QED
  BY <1>1, <1>4, <1>11 DEF PutIn

(* A key that finds nothing leaves what the object has.                    *)
LEMMA OwnUntouched ==
  ASSUME NEW list, PropsOK(list), NEW list2, PropsOK(list2), Len(list2) = Len(list) + 1,
         \A i \in 1 .. Len(list) : list2[i] = list[i], ~Findable(list2[Len(list2)].key)
  PROVE  Own(list2) = Own(list)
<1>1. PICK o : o = Own(list)
  OBVIOUS
<1>2. /\ DOMAIN o = {Nullish(list[i].key) : i \in {j \in 1 .. Len(list) : Findable(list[j].key)}}
      /\ \A i \in 1 .. Len(list) : Findable(list[i].key) =>
           o[Nullish(list[i].key)] = [type |-> list[i].type, value |-> list[i].value]
  BY <1>1, OwnFacts
<1>3. o = [m \in DOMAIN o |-> o[m]]
  BY <1>1 DEF Own
<1>4. Len(list) \in Nat
  BY PropFacts
<1>5. \A i \in 1 .. Len(list2) : Findable(list2[i].key) => i \in 1 .. Len(list) /\ list2[i] = list[i]
  <2> TAKE i \in 1 .. Len(list2)
  <2>1. i \in 1 .. Len(list) \/ i = Len(list2)
    BY <1>4
  <2> QED
    BY <2>1
<1>6. \A i \in 1 .. Len(list) : i \in 1 .. Len(list2)
  BY <1>4
<1>7. DOMAIN o = {Nullish(list2[i].key) : i \in {j \in 1 .. Len(list2) : Findable(list2[j].key)}}
  BY <1>2, <1>5, <1>6
<1>8. \A i \in 1 .. Len(list2) : Findable(list2[i].key) =>
        o[Nullish(list2[i].key)] = [type |-> list2[i].type, value |-> list2[i].value]
  BY <1>2, <1>5
<1>9. IsOwn(list2, o)
  BY <1>3, <1>7, <1>8 DEF IsOwn
<1>10. Own(list2) = o
  BY <1>9, OwnIs
<1> QED
  BY <1>1, <1>10

(* What xjr_val_properties_set does to a list.                             *)
LEMMA OwnSet ==
  ASSUME NEW n \in Nat, NEW m \in Nat, NEW t, ThingOK(t, n, m),
         NEW key \in AnyKey, key \notin {Proto, Prototype}, NEW value \in Values, Within(value, n)
  PROVE  /\ PropertiesSet(t, key, value).proto = t.proto /\ PropertiesSet(t, key, value).prototype = t.prototype
         /\ Own(PropertiesSet(t, key, value).props) =
              IF Findable(key) THEN PutIn(Own(t.props), key, value) ELSE Own(t.props)
<1>1. PICK list, t2, list2, k : /\ list = t.props /\ t2 = PropertiesSet(t, key, value) /\ list2 = t2.props
                                /\ k = EntryOf(list, key)
  OBVIOUS
<1>2. t \in ThingRecord /\ PropsOK(list)
  BY <1>1 DEF ThingOK, ThingRecord, PropsOK
<1>3. ThingOK(t2, n, m)
  BY <1>1, PropertiesSetKeeps
<1>4. PropsOK(list2)
  BY <1>1, <1>3 DEF ThingOK, ThingRecord, PropsOK
<1>5. OneOfItsKind(key)
  BY KeysAreOne
<1>6. /\ Len(list) \in Nat /\ DOMAIN list = 1 .. Len(list)
      /\ \A i \in 1 .. Len(list) : list[i] \in PropRecord /\ OneOfItsKind(list[i].key)
  BY <1>2, PropFacts
<1>7. /\ k # 0 => k \in 1 .. Len(list) /\ Eq2(list[k].key, key)
      /\ \A i \in 1 .. Len(list) : Eq2(list[i].key, key) => k = i
  BY <1>1, <1>2, <1>5, EntryIs
<1>8. \A i \in 1 .. Len(list) : Findable(key) /\ Named(list, i, Nullish(key)) => k = i
  <2> SUFFICES ASSUME NEW i \in 1 .. Len(list), Findable(key), Named(list, i, Nullish(key)) PROVE k = i
    OBVIOUS
  <2>1. PICK l : l = list[i].key
    OBVIOUS
  <2>2. OneOfItsKind(l) /\ Findable(l) /\ Nullish(l) = Nullish(key)
    BY <1>6, <2>1 DEF Named
  <2>3. Eq2(l, key)
    BY <1>5, <2>2, EqualKeys
  <2> QED
    BY <1>7, <2>1, <2>3
<1>9. CASE k # 0
  <2>1. PICK l : l = list[k].key
    OBVIOUS
  <2>2. k \in 1 .. Len(list) /\ OneOfItsKind(l) /\ Eq2(l, key) /\ list[k] \in PropRecord
    BY <1>6, <1>7, <1>9, <2>1
  <2>3. Findable(key) /\ Findable(l) /\ Nullish(l) = Nullish(key)
    BY <1>5, <2>2, EqualKeys
  <2>4. PICK r : r = [list[k] EXCEPT !.type = "value", !.value = value]
    OBVIOUS
  <2>5. r.key = l /\ r.type = "value" /\ r.value = value /\ r \in PropRecord
    BY <2>1, <2>2, <2>4 DEF PropRecord
  <2>6. t2 = [t EXCEPT !.props[k].type = "value", !.props[k].value = value]
    BY <1>1, <1>9 DEF PropertiesSet
  <2>7. [t EXCEPT !.props[k].type = "value", !.props[k].value = value]
          = [t EXCEPT !.props = [t.props EXCEPT ![k] = [t.props[k] EXCEPT !.type = "value", !.value = value]]]
    <3>1. t \in ThingRecord /\ t.props \in Seq(PropRecord) /\ k \in 1 .. Len(t.props) /\ t.props[k] \in PropRecord
      BY <1>1, <1>2, <2>2 DEF PropsOK
    <3> QED
      BY <3>1 DEF ThingRecord, PropRecord
  <2>8. t2 = [t EXCEPT !.props = [list EXCEPT ![k] = r]]
    BY <1>1, <2>4, <2>6, <2>7, Zenon
  <2>9. PICK put : put = [list EXCEPT ![k] = r]
    OBVIOUS
  <2>10. list2 = put /\ t2.proto = t.proto /\ t2.prototype = t.prototype
    <3>1. t2 = [t EXCEPT !.props = put]
      BY <2>8, <2>9
    <3> QED
      BY <1>1, <1>2, <3>1 DEF ThingRecord
  <2>11. Len(list2) = Len(list) /\ \A j \in 1 .. Len(list) : list2[j] = IF j = k THEN r ELSE list[j]
    <3>1. list \in Seq(PropRecord)
      BY <1>2 DEF PropsOK
    <3> QED
      BY <2>2, <2>5, <2>9, <2>10, <3>1, ExceptSeq
  <2>12. \E i \in 1 .. Len(list2) : Named(list2, i, Nullish(key)) /\ list2[i].type = "value" /\ list2[i].value = value
    BY <2>2, <2>3, <2>5, <2>11 DEF Named
  <2>13. \A i \in 1 .. Len(list2) : ~Named(list2, i, Nullish(key)) => \E j \in 1 .. Len(list) : list[j] = list2[i]
    <3> TAKE i \in 1 .. Len(list2)
    <3>1. i = k => Named(list2, i, Nullish(key))
      BY <2>2, <2>3, <2>5, <2>11 DEF Named
    <3> QED
      BY <2>11, <3>1
  <2>14. \A j \in 1 .. Len(list) : ~Named(list, j, Nullish(key)) => \E i \in 1 .. Len(list2) : list2[i] = list[j]
    <3> TAKE j \in 1 .. Len(list)
    <3>1. j = k => Named(list, j, Nullish(key))
      BY <2>1, <2>3 DEF Named
    <3> QED
      BY <2>11, <3>1
  <2>15. Own(list2) = PutIn(Own(list), key, value)
    BY <1>2, <1>4, <2>12, <2>13, <2>14, OwnPut
  <2> QED
    BY <1>1, <2>3, <2>10, <2>15
<1>10. CASE k = 0
  <2>1. PICK r : r = [key |-> key, type |-> "value", value |-> value]
    OBVIOUS
  <2>2. r.key = key /\ r.type = "value" /\ r.value = value /\ r \in PropRecord
    BY <2>1 DEF PropRecord
  <2>3. t2 = [t EXCEPT !.props = Append(list, r)]
    BY <1>1, <1>10, <2>1 DEF PropertiesSet
  <2>4. PICK put : put = Append(list, r)
    OBVIOUS
  <2>5. list2 = put /\ t2.proto = t.proto /\ t2.prototype = t.prototype
    <3>1. t2 = [t EXCEPT !.props = put]
      BY <2>3, <2>4
    <3> QED
      BY <1>1, <1>2, <3>1 DEF ThingRecord
  <2>6. /\ Len(list2) = Len(list) + 1
        /\ \A j \in 1 .. Len(list) : list2[j] = list[j]
        /\ list2[Len(list) + 1] = r
    <3>1. list \in Seq(PropRecord)
      BY <1>2 DEF PropsOK
    <3> QED
      BY <2>2, <2>4, <2>5, <3>1, AppendProperties
  <2>7. CASE ~Findable(key)
    <3>1. ~Findable(list2[Len(list2)].key)
      BY <2>2, <2>6, <2>7
    <3>2. Own(list2) = Own(list)
      BY <1>2, <1>4, <2>6, <3>1, OwnUntouched
    <3> QED
      BY <1>1, <2>5, <2>7, <3>2
  <2>8. CASE Findable(key)
    <3>1. \A j \in 1 .. Len(list) : j \in 1 .. Len(list2) /\ list2[j] = list[j]
      BY <1>6, <2>6
    <3>2. Len(list) + 1 \in 1 .. Len(list2) /\ \A i \in 1 .. Len(list2) : i \in 1 .. Len(list) \/ i = Len(list) + 1
      BY <1>6, <2>6
    <3>3. Named(list2, Len(list) + 1, Nullish(key))
      BY <2>2, <2>6, <2>8 DEF Named
    <3>4. \E i \in 1 .. Len(list2) : Named(list2, i, Nullish(key)) /\ list2[i].type = "value" /\ list2[i].value = value
      BY <2>2, <2>6, <3>2, <3>3
    <3>5. \A i \in 1 .. Len(list2) : ~Named(list2, i, Nullish(key)) => \E j \in 1 .. Len(list) : list[j] = list2[i]
      BY <2>6, <3>2, <3>3
    <3>6. \A j \in 1 .. Len(list) : ~Named(list, j, Nullish(key)) => \E i \in 1 .. Len(list2) : list2[i] = list[j]
      BY <3>1
    <3>7. Own(list2) = PutIn(Own(list), key, value)
      BY <1>2, <1>4, <3>4, <3>5, <3>6, OwnPut
    <3> QED
      BY <1>1, <2>5, <2>8, <3>7
  <2> QED
    BY <2>7, <2>8
<1> QED
  BY <1>9, <1>10

(***************************************************************************)
(* The objects that things stand for, and who answers for a key.           *)
(***************************************************************************)
RowOf(t) == [own |-> Own(t.props), proto |-> t.proto, prototype |-> t.prototype]
ObjectsOf(ts) == [u \in DOMAIN ts |-> RowOf(ts[u])]
ThingIn(os, v) == v.type \in {"object", "function"} /\ v.is \in DOMAIN os
AnswersIn(os, o, k) == k \in {Proto, Prototype} \/ (Findable(k) /\ Nullish(k) \in DOMAIN os[o].own)
HolderIn(os, o, k) ==
  LET search[n \in 0 .. Len(os)] ==
        [v \in Values |->
           IF n = 0 \/ ~ThingIn(os, v) THEN 0
           ELSE IF AnswersIn(os, v.is, k) THEN v.is
           ELSE search[n - 1][os[v.is].proto]]
  IN  search[Len(os)][o]

LEMMA RowFacts ==
  ASSUME NEW t
  PROVE  RowOf(t).own = Own(t.props) /\ RowOf(t).proto = t.proto /\ RowOf(t).prototype = t.prototype
<1>1. PICK o : o = Own(t.props)
  OBVIOUS
<1>2. RowOf(t) = [own |-> o, proto |-> t.proto, prototype |-> t.prototype]
  BY <1>1 DEF RowOf
<1> QED
  BY <1>1, <1>2

LEMMA ObjectsFacts ==
  ASSUME NEW ts, NEW m, ThingsOK(ts, m)
  PROVE  /\ Len(ts) \in Nat /\ DOMAIN ts = 1 .. Len(ts)
         /\ DOMAIN ObjectsOf(ts) = 1 .. Len(ts) /\ Len(ObjectsOf(ts)) = Len(ts)
         /\ \E S : ObjectsOf(ts) \in Seq(S)
         /\ \A u \in 1 .. Len(ts) : ObjectsOf(ts)[u] = RowOf(ts[u])
         /\ \A u \in 1 .. Len(ts) :
              /\ PropsOK(ts[u].props)
              /\ ts[u].proto \in Values /\ ts[u].prototype \in Values
<1>1. ts \in Seq(ThingRecord) /\ Len(ts) \in Nat /\ DOMAIN ts = 1 .. Len(ts)
  BY LenProperties DEF ThingsOK
<1>2. PICK os, n : os = ObjectsOf(ts) /\ n = Len(ts)
  OBVIOUS
<1>3. os = [u \in 1 .. n |-> RowOf(ts[u])]
  BY <1>1, <1>2 DEF ObjectsOf
<1> DEFINE S == {RowOf(ts[u]) : u \in 1 .. n}
<1>4. os \in [1 .. n -> S]
  BY <1>3
<1>5. os \in Seq(S)
  <2> HIDE DEF S
  <2> QED
    BY <1>1, <1>2, <1>4, SeqDef
<1>6. DOMAIN os = 1 .. n /\ Len(os) = n
  <2>1. DOMAIN os = 1 .. n
    BY <1>3
  <2>2. Len(os) \in Nat /\ DOMAIN os = 1 .. Len(os)
    BY <1>5, LenProperties
  <2> HIDE DEF S
  <2> QED
    BY <1>1, <1>2, <1>5, <2>1, <2>2
<1>7. ASSUME NEW u \in 1 .. Len(ts)
      PROVE  PropsOK(ts[u].props) /\ ts[u].proto \in Values /\ ts[u].prototype \in Values
  BY <1>7 DEF ThingsOK, ThingOK, ThingRecord, PropsOK
<1> HIDE DEF S
<1> QED
  BY <1>1, <1>2, <1>3, <1>5, <1>6, <1>7

LEMMA AnswersHas ==
  ASSUME NEW ts, NEW m, ThingsOK(ts, m), NEW u \in 1 .. Len(ts), NEW key \in AnyKey
  PROVE  AnswersIn(ObjectsOf(ts), u, key) <=> Has(ts[u], key)
<1>1. PropsOK(ts[u].props) /\ ObjectsOf(ts)[u].own = Own(ts[u].props)
  BY ObjectsFacts, RowFacts
<1>2. OneOfItsKind(key)
  BY KeysAreOne
<1>3. Findable(key) /\ Nullish(key) \in DOMAIN Own(ts[u].props) <=> EntryOf(ts[u].props, key) # 0
  BY <1>1, <1>2, OwnAnswers
<1> QED
  BY <1>1, <1>3 DEF AnswersIn, Has

(* A thing answers for what it has, or its prototype does.                 *)
LEMMA HolderStep ==
  ASSUME NEW ts, NEW m, ThingsOK(ts, m), NEW key \in AnyKey, NEW v \in Values
  PROVE  HolderIn(ObjectsOf(ts), v, key) =
           IF ~(IsThing(v) /\ v.is \in 1 .. Len(ts)) THEN 0
           ELSE IF Has(ts[v.is], key) THEN v.is
           ELSE HolderIn(ObjectsOf(ts), ts[v.is].proto, key)
<1>1. PICK os : os = ObjectsOf(ts)
  OBVIOUS
<1> DEFINE N == Len(os)
           T == {w \in Values : ThingIn(os, w)}
           A == {w \in Values : AnswersIn(os, w.is, key)}
           id == [w \in Values |-> w.is]
           next == [w \in Values |-> os[w.is].proto]
           Eq(g) == g = [n \in 0 .. N |->
                      [w \in Values |-> IF n = 0 \/ ~ThingIn(os, w) THEN 0
                                        ELSE IF AnswersIn(os, w.is, key) THEN w.is
                                        ELSE g[n - 1][os[w.is].proto]]]
<1>2. N = Len(ts) /\ N \in Nat /\ DOMAIN os = 1 .. N
  BY <1>1, ObjectsFacts
<1>3. \A u \in 1 .. N : os[u].proto = ts[u].proto /\ ts[u].proto \in Values
  BY <1>1, <1>2, ObjectsFacts, RowFacts
<1>4. IsChain(N, Values, T, A, id, next)
  <2>1. \A w \in T : id[w] \in 1 .. N /\ next[w] \in Values
    BY <1>2, <1>3 DEF ThingIn
  <2>2. \A w, x \in T : id[w] = id[x] => (w \in A <=> x \in A) /\ next[w] = next[x]
    OBVIOUS
  <2>3. T \subseteq Values
    OBVIOUS
  <2> HIDE DEF N, T, A, id, next
  <2> QED
    BY <1>2, <2>1, <2>2, <2>3 DEF IsChain
<1>5. \A g : IsSearch(g, N, Values, T, A, id, next) <=> Eq(g)
  <2> TAKE g
  <2>1. \A n \in 0 .. N : \A w \in Values :
          (IF n = 0 \/ w \notin T THEN 0 ELSE IF w \in A THEN id[w] ELSE g[n - 1][next[w]])
          = (IF n = 0 \/ ~ThingIn(os, w) THEN 0 ELSE IF AnswersIn(os, w.is, key) THEN w.is
             ELSE g[n - 1][os[w.is].proto])
    OBVIOUS
  <2>2. \A n \in 0 .. N : Row(g, n, Values, T, A, id, next)
          = [w \in Values |-> IF n = 0 \/ ~ThingIn(os, w) THEN 0
                              ELSE IF AnswersIn(os, w.is, key) THEN w.is
                              ELSE g[n - 1][os[w.is].proto]]
    <3> HIDE DEF N, T, A, id, next
    <3> QED
      BY <2>1 DEF Row
  <2> HIDE DEF N, T, A, id, next
  <2> QED
    BY <2>2 DEF IsSearch
<1> DEFINE f == CHOOSE g : Eq(g)
<1>6. Eq(f)
  <2>1. \E g : Eq(g)
    <3> HIDE DEF Eq, N, T, A, id, next
    <3>1. \E g : IsSearch(g, N, Values, T, A, id, next)
      BY <1>4, SearchThereIs
    <3> QED
      BY <1>5, <3>1
  <2> HIDE DEF Eq
  <2> QED
    BY <2>1
<1>7. \A w : HolderIn(os, w, key) = f[N][w]
  BY Zenon DEF HolderIn
<1> HIDE DEF f
<1>8. IsSearch(f, N, Values, T, A, id, next)
  <2> HIDE DEF Eq, N, T, A, id, next
  <2> QED
    BY <1>5, <1>6
<1>9. f[N][v] = IF v \notin T THEN 0 ELSE IF v \in A THEN id[v] ELSE f[N][next[v]]
  <2> HIDE DEF Eq, N, T, A, id, next
  <2> QED
    BY <1>4, <1>8, StepsSuffice
<1>10. HolderIn(os, v, key) = IF ~ThingIn(os, v) THEN 0 ELSE IF AnswersIn(os, v.is, key) THEN v.is
                              ELSE HolderIn(os, os[v.is].proto, key)
  <2>1. f[N][v] = IF ~ThingIn(os, v) THEN 0 ELSE IF AnswersIn(os, v.is, key) THEN v.is ELSE f[N][os[v.is].proto]
    <3>1. (v \in T <=> ThingIn(os, v)) /\ (v \in A <=> AnswersIn(os, v.is, key)) /\ id[v] = v.is /\ next[v] = os[v.is].proto
      OBVIOUS
    <3> HIDE DEF N, T, A, id, next
    <3> QED
      BY <1>9, <3>1
  <2> HIDE DEF N
  <2> QED
    BY <1>7, <2>1
<1>11. ThingIn(os, v) <=> IsThing(v) /\ v.is \in 1 .. Len(ts)
  BY <1>2 DEF ThingIn, IsThing
<1>12. CASE ~ThingIn(os, v)
  BY <1>1, <1>10, <1>11, <1>12
<1>13. CASE ThingIn(os, v)
  <2>1. v.is \in 1 .. Len(ts)
    BY <1>11, <1>13
  <2>2. PICK u \in 1 .. Len(ts) : u = v.is
    BY <2>1
  <2>3. AnswersIn(os, u, key) <=> Has(ts[u], key)
    BY <1>1, AnswersHas
  <2>4. os[u].proto = ts[u].proto
    BY <1>2, <1>3
  <2> HIDE DEF N
  <2> QED
    BY <1>1, <1>10, <1>11, <1>13, <2>2, <2>3, <2>4
<1> QED
  BY <1>12, <1>13

(***************************************************************************)
(* The machine as it looks through its objects.                            *)
(***************************************************************************)
Objs == ObjectsOf(things)
EntryIn(os, o, k) ==
  IF k = Proto THEN [type |-> "value", value |-> os[o].proto]
  ELSE IF k = Prototype THEN [type |-> "value", value |-> os[o].prototype]
  ELSE os[o].own[Nullish(k)]
SetIn(os, o, k, v) ==
  CASE k = Proto -> [os EXCEPT ![o].proto = v]
    [] k = Prototype -> [os EXCEPT ![o].prototype = v]
    [] Findable(k) /\ k \notin {Proto, Prototype} -> [os EXCEPT ![o].own = PutIn(@, k, v)]
    [] OTHER -> os

LEMMA MappingHolder ==
  ASSUME NEW o, NEW k
  PROVE  Mapping!Holder(o, k) = HolderIn(Objs, o, k) /\ (Mapping!IsThing(o) <=> ThingIn(Objs, o))
BY DEF Mapping!Holder, Mapping!IsThing, Mapping!Answers, HolderIn, ThingIn, AnswersIn, Objs, ObjectsOf, RowOf

LEMMA MappingEntry ==
  ASSUME NEW o, NEW k
  PROVE  Mapping!Entry(o, k) = EntryIn(Objs, o, k)
BY DEF Mapping!Entry, EntryIn, Objs, ObjectsOf, RowOf

LEMMA MappingGet ==
  ASSUME status = "running", got'.op = "get",
         ThingIn(Objs, got'.of), HolderIn(Objs, got'.of, got'.key) # 0,
         NEW e, e = EntryIn(Objs, HolderIn(Objs, got'.of, got'.key), got'.key),
         got'.value = e.value, e.type = "getter" => got'.receiver = got'.of,
         UNCHANGED <<program, Objs, status>>
  PROVE  Mapping!ObjectsNext
<1>1. Mapping!Get(got'.of, got'.key)
  <2>1. PICK o, k : o = got'.of /\ k = got'.key
    OBVIOUS
  <2>2. Mapping!IsThing(o) /\ Mapping!Holder(o, k) # 0 /\ Mapping!Entry(Mapping!Holder(o, k), k) = e
    BY <2>1, MappingHolder, MappingEntry
  <2>3. Mapping!Get(o, k)
    BY <2>1, <2>2 DEF Mapping!Get, Objs, ObjectsOf, RowOf
  <2> QED
    BY <2>1, <2>3
<1> QED
  BY <1>1 DEF Mapping!ObjectsNext

LEMMA MappingMissing ==
  ASSUME status = "running", NEW o \in Values, NEW k \in program.keys,
         ThingIn(Objs, o) => HolderIn(Objs, o, k) = 0,
         status' = "no property", UNCHANGED <<program, Objs>>
  PROVE  Mapping!ObjectsNext
<1>1. Mapping!Missing(o, k)
  BY MappingHolder DEF Mapping!Missing, Objs, ObjectsOf, RowOf
<1> QED
  BY <1>1 DEF Mapping!ObjectsNext

LEMMA MappingAssigned ==
  ASSUME NEW o, NEW k, NEW v
  PROVE  Mapping!Assigned(o, k, v) = SetIn(Objs, o, k, v)
BY DEF Mapping!Assigned, Mapping!Put, SetIn, PutIn, Objs, ObjectsOf, RowOf

LEMMA MappingSet ==
  ASSUME status = "running", got'.op = "set", ThingIn(Objs, got'.of), got'.value \in Values,
         Objs' = SetIn(Objs, got'.of.is, got'.key, got'.value), UNCHANGED <<program, status>>
  PROVE  Mapping!ObjectsNext
<1>1. Mapping!Set(got'.of, got'.key)
  BY MappingHolder, MappingAssigned DEF Mapping!Set, Objs, ObjectsOf, RowOf
<1> QED
  BY <1>1 DEF Mapping!ObjectsNext

LEMMA MappingBorn ==
  ASSUME status = "running", got'.op \in {"object", "function", "new"},
         Len(Objs') > Len(Objs), SubSeq(Objs', 1, Len(Objs)) = Objs,
         \A o \in Len(Objs) + 1 .. Len(Objs') : Objs'[o].own = <<>>,
         got'.op = "new" => Objs'[got'.value.is].proto = Objs[got'.of.is].prototype,
         UNCHANGED <<program, status>>
  PROVE  Mapping!ObjectsNext
<1>1. Mapping!Born
  BY DEF Mapping!Born, Objs, ObjectsOf, RowOf
<1> QED
  BY <1>1 DEF Mapping!ObjectsNext

LEMMA MappingUnborn ==
  ASSUME status = "running", got'.op = "object", got'.value.type = "undefined", UNCHANGED <<program, Objs, status>>
  PROVE  Mapping!ObjectsNext
<1>1. Mapping!Unborn
  BY DEF Mapping!Unborn, Objs, ObjectsOf, RowOf
<1> QED
  BY <1>1 DEF Mapping!ObjectsNext

LEMMA MappingElse ==
  ASSUME status = "running",
         \/ status' \notin {"running", "no property"}
         \/ status' = "running" /\ got'.op \notin {"get", "set", "object", "function", "new"},
         UNCHANGED <<program, Objs>>
  PROVE  Mapping!ObjectsNext
<1>1. Mapping!Else
  BY DEF Mapping!Else, Objs, ObjectsOf, RowOf
<1> QED
  BY <1>1 DEF Mapping!ObjectsNext

LEMMA MappingStutter ==
  ASSUME UNCHANGED <<program, Objs, got, status>>
  PROVE  UNCHANGED Mapping!vars
BY DEF Mapping!vars, Objs, ObjectsOf, RowOf

(***************************************************************************)
(* One instruction after the other, as the objects see it.                 *)
(***************************************************************************)

(* A search that has gone some way finds what one from its begin would.    *)
Onward ==
  looking.on =>
    /\ looking.key \in program.keys
    /\ HolderIn(Objs, looking.obj, looking.key) = HolderIn(Objs, looking.cur, looking.key)
ObjectInv == NamesInv /\ Onward
Objectively == Onward' /\ (Mapping!ObjectsNext \/ UNCHANGED Mapping!vars)

LEMMA ObjsFacts ==
  ASSUME NamesInv
  PROVE  /\ DOMAIN Objs = 1 .. Len(things) /\ Len(Objs) = Len(things) /\ Len(things) \in Nat
         /\ \E S : Objs \in Seq(S)
         /\ \A u \in 1 .. Len(things) : Objs[u] = RowOf(things[u]) /\ PropsOK(things[u].props)
         /\ \A v : ThingIn(Objs, v) <=> IsThing(v) /\ v.is \in 1 .. Len(things)
         /\ \A v \in Values, key \in AnyKey :
              HolderIn(Objs, v, key) =
                IF ~(IsThing(v) /\ v.is \in 1 .. Len(things)) THEN 0
                ELSE IF Has(things[v.is], key) THEN v.is
                ELSE HolderIn(Objs, things[v.is].proto, key)
<1>1. ThingsOK(things, Len(envs))
  BY DEF NamesInv
<1>2. DOMAIN Objs = 1 .. Len(things)
  BY <1>1, ObjectsFacts DEF Objs
<1> QED
  BY <1>1, <1>2, ObjectsFacts, HolderStep DEF Objs, ThingIn, IsThing

(* What neither makes a thing nor sets or gets a property.                 *)
Quiet ==
  /\ ~looking'.on /\ UNCHANGED <<program, things>>
  /\ \/ status' \in {"failed", "no variable", "corrupted"}
     \/ status' = "running" /\ got'.op \in {"declare", "load", "store", "argument", "call", "return"}

LEMMA QuietMoves ==
  ASSUME status = "running", Quiet
  PROVE  Objectively
<1>1. UNCHANGED <<program, Objs>>
  BY DEF Quiet, Objs
<1>2. Mapping!ObjectsNext
  BY <1>1, MappingElse DEF Quiet
<1> QED
  BY <1>2 DEF Objectively, Onward, Quiet

LEMMA ToldWhat ==
  ASSUME NEW op, \E name, of, key, value, receiver : got' = Told(op, name, of, key, value, receiver)
  PROVE  got'.op = op
<1>1. PICK name, of, key, value, receiver : got' = Told(op, name, of, key, value, receiver)
  OBVIOUS
<1> QED
  BY <1>1 DEF Told

LEMMA VariablesQuiet ==
  ASSUME NEW name, NEW idx, NEW value,
         OpDeclVar(name) \/ OpLoad(name) \/ OpStore(name, value) \/ OpArg(name, idx)
  PROVE  Quiet
<1>1. ASSUME ~looking'.on, UNCHANGED <<program, things, status>>, status = "running",
             NEW op \in {"declare", "load", "store", "argument", "call", "return"},
             \E n, of, key, v, receiver : got' = Told(op, n, of, key, v, receiver)
      PROVE  Quiet
  BY <1>1, ToldWhat DEF Quiet
<1>2. ASSUME ~looking'.on, UNCHANGED program, Stop("failed") \/ Stop("no variable")
      PROVE  Quiet
  BY <1>2 DEF Quiet, Stop
<1>3. CASE OpDeclVar(name)
  BY <1>1, <1>2, <1>3 DEF OpDeclVar, Instruction
<1>4. CASE OpLoad(name)
  BY <1>1, <1>2, <1>4 DEF OpLoad, Instruction
<1>5. CASE OpStore(name, value)
  BY <1>1, <1>2, <1>5 DEF OpStore, Instruction
<1>6. CASE OpArg(name, idx)
  <2>1. /\ ~looking'.on /\ UNCHANGED program /\ status = "running"
        /\ \/ Stop("failed") \/ Stop("no variable")
           \/ /\ UNCHANGED <<things, status>>
              /\ \E n, of, key, v, receiver : got' = Told("argument", n, of, key, v, receiver)
    BY <1>6 DEF OpArg, Instruction
  <2> QED
    BY <1>1, <1>2, <2>1
<1> QED
  BY <1>3, <1>4, <1>5, <1>6

LEMMA CallQuiet ==
  ASSUME NEW callee, NEW this, NEW args, OpCall(callee, this, args)
  PROVE  Quiet
<1>1. /\ ~looking'.on /\ UNCHANGED program /\ status = "running"
      /\ \/ Stop("failed")
         \/ /\ UNCHANGED <<things, status>>
            /\ \E n, of, key, v, receiver : got' = Told("call", n, of, key, v, receiver)
  BY DEF OpCall, Instruction
<1> QED
  BY <1>1, ToldWhat DEF Quiet, Stop

LEMMA RetQuiet ==
  ASSUME NEW value, OpRet(value)
  PROVE  Quiet
<1>1. /\ ~looking'.on /\ UNCHANGED <<program, things, status>> /\ status = "running"
      /\ \E n, of, key, v, receiver : got' = Told("return", n, of, key, v, receiver)
  BY DEF OpRet, Instruction
<1> QED
  BY <1>1, ToldWhat DEF Quiet

LEMMA FailsQuiet ==
  ASSUME LoadFunctionFails
  PROVE  Quiet
BY DEF LoadFunctionFails, Instruction, Quiet, Stop

(***************************************************************************)
(* What is born knows nothing.                                             *)
(***************************************************************************)
LEMMA NothingOwned == Own(<<>>) = <<>>
<1>1. PropsOK(<<>>)
  BY EmptySeq DEF PropsOK, UniqueProps
<1>2. IsOwn(<<>>, <<>>)
  BY DEF IsOwn
<1> QED
  BY <1>1, <1>2, OwnIs

LEMMA BornMoves ==
  ASSUME ObjectInv, NamesInv', status = "running", ~looking'.on, UNCHANGED <<program, status>>,
         got'.op \in {"object", "function", "new"}, Len(things') > Len(things),
         \A u \in 1 .. Len(things) : things'[u] = things[u],
         \A u \in Len(things) + 1 .. Len(things') : things'[u].props = <<>>,
         got'.op = "new" => /\ got'.value.is = Len(things) + 1 /\ got'.of.is \in 1 .. Len(things)
                            /\ things'[Len(things) + 1].proto = things[got'.of.is].prototype
  PROVE  Objectively
<1>1. PICK n, n2 : n = Len(things) /\ n2 = Len(things')
  OBVIOUS
<1>2. PICK os, os2 : os = Objs /\ os2 = Objs'
  OBVIOUS
<1>3. /\ DOMAIN os = 1 .. n /\ Len(os) = n /\ n \in Nat /\ \E S : os \in Seq(S)
      /\ \A u \in 1 .. n : os[u] = RowOf(things[u])
  BY <1>1, <1>2, ObjsFacts DEF ObjectInv
<1>4. /\ DOMAIN os2 = 1 .. n2 /\ Len(os2) = n2 /\ n2 \in Nat /\ \E S : os2 \in Seq(S)
      /\ \A u \in 1 .. n2 : os2[u] = RowOf(things'[u])
  <2>1. ThingsOK(things', Len(envs'))
    BY DEF NamesInv
  <2>2. os2 = ObjectsOf(things')
    BY <1>2 DEF Objs
  <2> QED
    BY <1>1, <2>1, <2>2, ObjectsFacts
<1>5. n2 > n /\ \A u \in 1 .. n : u \in 1 .. n2 /\ os2[u] = os[u]
  BY <1>1, <1>3, <1>4
<1>6. SubSeq(os2, 1, n) = os
  <2>1. PICK S : os2 \in Seq(S)
    BY <1>4
  <2>2. \A u \in 1 .. n : os2[u] \in S
    BY <1>4, <1>5, <2>1, ElementOfSeq
  <2>3. PICK q : q = SubSeq(os2, 1, n)
    OBVIOUS
  <2>4. q \in Seq(S) /\ Len(q) = n /\ \A i \in 1 .. n : q[i] = os2[i]
    BY <1>3, <2>1, <2>2, <2>3, SubSeqProperties
  <2>5. q = [i \in 1 .. n |-> q[i]]
    BY <2>4, LenProperties
  <2>6. PICK R : os \in Seq(R)
    BY <1>3
  <2>7. os = [i \in 1 .. n |-> os[i]]
    BY <1>3, <2>6, LenProperties
  <2>8. \A i \in 1 .. n : q[i] = os[i]
    BY <1>5, <2>4
  <2> QED
    BY <2>3, <2>5, <2>7, <2>8
<1>7. ASSUME NEW o \in n + 1 .. n2 PROVE os2[o].own = <<>>
  <2>1. o \in 1 .. n2 /\ things'[o].props = <<>>
    BY <1>1, <1>3, <1>4
  <2> QED
    BY <1>4, <2>1, RowFacts, NothingOwned
<1>8. got'.op = "new" => os2[got'.value.is].proto = os[got'.of.is].prototype
  <2> SUFFICES ASSUME got'.op = "new" PROVE os2[got'.value.is].proto = os[got'.of.is].prototype
    OBVIOUS
  <2>1. n + 1 \in 1 .. n2
    BY <1>3, <1>4, <1>5
  <2>2. os2[n + 1].proto = things'[n + 1].proto
    BY <1>4, <2>1, RowFacts
  <2>3. os[got'.of.is].prototype = things[got'.of.is].prototype
    BY <1>1, <1>3, RowFacts
  <2> QED
    BY <1>1, <2>2, <2>3
<1>9. Mapping!ObjectsNext
  BY <1>2, <1>3, <1>4, <1>5, <1>6, <1>7, <1>8, MappingBorn
<1> QED
  BY <1>9 DEF Objectively, Onward

LEMMA OneBorn ==
  ASSUME ObjectInv, NamesInv', status = "running", ~looking'.on, UNCHANGED <<program, status>>,
         NEW t \in ThingRecord, t.props = <<>>, things' = Append(things, t), got'.op \in {"object", "new"},
         got'.op = "new" => /\ got'.value.is = Len(things) + 1 /\ got'.of.is \in 1 .. Len(things)
                            /\ t.proto = things[got'.of.is].prototype
  PROVE  Objectively
<1>1. things \in Seq(ThingRecord) /\ Len(things) \in Nat
  BY Counts DEF ObjectInv, NamesInv, ThingsOK
<1>2. /\ Len(things') = Len(things) + 1
      /\ \A u \in 1 .. Len(things) : things'[u] = things[u]
      /\ things'[Len(things) + 1] = t
  BY <1>1, AppendProperties
<1>3. Len(things') > Len(things)
  BY <1>1, <1>2
<1>4. \A u \in Len(things) + 1 .. Len(things') : things'[u].props = <<>>
  <2>1. \A u \in Len(things) + 1 .. Len(things') : u = Len(things) + 1
    BY <1>1, <1>2
  <2> QED
    BY <1>2, <2>1
<1>5. got'.op \in {"object", "function", "new"}
  OBVIOUS
<1>6. got'.op = "new" => /\ got'.value.is = Len(things) + 1 /\ got'.of.is \in 1 .. Len(things)
                         /\ things'[Len(things) + 1].proto = things[got'.of.is].prototype
  BY <1>2
<1> QED
  BY <1>2, <1>3, <1>4, <1>5, <1>6, BornMoves

LEMMA LoadObjectMaps ==
  ASSUME ObjectInv, NamesInv', OpLoadObject
  PROVE  Objectively
<1>1. status = "running" /\ ~looking'.on /\ UNCHANGED <<program, status>> /\ NamesInv
  BY DEF OpLoadObject, Instruction, ObjectInv
<1>2. PICK t : t = NewThing("object", ObjectPrototype, Undefined, 0)
  OBVIOUS
<1>3. t \in ThingRecord /\ t.props = <<>>
  <2>1. ObjectPrototype \in Values /\ Undefined \in Values
    <3>1. Len(things) \in Nat /\ Len(things) > 2
      BY <1>1, Counts, Parts
    <3> QED
      BY <3>1, PrototypesFacts, UndefinedIsValue
  <2> QED
    BY <1>2, <2>1, EmptySeq DEF NewThing, ThingRecord
<1>4. \/ /\ things' = Append(things, t)
         /\ \E name, of, key, value, receiver : got' = Told("object", name, of, key, value, receiver)
      \/ things' = things /\ got' = Told("object", "", Undefined, Undefined, Undefined, Undefined)
  BY <1>2 DEF OpLoadObject
<1>5. CASE /\ things' = Append(things, t)
           /\ \E name, of, key, value, receiver : got' = Told("object", name, of, key, value, receiver)
  <2>1. got'.op = "object"
    BY <1>5, ToldWhat
  <2>2. got'.op \in {"object", "new"} /\ got'.op # "new"
    BY <2>1
  <2> QED
    BY <1>1, <1>3, <1>5, <2>2, OneBorn
<1>6. CASE things' = things /\ got' = Told("object", "", Undefined, Undefined, Undefined, Undefined)
  <2>1. got'.op = "object" /\ got'.value.type = "undefined"
    BY <1>6 DEF Told, Undefined
  <2>2. UNCHANGED Objs
    BY <1>6 DEF Objs
  <2>3. Mapping!ObjectsNext
    BY <1>1, <2>1, <2>2, MappingUnborn
  <2> QED
    BY <1>1, <2>3 DEF Objectively, Onward
<1> QED
  BY <1>4, <1>5, <1>6

LEMMA LoadFunctionMaps ==
  ASSUME ObjectInv, NamesInv', OpLoadFunction
  PROVE  Objectively
<1>1. status = "running" /\ ~looking'.on /\ UNCHANGED <<program, status>> /\ NamesInv /\ Len(things) \in Nat
  BY Counts DEF OpLoadFunction, Instruction, ObjectInv
<1>2. got'.op = "function"
  <2>1. \E name, of, key, value, receiver : got' = Told("function", name, of, key, value, receiver)
    BY DEF OpLoadFunction
  <2> QED
    BY <2>1, ToldWhat
<1>3. PICK f, o \in ThingRecord :
        /\ f.props = <<>> /\ o.props = <<>>
        /\ Len(things') \in {Len(things) + 1, Len(things) + 2}
        /\ \A u \in 1 .. Len(things) : things'[u] = things[u]
        /\ things'[Len(things) + 1] = f
        /\ Len(things') = Len(things) + 2 => things'[Len(things) + 2] = o
  BY <1>1, FunctionMade
<1>4. Len(things') > Len(things)
  BY <1>1, <1>3
<1>5. \A u \in Len(things) + 1 .. Len(things') : things'[u].props = <<>>
  <2> TAKE u \in Len(things) + 1 .. Len(things')
  <2>1. u = Len(things) + 1 \/ (u = Len(things) + 2 /\ Len(things') = Len(things) + 2)
    BY <1>1, <1>3
  <2> QED
    BY <1>3, <2>1
<1>6. got'.op \in {"object", "function", "new"} /\ got'.op # "new"
  BY <1>2
<1> QED
  BY <1>1, <1>3, <1>4, <1>5, <1>6, BornMoves

LEMMA NewMaps ==
  ASSUME ObjectInv, NamesInv', NEW callee \in AtHand, NEW args, OpNew(callee, args)
  PROVE  Objectively
<1>1. status = "running" /\ ~looking'.on /\ UNCHANGED program /\ NamesInv
  BY DEF OpNew, Instruction, ObjectInv
<1>2. CASE Stop("failed") \/ Stop("corrupted")
  BY <1>1, <1>2, QuietMoves DEF Quiet, Stop
<1>3. CASE ~Stop("failed") /\ ~Stop("corrupted")
  <2>1. PICK this : this = [type |-> "object", is |-> Len(things) + 1]
    OBVIOUS
  <2>2. PICK t : t = NewThing("object", things[callee.is].prototype, Undefined, 0)
    OBVIOUS
  <2>3. /\ IsFunction(callee) /\ things' = Append(things, t) /\ UNCHANGED status
        /\ got' = Told("new", "", callee, Undefined, this, Undefined)
    BY <1>3, <2>1, <2>2 DEF OpNew
  <2>4. callee.is \in 1 .. Len(things)
    BY <1>1, <2>3, AtHandFacts
  <2>5. t \in ThingRecord /\ t.props = <<>> /\ t.proto = things[callee.is].prototype
    <3>1. things[callee.is].prototype \in Values
      BY <1>1, <2>4, ThingFacts
    <3> QED
      BY <2>2, <3>1, UndefinedIsValue, EmptySeq DEF NewThing, ThingRecord
  <2>6. got'.op = "new" /\ got'.value.is = Len(things) + 1 /\ got'.of = callee
    BY <2>1, <2>3 DEF Told
  <2>7. got'.op \in {"object", "new"}
    BY <2>6
  <2> QED
    BY <1>1, <2>3, <2>4, <2>5, <2>6, <2>7, OneBorn
<1> QED
  BY <1>2, <1>3

(***************************************************************************)
(* What is set.                                                            *)
(***************************************************************************)
LEMMA SetObjects ==
  ASSUME NEW ts, NEW m \in Nat, ThingsOK(ts, m), NEW u \in 1 .. Len(ts),
         NEW key \in AnyKey, NEW value \in Values, Within(value, Len(ts))
  PROVE  ObjectsOf([ts EXCEPT ![u] = PropertiesSet(ts[u], key, value)]) = SetIn(ObjectsOf(ts), u, key, value)
<1>1. PICK os, t, t2 : os = ObjectsOf(ts) /\ t = ts[u] /\ t2 = PropertiesSet(t, key, value)
  OBVIOUS
<1>2. /\ Len(ts) \in Nat /\ DOMAIN ts = 1 .. Len(ts)
      /\ \A i \in 1 .. Len(ts) : os[i] = RowOf(ts[i])
  BY <1>1, ObjectsFacts
<1>3. os = [i \in 1 .. Len(ts) |-> RowOf(ts[i])]
  BY <1>1, <1>2 DEF ObjectsOf
<1>4. ThingOK(t, Len(ts), m) /\ t \in ThingRecord
  BY <1>1 DEF ThingsOK, ThingOK
<1>5. PICK ts2 : ts2 = [ts EXCEPT ![u] = t2]
  OBVIOUS
<1>6. DOMAIN ts2 = 1 .. Len(ts) /\ \A i \in 1 .. Len(ts) : ts2[i] = IF i = u THEN t2 ELSE ts[i]
  BY <1>2, <1>5
<1>7. ObjectsOf(ts2) = [i \in 1 .. Len(ts) |-> IF i = u THEN RowOf(t2) ELSE os[i]]
  <2>1. \A i \in 1 .. Len(ts) : RowOf(ts2[i]) = IF i = u THEN RowOf(t2) ELSE os[i]
    BY <1>2, <1>6
  <2> QED
    BY <1>6, <2>1 DEF ObjectsOf
<1>8. ObjectsOf(ts2) = [os EXCEPT ![u] = RowOf(t2)]
  BY <1>3, <1>7
<1>9. PICK o, row : o = Own(t.props) /\ row = os[u]
  OBVIOUS
<1>10. row = [own |-> o, proto |-> t.proto, prototype |-> t.prototype]
  BY <1>1, <1>2, <1>9 DEF RowOf
<1>11. CASE key = Proto
  <2>1. t2 = [t EXCEPT !.proto = value]
    BY <1>1, <1>11 DEF PropertiesSet, Proto, Prototype, Str
  <2>2. t2.props = t.props /\ t2.proto = value /\ t2.prototype = t.prototype
    BY <1>4, <2>1 DEF ThingRecord
  <2>3. RowOf(t2) = [own |-> o, proto |-> value, prototype |-> t.prototype]
    BY <1>9, <2>2 DEF RowOf
  <2>4. RowOf(t2) = [row EXCEPT !.proto = value]
    BY <1>10, <2>3
  <2>5. [os EXCEPT ![u].proto = value] = [os EXCEPT ![u] = RowOf(t2)]
    BY <1>9, <2>4
  <2>6. key # Prototype
    BY <1>11 DEF Proto, Prototype, Str
  <2> QED
    BY <1>1, <1>5, <1>8, <1>11, <2>5, <2>6 DEF SetIn
<1>12. CASE key = Prototype /\ key # Proto
  <2>1. t2 = [t EXCEPT !.prototype = value]
    BY <1>1, <1>12 DEF PropertiesSet
  <2>2. t2.props = t.props /\ t2.proto = t.proto /\ t2.prototype = value
    BY <1>4, <2>1 DEF ThingRecord
  <2>3. RowOf(t2) = [own |-> o, proto |-> t.proto, prototype |-> value]
    BY <1>9, <2>2 DEF RowOf
  <2>4. RowOf(t2) = [row EXCEPT !.prototype = value]
    BY <1>10, <2>3
  <2>5. [os EXCEPT ![u].prototype = value] = [os EXCEPT ![u] = RowOf(t2)]
    BY <1>9, <2>4
  <2> QED
    BY <1>1, <1>5, <1>8, <1>12, <2>5 DEF SetIn
<1>13. CASE key \notin {Proto, Prototype}
  <2>1. /\ t2.proto = t.proto /\ t2.prototype = t.prototype
        /\ Own(t2.props) = IF Findable(key) THEN PutIn(o, key, value) ELSE o
    BY <1>1, <1>2, <1>4, <1>9, <1>13, OwnSet
  <2>2. CASE Findable(key)
    <3>1. PICK p : p = PutIn(o, key, value)
      OBVIOUS
    <3>2. RowOf(t2) = [own |-> p, proto |-> t.proto, prototype |-> t.prototype]
      BY <2>1, <2>2, <3>1 DEF RowOf
    <3>3. RowOf(t2) = [row EXCEPT !.own = p]
      BY <1>10, <3>2
    <3>4. p = PutIn(row.own, key, value)
      BY <1>10, <3>1
    <3>5. [os EXCEPT ![u].own = PutIn(@, key, value)] = [os EXCEPT ![u] = RowOf(t2)]
      BY <1>9, <3>3, <3>4
    <3> QED
      BY <1>1, <1>5, <1>8, <1>13, <2>2, <3>5 DEF SetIn
  <2>3. CASE ~Findable(key)
    <3>1. RowOf(t2) = row
      BY <1>10, <2>1, <2>3 DEF RowOf
    <3>2. [os EXCEPT ![u] = RowOf(t2)] = os
      BY <1>3, <1>9, <3>1
    <3> QED
      BY <1>1, <1>5, <1>8, <1>13, <2>3, <3>2 DEF SetIn
  <2> QED
    BY <2>2, <2>3
<1> QED
  BY <1>11, <1>12, <1>13

LEMMA ObjSetMaps ==
  ASSUME ObjectInv, NEW obj \in AtHand, NEW key \in program.keys, NEW value \in AtHand \cup Literals,
         OpObjSet(obj, key, value)
  PROVE  Objectively
<1>1. status = "running" /\ ~looking'.on /\ UNCHANGED program /\ NamesInv
  BY DEF OpObjSet, Instruction, ObjectInv
<1>2. CASE Stop("failed")
  BY <1>1, <1>2, QuietMoves DEF Quiet, Stop
<1>3. CASE ~Stop("failed")
  <2>1. /\ IsThing(obj) /\ things' = [things EXCEPT ![obj.is] = PropertiesSet(things[obj.is], key, value)]
        /\ got' = Told("set", "", obj, key, value, Undefined) /\ UNCHANGED status
    BY <1>3 DEF OpObjSet
  <2>2. obj.is \in 1 .. Len(things)
    BY <1>1, <2>1, AtHandFacts DEF Within
  <2>3. key \in AnyKey /\ value \in Values /\ Within(value, Len(things))
    BY <1>1, KeyFacts, AtHandFacts, LiteralFacts
  <2>4. Len(envs) \in Nat /\ ThingsOK(things, Len(envs))
    BY <1>1, Counts DEF NamesInv
  <2>5. ObjectsOf(things') = SetIn(ObjectsOf(things), obj.is, key, value)
    BY <2>1, <2>2, <2>3, <2>4, SetObjects
  <2>6. got'.op = "set" /\ got'.of = obj /\ got'.key = key /\ got'.value = value
    BY <2>1 DEF Told
  <2>7. ThingIn(Objs, obj)
    BY <1>1, <2>1, <2>2, ObjsFacts
  <2>8. Objs' = SetIn(Objs, got'.of.is, got'.key, got'.value)
    BY <2>5, <2>6 DEF Objs
  <2>9. Mapping!ObjectsNext
    BY <1>1, <2>1, <2>3, <2>6, <2>7, <2>8, MappingSet
  <2> QED
    BY <1>1, <2>9 DEF Objectively, Onward
<1> QED
  BY <1>2, <1>3

LEMMA ObjGetMaps ==
  ASSUME ObjectInv, NEW obj, NEW key \in program.keys, OpObjGet(obj, key)
  PROVE  Objectively
<1>1. /\ looking' = [on |-> TRUE, obj |-> obj, key |-> key, cur |-> obj]
      /\ UNCHANGED <<program, things, got, status>>
  BY DEF OpObjGet
<1>2. UNCHANGED Objs
  BY <1>1 DEF Objs
<1>3. looking'.key = key /\ looking'.obj = looking'.cur
  BY <1>1
<1>4. Onward'
  BY <1>1, <1>3 DEF Onward
<1>5. UNCHANGED Mapping!vars
  BY <1>1, <1>2, MappingStutter
<1> QED
  BY <1>4, <1>5 DEF Objectively

(* One turn finds what the abstract object finds, or leaves the rest of    *)
(* the search to the prototype, which finds the same.                      *)
LEMMA LookMaps ==
  ASSUME ObjectInv, Look
  PROVE  Objectively
<1>1. NamesInv /\ status = "running" /\ looking.on /\ UNCHANGED <<program, things>> /\ UNCHANGED Objs
  BY DEF Look, Stop, ObjectInv, Objs
<1>2. PICK obj, cur, key : obj = looking.obj /\ cur = looking.cur /\ key = looking.key
  OBVIOUS
<1>3. looking \in LookRecord /\ Within(looking.cur, Len(things))
  BY <1>1 DEF NamesInv, LookOK
<1>4. obj \in Values /\ cur \in Values /\ key \in AnyKey /\ Within(cur, Len(things))
  BY <1>2, <1>3 DEF LookRecord
<1>5. key \in program.keys /\ HolderIn(Objs, obj, key) = HolderIn(Objs, cur, key)
  BY <1>1, <1>2 DEF ObjectInv, Onward
<1>6. IsThing(cur) => cur.is \in 1 .. Len(things)
  BY <1>4 DEF Within
<1>7. \A v \in Values :
        HolderIn(Objs, v, key) = IF ~(IsThing(v) /\ v.is \in 1 .. Len(things)) THEN 0
                                 ELSE IF Has(things[v.is], key) THEN v.is
                                 ELSE HolderIn(Objs, things[v.is].proto, key)
  BY <1>1, <1>4, ObjsFacts
<1>8. HolderIn(Objs, cur, key) = IF ~IsThing(cur) THEN 0
                                 ELSE IF Has(things[cur.is], key) THEN cur.is
                                 ELSE HolderIn(Objs, things[cur.is].proto, key)
  BY <1>4, <1>6, <1>7
<1>9. ~Nothing.on
  BY DEF Nothing
<1>10. CASE ~IsThing(cur)
  <2>1. status' = "no property" /\ looking' = Nothing
    BY <1>2, <1>10 DEF Look, Stop
  <2>2. HolderIn(Objs, obj, key) = 0
    BY <1>5, <1>8, <1>10
  <2>3. Mapping!ObjectsNext
    BY <1>1, <1>4, <1>5, <2>1, <2>2, MappingMissing
  <2> QED
    BY <1>9, <2>1, <2>3 DEF Objectively, Onward
<1>11. CASE IsThing(cur) /\ ~Has(things[cur.is], key)
  <2>1. looking' = Further(looking) /\ UNCHANGED <<got, status>>
    BY <1>2, <1>11 DEF Look
  <2>2. looking'.obj = obj /\ looking'.key = key /\ looking'.cur = things[cur.is].proto
    BY <1>2, <1>3, <2>1 DEF Further, LookRecord
  <2>3. HolderIn(Objs, obj, key) = HolderIn(Objs, things[cur.is].proto, key)
    BY <1>5, <1>8, <1>11
  <2>4. Onward'
    BY <1>1, <1>5, <2>2, <2>3 DEF Onward
  <2>5. UNCHANGED Mapping!vars
    BY <1>1, <2>1, MappingStutter
  <2> QED
    BY <2>4, <2>5 DEF Objectively
<1>12. CASE IsThing(cur) /\ Has(things[cur.is], key)
  <2>1. PICK p, u : p = Property(things[cur.is], key) /\ u = cur.is
    OBVIOUS
  <2>2. /\ looking' = Nothing
        /\ (Found(looking, p) /\ UNCHANGED status) \/ Stop("failed")
    BY <1>2, <1>12, <2>1 DEF Look
  <2>3. CASE Stop("failed")
    BY <1>1, <1>9, <2>2, <2>3, QuietMoves DEF Quiet, Stop
  <2>4. CASE Found(looking, p) /\ UNCHANGED status
    <3>1. u \in 1 .. Len(things) /\ HolderIn(Objs, obj, key) = u /\ u # 0
      BY <1>5, <1>6, <1>8, <1>12, <2>1
    <3>2. ThingIn(Objs, obj)
      <4>1. IsThing(obj) /\ obj.is \in 1 .. Len(things)
        BY <1>4, <1>7, <3>1
      <4> QED
        BY <1>1, <4>1, ObjsFacts
    <3>3. PICK e : e = EntryIn(Objs, u, key)
      OBVIOUS
    <3>4. e.type = p.type /\ e.value = p.value
      <4>1. PICK t : t = things[u]
        OBVIOUS
      <4>2. Objs[u].own = Own(t.props) /\ Objs[u].proto = t.proto /\ Objs[u].prototype = t.prototype /\ PropsOK(t.props)
        BY <1>1, <3>1, <4>1, ObjsFacts, RowFacts
      <4>3. CASE key = Proto
        <5>1. e = [type |-> "value", value |-> t.proto]
          BY <3>3, <4>2, <4>3 DEF EntryIn
        <5>2. p = [key |-> key, type |-> "value", value |-> t.proto]
          <6>1. key # Prototype
            BY <4>3 DEF Proto, Prototype, Str
          <6> QED
            BY <2>1, <4>1, <4>3, <6>1 DEF Property
        <5> QED
          BY <5>1, <5>2
      <4>4. CASE key = Prototype /\ key # Proto
        <5>1. e = [type |-> "value", value |-> t.prototype]
          BY <3>3, <4>2, <4>4 DEF EntryIn
        <5>2. p = [key |-> key, type |-> "value", value |-> t.prototype]
          BY <2>1, <4>1, <4>4 DEF Property
        <5> QED
          BY <5>1, <5>2
      <4>5. CASE key \notin {Proto, Prototype}
        <5>1. PICK k : k = EntryOf(t.props, key)
          OBVIOUS
        <5>2. k # 0 /\ p = t.props[k]
          BY <1>12, <2>1, <4>1, <4>5, <5>1 DEF Property, Has
        <5>3. OneOfItsKind(key)
          BY <1>4, KeysAreOne
        <5>4. Own(t.props)[Nullish(key)] = [type |-> p.type, value |-> p.value]
          BY <4>2, <5>1, <5>2, <5>3, OwnAnswers
        <5>5. e = [type |-> p.type, value |-> p.value]
          BY <3>3, <4>2, <4>5, <5>4 DEF EntryIn
        <5> QED
          BY <5>5
      <4> QED
        BY <4>3, <4>4, <4>5
    <3>5. PICK r : r = IF p.type = "getter" THEN obj ELSE Undefined
      OBVIOUS
    <3>6. got' = Told("get", "", obj, key, p.value, r)
      BY <1>2, <2>4, <3>5 DEF Found
    <3>7. got'.op = "get" /\ got'.of = obj /\ got'.key = key /\ got'.value = p.value /\ got'.receiver = r
      BY <3>6 DEF Told
    <3>8. e = EntryIn(Objs, HolderIn(Objs, got'.of, got'.key), got'.key) /\ HolderIn(Objs, got'.of, got'.key) # 0
      BY <3>1, <3>3, <3>7
    <3>9. got'.value = e.value /\ (e.type = "getter" => got'.receiver = got'.of) /\ ThingIn(Objs, got'.of)
      BY <3>2, <3>4, <3>5, <3>7
    <3>10. Mapping!ObjectsNext
      BY <1>1, <2>4, <3>7, <3>8, <3>9, MappingGet
    <3> QED
      BY <1>9, <2>2, <3>10 DEF Objectively, Onward
  <2> QED
    BY <2>2, <2>3, <2>4
<1> QED
  BY <1>10, <1>11, <1>12

LEMMA NextMaps ==
  ASSUME ObjectInv, NamesInv', Next
  PROVE  Objectively
<1>0. status = "running"
  BY DEF Next, Variables, Properties, Calls, Look, OpLoadObject, OpLoadFunction, LoadFunctionFails,
    OpDeclVar, OpLoad, OpStore, OpArg, OpObjGet, OpObjSet, OpCall, OpNew, OpRet, Instruction
<1>1. CASE Variables
  <2>1. PICK name, idx, value : OpDeclVar(name) \/ OpLoad(name) \/ OpStore(name, value) \/ OpArg(name, idx)
    BY <1>1 DEF Variables
  <2> QED
    BY <1>0, <2>1, VariablesQuiet, QuietMoves
<1>2. CASE Properties
  <2>1. PICK o \in AtHand, k \in program.keys :
          OpObjGet(o, k) \/ \E v \in AtHand \cup Literals : OpObjSet(o, k, v)
    BY <1>2 DEF Properties
  <2> QED
    BY <2>1, ObjGetMaps, ObjSetMaps
<1>3. CASE Look
  BY <1>3, LookMaps
<1>4. CASE Calls
  <2>1. CASE \E f \in AtHand, v \in Literals : OpCall(f, Undefined, <<v>>) \/ OpNew(f, <<v>>)
    BY <1>0, <2>1, CallQuiet, QuietMoves, NewMaps
  <2>2. CASE \E v \in Literals : OpRet(v)
    BY <1>0, <2>2, RetQuiet, QuietMoves
  <2> QED
    BY <1>4, <2>1, <2>2 DEF Calls
<1>5. CASE OpLoadObject
  BY <1>5, LoadObjectMaps
<1>6. CASE OpLoadFunction
  BY <1>6, LoadFunctionMaps
<1>7. CASE LoadFunctionFails
  BY <1>0, <1>7, FailsQuiet, QuietMoves
<1> QED
  BY <1>1, <1>2, <1>3, <1>4, <1>5, <1>6, <1>7 DEF Next

(* Properties are found where they were set, in the nearest thing of the   *)
(* chain of prototypes, and getters are called for the one that was asked, *)
(* whatever a program sets, prototypes too, and however the chains run:    *)
(* the machine's lists and its search do what abstract objects promise.    *)
THEOREM ImplementsObjects == Spec => ObjectsMeant
<1>1. Init => ObjectInv /\ Mapping!Begin
  BY BootIsOK DEF Init, ObjectInv, Onward, Nothing, Mapping!Begin
<1>2. ObjectInv /\ [Next]_vars => ObjectInv' /\ [Mapping!ObjectsNext]_(Mapping!vars)
  <2> SUFFICES ASSUME ObjectInv, [Next]_vars PROVE ObjectInv' /\ [Mapping!ObjectsNext]_(Mapping!vars)
    OBVIOUS
  <2>1. NamesInv'
    BY NextKeeps, StutterKeeps DEF ObjectInv
  <2>2. CASE Next
    <3>1. Onward' /\ (Mapping!ObjectsNext \/ UNCHANGED Mapping!vars)
      BY <2>1, <2>2, NextMaps DEF Objectively
    <3> QED
      BY <2>1, <3>1 DEF ObjectInv
  <2>3. CASE UNCHANGED vars
    <3>1. UNCHANGED <<program, things, looking, got, status>>
      BY <2>3 DEF vars
    <3>2. UNCHANGED Objs
      BY <3>1 DEF Objs
    <3>3. UNCHANGED Mapping!vars
      BY <3>1, <3>2, MappingStutter
    <3>4. Onward'
      BY <3>1, <3>2 DEF ObjectInv, Onward
    <3> QED
      BY <2>1, <3>3, <3>4 DEF ObjectInv
  <2> QED
    BY <2>2, <2>3
<1> QED
  BY <1>1, <1>2, PTL DEF Spec, ObjectsMeant, Mapping!ObjectsSpec
================================================================================
