--------------------------- MODULE ArrayListProofs ---------------------------
(***************************************************************************)
(* Proofs about arrays, for any number of items in memory: both directions *)
(* of the links agree, and the list is the sequence that the program       *)
(* expects.                                                                *)
(***************************************************************************)
EXTENDS ArrayList, Lemmas

(* A walk from u along a link goes through s and ends there.               *)
Path(s, u, link) ==
  /\ s \in Seq(Live) /\ Distinct(s)
  /\ u = IF s = <<>> THEN Nil ELSE s[1]
  /\ \A i \in 1 .. Len(s) : item[s[i]][link] = IF i < Len(s) THEN s[i + 1] ELSE Nil

Typed ==
  /\ Live \subseteq Urids /\ item \in [Live -> Item]
  /\ reply \in Elements \cup {Undefined, Failed} \cup Nat

(* The items of the list are s, linked both ways.                          *)
Linked(s) ==
  /\ s \in Seq(Live) /\ Distinct(s) /\ Len(s) = size
  /\ begin = IF s = <<>> THEN Nil ELSE s[1]
  /\ end = IF s = <<>> THEN Nil ELSE s[Len(s)]
  /\ \A i \in 1 .. Len(s) :
       /\ item[s[i]].next = IF i < Len(s) THEN s[i + 1] ELSE Nil
       /\ item[s[i]].prev = IF i > 1 THEN s[i - 1] ELSE Nil

ListInv == Typed /\ \E s \in Seq(Urids) : Linked(s)

(***************************************************************************)
(* What a walk finds.                                                      *)
(***************************************************************************)

(* A recursion over the naturals that has a solution has no other.         *)
LEMMA WalkIsPath ==
  ASSUME Typed, NEW u, NEW link, NEW s, Path(s, u, link)
  PROVE  \A n \in Nat : Along(u, link)[n] = IF n < Len(s) THEN s[n + 1] ELSE Nil
<1> DEFINE g == [n \in Nat |-> IF n < Len(s) THEN s[n + 1] ELSE Nil]
           at == Along(u, link)
<1>1. s \in Seq(Live) /\ Len(s) \in Nat /\ (s = <<>> <=> Len(s) = 0) /\ Nil \notin Live
  BY EmptySeq, ListAssumption DEF Path, Typed
<1>2. \A i \in 1 .. Len(s) : s[i] \in Live
  BY <1>1, ElementOfSeq
<1>3. ASSUME NEW n \in Nat
      PROVE  g[n] = IF n = 0 THEN u ELSE IF g[n - 1] \in Live THEN item[g[n - 1]][link] ELSE Nil
  <2>1. CASE n = 0
    BY <1>1, <2>1 DEF Path
  <2>2. CASE n # 0 /\ n - 1 < Len(s)
    <3>1. n - 1 \in Nat /\ n \in 1 .. Len(s) /\ g[n - 1] = s[n] /\ s[n] \in Live
      BY <1>1, <1>2, <2>2
    <3>2. item[s[n]][link] = IF n < Len(s) THEN s[n + 1] ELSE Nil
      BY <3>1 DEF Path
    <3> QED
      BY <2>2, <3>1, <3>2
  <2>3. CASE n # 0 /\ ~(n - 1 < Len(s))
    BY <1>1, <2>3
  <2> QED
    BY <2>1, <2>2, <2>3
<1>4. g = [n \in Nat |-> IF n = 0 THEN u ELSE IF g[n - 1] \in Live THEN item[g[n - 1]][link] ELSE Nil]
  <2> DEFINE h == [n \in Nat |-> IF n = 0 THEN u ELSE IF g[n - 1] \in Live THEN item[g[n - 1]][link] ELSE Nil]
  <2>1. \A n \in Nat : g[n] = h[n]
    <3> HIDE DEF g
    <3> QED
      BY <1>3
  <2>2. g = [n \in Nat |-> g[n]] /\ h = [n \in Nat |-> h[n]]
    OBVIOUS
  <2> QED
    BY <2>1, <2>2, Zenon
<1> HIDE DEF g
<1>5. at = [n \in Nat |-> IF n = 0 THEN u ELSE IF at[n - 1] \in Live THEN item[at[n - 1]][link] ELSE Nil]
  BY <1>4, Zenon DEF Along
<1> HIDE DEF at
<1> DEFINE S == {n \in Nat : at[n] = g[n]}
<1>6. at[0] = u /\ g[0] = u
  BY <1>3, <1>5
<1>7. ASSUME NEW n \in Nat, at[n] = g[n] PROVE at[n + 1] = g[n + 1]
  <2>1. n + 1 \in Nat /\ n + 1 # 0 /\ (n + 1) - 1 = n
    OBVIOUS
  <2>2. g[n + 1] = IF g[n] \in Live THEN item[g[n]][link] ELSE Nil
    BY <1>3, <2>1
  <2>3. at[n + 1] = IF at[n] \in Live THEN item[at[n]][link] ELSE Nil
    BY <1>5, <2>1
  <2> QED
    BY <1>7, <2>2, <2>3
<1>8. \A n \in Nat : n \in S
  <2>1. 0 \in S /\ \A n \in Nat : n \in S => n + 1 \in S
    BY <1>6, <1>7
  <2> HIDE DEF S
  <2> QED
    BY <2>1, NatSetInduction
<1> QED
  BY <1>8 DEF g, at

LEMMA LiveIsFinite ==
  ASSUME Typed
  PROVE  IsFiniteSet(Live) /\ Cardinality(Live) \in Nat /\ Nil \notin Live
BY ListAssumption, FS_Subset, FS_CardinalityType DEF Typed

LEMMA ChainIsPath ==
  ASSUME Typed, NEW u, NEW link, NEW s, Path(s, u, link)
  PROVE  ChainOf(u, link) = s
<1> DEFINE at == Along(u, link)
           held == {n \in 0 .. Cardinality(Live) : at[n] # Nil}
<1>1. /\ s \in Seq(Live) /\ Len(s) \in Nat /\ Len(s) <= Cardinality(Live) /\ Cardinality(Live) \in Nat
      /\ Nil \notin Live
  BY LiveIsFinite, ItemsOfSeq, LenProperties DEF Path
<1>2. \A n \in Nat : at[n] = IF n < Len(s) THEN s[n + 1] ELSE Nil
  BY WalkIsPath
<1> HIDE DEF at
<1>3. \A n \in Nat : n < Len(s) => s[n + 1] # Nil
  BY <1>1, ElementOfSeq
<1>4. held = 0 .. Len(s) - 1
  <2>1. \A n \in Nat : at[n] # Nil <=> n < Len(s)
    BY <1>2, <1>3
  <2>2. \A n \in 0 .. Cardinality(Live) : n \in Nat
    BY <1>1
  <2>3. \A n : n \in 0 .. Cardinality(Live) /\ n < Len(s) <=> n \in 0 .. Len(s) - 1
    BY <1>1
  <2> QED
    BY <2>1, <2>2, <2>3
<1> HIDE DEF held
<1>5. Cardinality(held) = Len(s)
  <2>1. 0 \in Int /\ Len(s) - 1 \in Int
    BY <1>1
  <2>2. Cardinality(0 .. Len(s) - 1) = IF 0 > Len(s) - 1 THEN 0 ELSE (Len(s) - 1) - 0 + 1
    BY <2>1, FS_Interval
  <2> QED
    BY <1>1, <1>4, <2>2
<1>6. [i \in 1 .. Len(s) |-> at[i - 1]] = s
  <2>1. \A i \in 1 .. Len(s) : at[i - 1] = s[i]
    BY <1>1, <1>2
  <2>2. s = [i \in 1 .. Len(s) |-> s[i]]
    BY <1>1, LenProperties
  <2> QED
    BY <2>1, <2>2
<1>7. ChainOf(u, link) = [i \in 1 .. Cardinality(held) |-> at[i - 1]]
  BY DEF ChainOf, held, at
<1> QED
  BY <1>5, <1>6, <1>7

Reversed(s) == [i \in 1 .. Len(s) |-> s[Len(s) + 1 - i]]

LEMMA ReversedFacts ==
  ASSUME NEW S, NEW s \in Seq(S)
  PROVE  /\ Reversed(s) \in Seq(S) /\ Len(Reversed(s)) = Len(s) /\ Len(s) \in Nat
         /\ \A i \in 1 .. Len(s) : Reversed(s)[i] = s[Len(s) + 1 - i]
         /\ Distinct(s) => Distinct(Reversed(s))
<1>1. Len(s) \in Nat
  BY LenProperties
<1>2. \A i \in 1 .. Len(s) : Len(s) + 1 - i \in 1 .. Len(s) /\ s[Len(s) + 1 - i] \in S
  BY <1>1, ElementOfSeq
<1>3. /\ Reversed(s) \in Seq(S) /\ Len(Reversed(s)) = Len(s)
      /\ \A i \in 1 .. Len(s) : Reversed(s)[i] = s[Len(s) + 1 - i]
  BY <1>1, <1>2, IsASeq DEF Reversed
<1>4. ASSUME Distinct(s) PROVE Distinct(Reversed(s))
  <2> DEFINE r == Reversed(s)
  <2> SUFFICES ASSUME NEW i \in 1 .. Len(r), NEW j \in 1 .. Len(r), r[i] = r[j] PROVE i = j
    BY DEF Distinct
  <2>1. r[i] = s[Len(s) + 1 - i] /\ r[j] = s[Len(s) + 1 - j] /\ i \in 1 .. Len(s) /\ j \in 1 .. Len(s)
    BY <1>3
  <2>2. Len(s) + 1 - i = Len(s) + 1 - j
    BY <1>2, <1>4, <2>1 DEF Distinct
  <2> QED
    BY <1>1, <2>1, <2>2
<1> QED
  BY <1>1, <1>3, <1>4

(* What both walks find, and the elements that the program sees.           *)
Elems(s) == [i \in 1 .. Len(s) |-> item[s[i]].element]

Seen == \A s \in Seq(Urids) :
          Linked(s) => /\ Path(s, begin, "next") /\ Path(Reversed(s), end, "prev")
                       /\ ChainOf(begin, "next") = s /\ ChainOf(end, "prev") = Reversed(s)
                       /\ \A n \in Nat : Along(begin, "next")[n] = IF n < Len(s) THEN s[n + 1] ELSE Nil
                       /\ Contents = Elems(s)

LEMMA LinkedIsSeen == Typed => Seen
<1> SUFFICES ASSUME Typed, NEW s \in Seq(Urids), Linked(s)
             PROVE  /\ Path(s, begin, "next") /\ Path(Reversed(s), end, "prev")
                    /\ ChainOf(begin, "next") = s /\ ChainOf(end, "prev") = Reversed(s)
                    /\ \A n \in Nat : Along(begin, "next")[n] = IF n < Len(s) THEN s[n + 1] ELSE Nil
                    /\ Contents = Elems(s)
  BY DEF Seen
<1>1. s \in Seq(Live) /\ Len(s) \in Nat /\ Distinct(s) /\ (s = <<>> <=> Len(s) = 0)
  BY LenProperties, EmptySeq DEF Linked
<1>2. Path(s, begin, "next")
  BY DEF Path, Linked
<1>3. Path(Reversed(s), end, "prev")
  <2> DEFINE r == Reversed(s)
  <2>1. /\ r \in Seq(Live) /\ Len(r) = Len(s) /\ Distinct(r)
        /\ \A i \in 1 .. Len(s) : r[i] = s[Len(s) + 1 - i]
    BY <1>1, ReversedFacts
  <2>2. r = <<>> <=> Len(s) = 0
    BY <1>1, <2>1, EmptySeq
  <2> HIDE DEF r
  <2>3. end = IF r = <<>> THEN Nil ELSE r[1]
    BY <1>1, <2>1, <2>2 DEF Linked
  <2>4. ASSUME NEW i \in 1 .. Len(r)
        PROVE  item[r[i]].prev = IF i < Len(r) THEN r[i + 1] ELSE Nil
    <3> DEFINE j == Len(s) + 1 - i
    <3>1. j \in 1 .. Len(s) /\ r[i] = s[j]
      BY <1>1, <2>1
    <3>2. item[s[j]].prev = IF j > 1 THEN s[j - 1] ELSE Nil
      BY <3>1 DEF Linked
    <3>3. CASE i < Len(r)
      <4>1. i + 1 \in 1 .. Len(s) /\ j > 1 /\ j - 1 = Len(s) + 1 - (i + 1)
        BY <1>1, <2>1, <3>3
      <4> QED
        BY <2>1, <3>1, <3>2, <3>3, <4>1
    <3>4. CASE ~(i < Len(r))
      BY <1>1, <2>1, <3>1, <3>2, <3>4
    <3> QED
      BY <3>3, <3>4
  <2> QED
    BY <2>1, <2>3, <2>4 DEF Path, r
<1>4. ChainOf(begin, "next") = s /\ ChainOf(end, "prev") = Reversed(s)
  BY <1>2, <1>3, ChainIsPath
<1>5. \A n \in Nat : Along(begin, "next")[n] = IF n < Len(s) THEN s[n + 1] ELSE Nil
  BY <1>2, WalkIsPath
<1>6. Contents = Elems(s)
  BY <1>4 DEF Contents, Elems
<1> QED
  BY <1>2, <1>3, <1>4, <1>5, <1>6

LEMMA InvImpliesSound == ListInv => ListSound
<1> SUFFICES ASSUME ListInv PROVE ListSound
  OBVIOUS
<1>1. Typed
  BY DEF ListInv
<1>2. PICK s \in Seq(Urids) : Linked(s)
  BY DEF ListInv
<1>3. /\ ChainOf(begin, "next") = s /\ ChainOf(end, "prev") = Reversed(s)
  BY <1>1, <1>2, LinkedIsSeen DEF Seen
<1>4. /\ s \in Seq(Live) /\ Len(s) = size /\ size \in Nat /\ Distinct(s)
      /\ \A i \in 1 .. Len(s) : s[i] \in Live
  BY <1>2, LenProperties, ElementOfSeq DEF Linked
<1>5. Len(s) <= Cardinality(Urids) /\ Cardinality(Urids) \in Nat
  BY <1>4, ItemsOfSeq, ListAssumption, FS_CardinalityType
<1>6. TypeOK
  <2>1. {begin, end} \subseteq OrNil
    <3>1. CASE s = <<>>
      BY <1>2, <3>1 DEF Linked, OrNil
    <3>2. CASE s # <<>>
      <4>1. 1 \in 1 .. Len(s) /\ Len(s) \in 1 .. Len(s)
        BY <1>4, <3>2, EmptySeq
      <4> QED
        BY <1>1, <1>2, <1>4, <3>2, <4>1 DEF Linked, OrNil, Typed
    <3> QED
      BY <3>1, <3>2
  <2> QED
    BY <1>1, <1>4, <1>5, <2>1 DEF TypeOK, Typed
<1>7. LinksAgree
  <2>1. /\ Len(Reversed(s)) = Len(s)
        /\ \A i \in 1 .. Len(s) : Reversed(s)[i] = s[Len(s) + 1 - i]
    BY <1>4, ReversedFacts
  <2> QED
    BY <1>3, <1>4, <2>1 DEF LinksAgree
<1> QED
  BY <1>6, <1>7 DEF ListSound

(***************************************************************************)
(* The operations.                                                         *)
(***************************************************************************)
LEMMA SeenThen == Typed' => Seen'
BY LinkedIsSeen, PTL

LEMMA LinkedFacts ==
  ASSUME Typed, NEW s \in Seq(Urids), Linked(s)
  PROVE  /\ s \in Seq(Live) /\ Distinct(s) /\ Len(s) \in Nat /\ Len(s) = size
         /\ (s = <<>> <=> Len(s) = 0) /\ (s = <<>> <=> begin = Nil) /\ (s = <<>> <=> end = Nil)
         /\ s # <<>> => begin = s[1] /\ end = s[Len(s)] /\ begin \in Live /\ end \in Live
         /\ \A i \in 1 .. Len(s) : s[i] \in Live /\ s[i] \in Urids /\ s[i] # Nil
<1>1. s \in Seq(Live) /\ Distinct(s) /\ Len(s) \in Nat /\ (s = <<>> <=> Len(s) = 0) /\ Len(s) = size
  BY LenProperties, EmptySeq DEF Linked
<1>2. \A i \in 1 .. Len(s) : s[i] \in Live /\ s[i] \in Urids /\ s[i] # Nil
  BY <1>1, ElementOfSeq, ListAssumption
<1>3. CASE s = <<>>
  BY <1>1, <1>2, <1>3 DEF Linked
<1>4. CASE s # <<>>
  <2>1. 1 \in 1 .. Len(s) /\ Len(s) \in 1 .. Len(s)
    BY <1>1, <1>4
  <2>2. begin = s[1] /\ end = s[Len(s)]
    BY <1>4 DEF Linked
  <2> QED
    BY <1>1, <1>2, <1>4, <2>1, <2>2
<1> QED
  BY <1>3, <1>4

LEMMA ElemsFacts ==
  ASSUME Typed, NEW s \in Seq(Live)
  PROVE  Elems(s) \in Seq(Elements) /\ Len(Elems(s)) = Len(s) /\ DOMAIN Elems(s) = 1 .. Len(s)
<1>1. Len(s) \in Nat
  BY LenProperties
<1>2. \A i \in 1 .. Len(s) : item[s[i]].element \in Elements
  BY ElementOfSeq DEF Typed, Item
<1>3. Elems(s) \in [1 .. Len(s) -> Elements]
  BY <1>2 DEF Elems
<1> QED
  BY <1>1, <1>3, IsASeq

(* What is behind the last item, with whatever else is in memory.          *)
LEMMA LastLinked ==
  ASSUME Typed, NEW s \in Seq(Urids), Linked(s), NEW u \in Urids \ Live, NEW e \in Elements,
         NEW t, t = Append(s, u),
         Live \cup {u} \subseteq DOMAIN item',
         \A x \in Live : item'[x] = IF begin # Nil /\ x = end THEN [item[x] EXCEPT !.next = u] ELSE item[x],
         item'[u] = [prev |-> IF begin = Nil THEN Nil ELSE end, next |-> Nil, element |-> e],
         begin' = IF begin = Nil THEN u ELSE begin, end' = u, size' = size + 1
  PROVE  t \in Seq(Urids) /\ Linked(t)' /\ Elems(t)' = Append(Elems(s), e)
<1>1. /\ s \in Seq(Live) /\ Distinct(s) /\ Len(s) \in Nat /\ Len(s) = size
      /\ (s = <<>> <=> Len(s) = 0) /\ (s = <<>> <=> begin = Nil)
      /\ s # <<>> => begin = s[1] /\ end = s[Len(s)]
      /\ \A i \in 1 .. Len(s) : s[i] \in Live /\ s[i] # u
  BY LinkedFacts
<1>2. /\ t \in Seq(Urids) /\ Len(t) = Len(s) + 1
      /\ \A i \in 1 .. Len(s) : t[i] = s[i]
      /\ t[Len(s) + 1] = u
  BY AppendProperties
<1>3. t \in Seq(DOMAIN item')
  <2>1. s \in Seq(DOMAIN item') /\ u \in DOMAIN item'
    BY <1>1, SeqMonotonic
  <2> QED
    BY <2>1, AppendProperties
<1>4. Distinct(t)
  BY <1>1, <1>2 DEF Distinct
<1>5. \A i \in 1 .. Len(s) : i # Len(s) => s[i] # s[Len(s)]
  BY <1>1 DEF Distinct
<1>6. ASSUME NEW i \in 1 .. Len(s)
      PROVE  /\ item'[s[i]].next = IF i = Len(s) THEN u ELSE item[s[i]].next
             /\ item'[s[i]].prev = item[s[i]].prev
             /\ item'[s[i]].element = item[s[i]].element
  <2>1. s[i] \in Live /\ item[s[i]] \in Item
    BY <1>1 DEF Typed
  <2>2. s[i] = end <=> i = Len(s)
    BY <1>1, <1>5
  <2>3. item'[s[i]] = IF i = Len(s) THEN [item[s[i]] EXCEPT !.next = u] ELSE item[s[i]]
    BY <1>1, <2>1, <2>2
  <2> QED
    BY <2>1, <2>3 DEF Item
<1>7. ASSUME NEW i \in 1 .. Len(t)
      PROVE  /\ item'[t[i]].next = IF i < Len(t) THEN t[i + 1] ELSE Nil
             /\ item'[t[i]].prev = IF i > 1 THEN t[i - 1] ELSE Nil
  <2>1. CASE i = Len(s) + 1
    <3>1. item'[t[i]].next = Nil /\ item'[t[i]].prev = IF begin = Nil THEN Nil ELSE end
      BY <1>2, <2>1
    <3>2. CASE s = <<>>
      BY <1>1, <1>2, <2>1, <3>1, <3>2
    <3>3. CASE s # <<>>
      <4>1. i > 1 /\ t[i - 1] = s[Len(s)]
        BY <1>1, <1>2, <2>1, <3>3
      <4> QED
        BY <1>1, <1>2, <2>1, <3>1, <3>3, <4>1
    <3> QED
      BY <3>2, <3>3
  <2>2. CASE i \in 1 .. Len(s)
    <3>1. /\ item[s[i]].next = IF i < Len(s) THEN s[i + 1] ELSE Nil
          /\ item[s[i]].prev = IF i > 1 THEN s[i - 1] ELSE Nil
      BY <2>2 DEF Linked
    <3>2. t[i] = s[i] /\ item'[t[i]].prev = item[s[i]].prev /\ item'[t[i]].next = IF i = Len(s) THEN u ELSE item[s[i]].next
      BY <1>2, <1>6, <2>2
    <3>3. item'[t[i]].next = t[i + 1] /\ i < Len(t)
      <4>1. CASE i = Len(s)
        BY <1>1, <1>2, <3>2, <4>1
      <4>2. CASE i # Len(s)
        <5>1. i < Len(s) /\ i + 1 \in 1 .. Len(s)
          BY <1>1, <2>2, <4>2
        <5> QED
          BY <1>1, <1>2, <3>1, <3>2, <5>1
      <4> QED
        BY <4>1, <4>2
    <3>4. i > 1 => i - 1 \in 1 .. Len(s) /\ t[i - 1] = s[i - 1]
      BY <1>1, <1>2, <2>2
    <3> QED
      BY <3>1, <3>2, <3>3, <3>4
  <2> QED
    BY <1>1, <1>2, <2>1, <2>2
<1>8. t # <<>> /\ t[1] = (IF s = <<>> THEN u ELSE s[1]) /\ t[Len(t)] = u
  BY <1>1, <1>2, EmptySeq
<1>9. Linked(t)'
  <2>1. /\ Len(t) = size'
        /\ begin' = (IF t = <<>> THEN Nil ELSE t[1]) /\ end' = (IF t = <<>> THEN Nil ELSE t[Len(t)])
    BY <1>1, <1>2, <1>8
  <2> QED
    BY <1>3, <1>4, <1>7, <2>1 DEF Linked, Live
<1>10. Elems(t)' = Append(Elems(s), e)
  <2>1. Elems(s) \in Seq(Elements) /\ Len(Elems(s)) = Len(s)
    BY <1>1, ElemsFacts
  <2> DEFINE a == Append(Elems(s), e)
  <2>2. a = [i \in 1 .. Len(s) + 1 |-> IF i = Len(s) + 1 THEN e ELSE item[s[i]].element]
    BY <1>1, <2>1 DEF Elems
  <2>3. \A i \in 1 .. Len(s) + 1 : item'[t[i]].element = IF i = Len(s) + 1 THEN e ELSE item[s[i]].element
    BY <1>1, <1>2, <1>6
  <2>4. Elems(t)' = [i \in 1 .. Len(s) + 1 |-> item'[t[i]].element]
    BY <1>2 DEF Elems
  <2> QED
    BY <2>2, <2>3, <2>4
<1> QED
  BY <1>2, <1>9, <1>10

LEMMA FirstLinked ==
  ASSUME Typed, NEW s \in Seq(Urids), Linked(s), NEW u \in Urids \ Live, NEW e \in Elements,
         NEW t, t = <<u>> \o s,
         DOMAIN item' = Live \cup {u},
         \A x \in Live : item'[x] = IF begin # Nil /\ x = begin THEN [item[x] EXCEPT !.prev = u] ELSE item[x],
         item'[u] = [prev |-> Nil, next |-> begin, element |-> e],
         begin' = u, end' = IF begin = Nil THEN u ELSE end, size' = size + 1
  PROVE  t \in Seq(Urids) /\ Linked(t)' /\ Elems(t)' = <<e>> \o Elems(s)
<1>1. /\ s \in Seq(Live) /\ Distinct(s) /\ Len(s) \in Nat /\ Len(s) = size
      /\ (s = <<>> <=> Len(s) = 0) /\ (s = <<>> <=> begin = Nil)
      /\ s # <<>> => begin = s[1] /\ end = s[Len(s)]
      /\ \A i \in 1 .. Len(s) : s[i] \in Live /\ s[i] # u
  BY LinkedFacts
<1>2. /\ t \in Seq(Urids) /\ Len(t) = Len(s) + 1
      /\ t[1] = u /\ \A i \in 1 .. Len(s) : t[i + 1] = s[i]
  <2>1. <<u>> \in Seq(Urids) /\ Len(<<u>>) = 1 /\ <<u>>[1] = u
    OBVIOUS
  <2>2. /\ t \in Seq(Urids) /\ Len(t) = 1 + Len(s)
        /\ \A i \in 1 .. 1 + Len(s) : t[i] = IF i <= 1 THEN <<u>>[i] ELSE s[i - 1]
    BY <2>1, ConcatProperties
  <2>3. \A i \in 1 .. Len(s) : i + 1 \in 1 .. 1 + Len(s) /\ ~(i + 1 <= 1) /\ (i + 1) - 1 = i
    BY <1>1
  <2> QED
    BY <1>1, <2>1, <2>2, <2>3
<1>3. ASSUME NEW j \in 2 .. Len(t) PROVE j - 1 \in 1 .. Len(s) /\ t[j] = s[j - 1]
  <2>1. j - 1 \in 1 .. Len(s) /\ (j - 1) + 1 = j
    BY <1>1, <1>2
  <2> QED
    BY <1>2, <2>1
<1>4. t \in Seq(DOMAIN item') /\ Distinct(t)
  <2>1. \A j \in 1 .. Len(t) : t[j] \in DOMAIN item'
    BY <1>1, <1>2, <1>3
  <2>2. t = [j \in 1 .. Len(t) |-> t[j]]
    BY <1>2, LenProperties
  <2>3. t \in Seq(DOMAIN item')
    BY <1>1, <1>2, <2>1, <2>2, IsASeq
  <2>4. Distinct(t)
    BY <1>1, <1>2, <1>3 DEF Distinct
  <2> QED
    BY <2>3, <2>4
<1>5. \A i \in 1 .. Len(s) : i # 1 => s[i] # s[1]
  BY <1>1 DEF Distinct
<1>6. ASSUME NEW i \in 1 .. Len(s)
      PROVE  /\ item'[s[i]].prev = IF i = 1 THEN u ELSE item[s[i]].prev
             /\ item'[s[i]].next = item[s[i]].next
             /\ item'[s[i]].element = item[s[i]].element
  <2>1. s[i] \in Live /\ item[s[i]] \in Item
    BY <1>1 DEF Typed
  <2>2. s[i] = begin <=> i = 1
    BY <1>1, <1>5
  <2>3. item'[s[i]] = IF i = 1 THEN [item[s[i]] EXCEPT !.prev = u] ELSE item[s[i]]
    BY <1>1, <2>1, <2>2
  <2> QED
    BY <2>1, <2>3 DEF Item
<1>7. ASSUME NEW i \in 1 .. Len(t)
      PROVE  /\ item'[t[i]].next = IF i < Len(t) THEN t[i + 1] ELSE Nil
             /\ item'[t[i]].prev = IF i > 1 THEN t[i - 1] ELSE Nil
  <2>1. CASE i = 1
    <3>1. item'[t[i]].next = begin /\ item'[t[i]].prev = Nil
      BY <1>2, <2>1
    <3>2. CASE s = <<>>
      BY <1>1, <1>2, <2>1, <3>1, <3>2
    <3>3. CASE s # <<>>
      <4>1. i < Len(t) /\ t[i + 1] = s[1]
        BY <1>1, <1>2, <2>1, <3>3
      <4> QED
        BY <1>1, <1>2, <2>1, <3>1, <3>3, <4>1
    <3> QED
      BY <3>2, <3>3
  <2>2. CASE i # 1
    <3> DEFINE j == i - 1
    <3>1. j \in 1 .. Len(s) /\ t[i] = s[j]
      BY <1>1, <1>2, <1>3, <2>2
    <3>2. /\ item[s[j]].next = IF j < Len(s) THEN s[j + 1] ELSE Nil
          /\ item[s[j]].prev = IF j > 1 THEN s[j - 1] ELSE Nil
      BY <3>1 DEF Linked
    <3>3. item'[t[i]].next = item[s[j]].next /\ item'[t[i]].prev = IF j = 1 THEN u ELSE item[s[j]].prev
      BY <1>6, <3>1
    <3>4. item'[t[i]].prev = t[i - 1] /\ i > 1
      <4>1. CASE j = 1
        BY <1>1, <1>2, <3>3, <4>1
      <4>2. CASE j # 1
        <5>1. j > 1 /\ i - 1 \in 2 .. Len(t) /\ (i - 1) - 1 = j - 1
          BY <1>1, <1>2, <3>1, <4>2
        <5>2. t[i - 1] = s[j - 1]
          BY <1>3, <5>1
        <5> QED
          BY <1>1, <3>2, <3>3, <5>1, <5>2
      <4> QED
        BY <4>1, <4>2
    <3>5. j < Len(s) <=> i < Len(t)
      BY <1>1, <1>2, <3>1
    <3>6. j < Len(s) => t[i + 1] = s[j + 1]
      <4> SUFFICES ASSUME j < Len(s) PROVE t[i + 1] = s[j + 1]
        OBVIOUS
      <4>1. i + 1 \in 2 .. Len(t) /\ (i + 1) - 1 = j + 1
        BY <1>1, <1>2, <3>1
      <4> QED
        BY <1>3, <4>1
    <3> QED
      BY <3>2, <3>3, <3>4, <3>5, <3>6
  <2> QED
    BY <2>1, <2>2
<1>8. t # <<>> /\ t[Len(t)] = IF s = <<>> THEN u ELSE s[Len(s)]
  <2>1. t # <<>>
    BY <1>1, <1>2, EmptySeq
  <2>2. CASE s = <<>>
    BY <1>1, <1>2, <2>1, <2>2
  <2>3. CASE s # <<>>
    <3>1. Len(t) \in 2 .. Len(t) /\ Len(t) - 1 = Len(s)
      BY <1>1, <1>2, <2>3
    <3> QED
      BY <1>3, <2>1, <2>3, <3>1
  <2> QED
    BY <2>2, <2>3
<1>9. Linked(t)'
  <2>1. /\ Len(t) = size'
        /\ begin' = (IF t = <<>> THEN Nil ELSE t[1]) /\ end' = (IF t = <<>> THEN Nil ELSE t[Len(t)])
    BY <1>1, <1>2, <1>8
  <2> QED
    BY <1>4, <1>7, <2>1 DEF Linked, Live
<1>10. Elems(t)' = <<e>> \o Elems(s)
  <2>1. Elems(s) \in Seq(Elements) /\ Len(Elems(s)) = Len(s) /\ <<e>> \in Seq(Elements) /\ Len(<<e>>) = 1 /\ <<e>>[1] = e
    BY <1>1, ElemsFacts
  <2> DEFINE a == <<e>> \o Elems(s)
  <2>2. /\ a \in Seq(Elements) /\ Len(a) = 1 + Len(s)
        /\ \A i \in 1 .. 1 + Len(s) : a[i] = IF i <= 1 THEN <<e>>[i] ELSE Elems(s)[i - 1]
    <3> HIDE DEF Elems
    <3> QED
      BY <2>1, ConcatProperties
  <2>3. a = [i \in 1 .. 1 + Len(s) |-> a[i]]
    BY <1>1, <2>2, LenProperties
  <2> HIDE DEF a
  <2>4. ASSUME NEW i \in 1 .. 1 + Len(s) PROVE item'[t[i]].element = a[i]
    <3>1. CASE i = 1
      <4>1. a[1] = e
        BY <1>1, <2>1, <2>2
      <4>2. item'[t[1]].element = e
        BY <1>2
      <4> QED
        BY <3>1, <4>1, <4>2
    <3>2. CASE i # 1
      <4>1. i \in 2 .. Len(t) /\ ~(i <= 1)
        BY <1>1, <1>2, <3>2
      <4>2. i - 1 \in 1 .. Len(s) /\ t[i] = s[i - 1]
        BY <1>3, <4>1
      <4>3. a[i] = item[s[i - 1]].element
        BY <2>2, <4>1, <4>2 DEF Elems
      <4> QED
        BY <1>6, <4>2, <4>3
    <3> QED
      BY <3>1, <3>2
  <2>5. Elems(t)' = [i \in 1 .. 1 + Len(s) |-> item'[t[i]].element]
    BY <1>1, <1>2 DEF Elems
  <2> QED
    BY <2>3, <2>4, <2>5 DEF a
<1> QED
  BY <1>2, <1>9, <1>10

(* The last item goes; it stays in memory.                                 *)
LastCut(s) ==
  \A x \in Live : item'[x] = IF Len(s) > 1 /\ x = s[Len(s) - 1] THEN [item[x] EXCEPT !.next = Nil] ELSE item[x]

LEMMA LastUnlinked ==
  ASSUME Typed, NEW s \in Seq(Urids), Linked(s), s # <<>>,
         NEW t, t = SubSeq(s, 1, Len(s) - 1),
         DOMAIN item' = Live,
         LastCut(s),
         begin' = IF Len(s) > 1 THEN begin ELSE Nil,
         end' = IF Len(s) > 1 THEN s[Len(s) - 1] ELSE Nil,
         size' = size - 1
  PROVE  t \in Seq(Urids) /\ Linked(t)' /\ Elems(t)' = SubSeq(Elems(s), 1, Len(Elems(s)) - 1)
<1>1. /\ s \in Seq(Live) /\ Distinct(s) /\ Len(s) \in Nat /\ Len(s) = size /\ Len(s) > 0
      /\ begin = s[1] /\ end = s[Len(s)]
      /\ \A i \in 1 .. Len(s) : s[i] \in Live /\ s[i] \in Urids
  BY LinkedFacts
<1> DEFINE n == Len(s) - 1
<1>2. /\ t \in Seq(Live) /\ t \in Seq(Urids) /\ Len(t) = n /\ n \in Nat
      /\ \A i \in 1 .. n : t[i] = s[i]
  <2>1. \A i \in 1 .. n : s[i] \in Live /\ s[i] \in Urids
    BY <1>1
  <2>2. 1 \in Int /\ n \in Int
    BY <1>1
  <2>3. SubSeq(s, 1, n) \in Seq(Live) /\ SubSeq(s, 1, n) \in Seq(Urids) /\ Len(SubSeq(s, 1, n)) = IF 1 <= n THEN n - 1 + 1 ELSE 0
    BY <2>1, <2>2, SubSeqProperties
  <2>4. \A i \in 1 .. n - 1 + 1 : SubSeq(s, 1, n)[i] = s[1 + i - 1]
    BY <2>1, <2>2, SubSeqProperties
  <2> QED
    BY <1>1, <2>3, <2>4
<1>3. t = <<>> <=> Len(s) = 1
  BY <1>1, <1>2, EmptySeq
<1>4. Distinct(t)
  BY <1>1, <1>2 DEF Distinct
<1>5. \A i \in 1 .. n : i # n => s[i] # s[n]
  BY <1>1 DEF Distinct
<1>6. ASSUME NEW i \in 1 .. n
      PROVE  /\ item'[s[i]].next = IF i = n THEN Nil ELSE item[s[i]].next
             /\ item'[s[i]].prev = item[s[i]].prev
             /\ item'[s[i]].element = item[s[i]].element
  <2>1. s[i] \in Live /\ item[s[i]] \in Item /\ Len(s) > 1
    BY <1>1 DEF Typed
  <2>2. item'[s[i]] = IF i = n THEN [item[s[i]] EXCEPT !.next = Nil] ELSE item[s[i]]
    BY <1>1, <1>5, <2>1 DEF LastCut
  <2> QED
    BY <2>1, <2>2 DEF Item
<1>7. ASSUME NEW i \in 1 .. Len(t)
      PROVE  /\ item'[t[i]].next = IF i < Len(t) THEN t[i + 1] ELSE Nil
             /\ item'[t[i]].prev = IF i > 1 THEN t[i - 1] ELSE Nil
  <2>1. i \in 1 .. n /\ i \in 1 .. Len(s) /\ i < Len(s) /\ t[i] = s[i]
    BY <1>1, <1>2
  <2>2. /\ item[s[i]].next = s[i + 1]
        /\ item[s[i]].prev = IF i > 1 THEN s[i - 1] ELSE Nil
    BY <2>1 DEF Linked
  <2>3. i < Len(t) => t[i + 1] = s[i + 1]
    BY <1>1, <1>2, <2>1
  <2>4. i > 1 => t[i - 1] = s[i - 1]
    BY <1>1, <1>2, <2>1
  <2> QED
    BY <1>2, <1>6, <2>1, <2>2, <2>3, <2>4
<1>8. Linked(t)'
  <2>1. /\ Len(t) = size'
        /\ begin' = (IF t = <<>> THEN Nil ELSE t[1]) /\ end' = (IF t = <<>> THEN Nil ELSE t[Len(t)])
    BY <1>1, <1>2, <1>3
  <2>2. t \in Seq(DOMAIN item')
    BY <1>2
  <2> QED
    BY <1>4, <1>7, <2>1, <2>2 DEF Linked, Live
<1>9. Elems(t)' = SubSeq(Elems(s), 1, Len(Elems(s)) - 1)
  <2>1. Elems(s) \in Seq(Elements) /\ Len(Elems(s)) = Len(s)
    BY <1>1, ElemsFacts
  <2>2. SubSeq(Elems(s), 1, n) = [i \in 1 .. n |-> item[s[i]].element]
    BY <1>1, <2>1 DEF Elems
  <2>3. Elems(t)' = [i \in 1 .. n |-> item'[t[i]].element]
    BY <1>2 DEF Elems
  <2>4. \A i \in 1 .. n : item'[t[i]].element = item[s[i]].element
    BY <1>2, <1>6
  <2> QED
    BY <2>1, <2>2, <2>3, <2>4
<1> QED
  BY <1>2, <1>8, <1>9

(* The first item goes.                                                    *)
FirstCut(s) ==
  \A x \in Live : item'[x] = IF Len(s) > 1 /\ x = s[2] THEN [item[x] EXCEPT !.prev = Nil] ELSE item[x]

LEMMA FirstUnlinked ==
  ASSUME Typed, NEW s \in Seq(Urids), Linked(s), s # <<>>,
         NEW t, t = Tail(s),
         DOMAIN item' = Live,
         FirstCut(s),
         begin' = IF Len(s) > 1 THEN s[2] ELSE Nil,
         end' = IF Len(s) > 1 THEN end ELSE Nil,
         size' = size - 1
  PROVE  t \in Seq(Urids) /\ Linked(t)' /\ Elems(t)' = Tail(Elems(s))
<1>1. /\ s \in Seq(Live) /\ Distinct(s) /\ Len(s) \in Nat /\ Len(s) = size /\ Len(s) > 0
      /\ begin = s[1] /\ end = s[Len(s)]
      /\ \A i \in 1 .. Len(s) : s[i] \in Live /\ s[i] \in Urids
  BY LinkedFacts
<1> DEFINE n == Len(s) - 1
<1>2. /\ t \in Seq(Live) /\ t \in Seq(Urids) /\ Len(t) = n /\ n \in Nat
      /\ \A i \in 1 .. n : t[i] = s[i + 1]
  BY <1>1, HeadTailProperties
<1>3. t = <<>> <=> Len(s) = 1
  BY <1>1, <1>2, EmptySeq
<1>4. Distinct(t)
  <2> SUFFICES ASSUME NEW i \in 1 .. Len(t), NEW j \in 1 .. Len(t), t[i] = t[j] PROVE i = j
    BY DEF Distinct
  <2>1. i + 1 \in 1 .. Len(s) /\ j + 1 \in 1 .. Len(s) /\ s[i + 1] = s[j + 1]
    BY <1>1, <1>2
  <2>2. i + 1 = j + 1
    BY <1>1, <2>1 DEF Distinct
  <2> QED
    BY <2>2
<1>5. \A i \in 2 .. Len(s) : i # 2 => s[i] # s[2]
  BY <1>1 DEF Distinct
<1>6. ASSUME NEW i \in 2 .. Len(s)
      PROVE  /\ item'[s[i]].prev = IF i = 2 THEN Nil ELSE item[s[i]].prev
             /\ item'[s[i]].next = item[s[i]].next
             /\ item'[s[i]].element = item[s[i]].element
  <2>1. s[i] \in Live /\ item[s[i]] \in Item /\ Len(s) > 1
    BY <1>1 DEF Typed
  <2>2. item'[s[i]] = IF i = 2 THEN [item[s[i]] EXCEPT !.prev = Nil] ELSE item[s[i]]
    BY <1>1, <1>5, <2>1 DEF FirstCut
  <2> QED
    BY <2>1, <2>2 DEF Item
<1>7. ASSUME NEW i \in 1 .. Len(t)
      PROVE  /\ item'[t[i]].next = IF i < Len(t) THEN t[i + 1] ELSE Nil
             /\ item'[t[i]].prev = IF i > 1 THEN t[i - 1] ELSE Nil
  <2> DEFINE j == i + 1
  <2>1. i \in 1 .. n /\ j \in 2 .. Len(s) /\ j \in 1 .. Len(s) /\ t[i] = s[j]
    BY <1>1, <1>2
  <2>2. /\ item[s[j]].next = IF j < Len(s) THEN s[j + 1] ELSE Nil
        /\ item[s[j]].prev = s[j - 1]
    BY <2>1 DEF Linked
  <2>3. i < Len(t) => t[i + 1] = s[j + 1] /\ j < Len(s)
    BY <1>1, <1>2, <2>1
  <2>4. i > 1 => t[i - 1] = s[j - 1] /\ j # 2
    BY <1>1, <1>2, <2>1
  <2>5. ~(i < Len(t)) => ~(j < Len(s))
    BY <1>1, <1>2, <2>1
  <2>6. ~(i > 1) => j = 2
    BY <2>1
  <2> HIDE DEF j
  <2> QED
    BY <1>6, <2>1, <2>2, <2>3, <2>4, <2>5, <2>6
<1>8. Linked(t)'
  <2>1. /\ Len(t) = size'
        /\ begin' = (IF t = <<>> THEN Nil ELSE t[1]) /\ end' = (IF t = <<>> THEN Nil ELSE t[Len(t)])
    <3>1. CASE Len(s) = 1
      BY <1>1, <1>2, <1>3, <3>1
    <3>2. CASE Len(s) > 1
      <4>1. t[1] = s[2] /\ t[Len(t)] = s[Len(s)]
        BY <1>1, <1>2, <3>2
      <4> QED
        BY <1>1, <1>2, <1>3, <3>2, <4>1
    <3> QED
      BY <1>1, <3>1, <3>2
  <2>2. t \in Seq(DOMAIN item')
    BY <1>2
  <2> QED
    BY <1>4, <1>7, <2>1, <2>2 DEF Linked, Live
<1>9. Elems(t)' = Tail(Elems(s))
  <2>1. Elems(s) \in Seq(Elements) /\ Len(Elems(s)) = Len(s)
    BY <1>1, ElemsFacts
  <2>2. Tail(Elems(s)) = [i \in 1 .. n |-> item[s[i + 1]].element]
    <3>1. Tail(Elems(s)) = [i \in 1 .. n |-> Elems(s)[i + 1]]
      <4> HIDE DEF Elems
      <4>1. Elems(s) # <<>>
        BY <1>1, <2>1, EmptySeq
      <4>2. /\ Tail(Elems(s)) \in Seq(Elements) /\ Len(Tail(Elems(s))) = n
            /\ \A i \in 1 .. Len(Tail(Elems(s))) : Tail(Elems(s))[i] = Elems(s)[i + 1]
        BY <2>1, <4>1, HeadTailProperties
      <4>3. Tail(Elems(s)) = [i \in 1 .. n |-> Tail(Elems(s))[i]]
        BY <4>2, LenProperties
      <4> QED
        BY <4>2, <4>3
    <3>2. \A i \in 1 .. n : Elems(s)[i + 1] = item[s[i + 1]].element
      BY <1>1 DEF Elems
    <3> QED
      BY <3>1, <3>2
  <2>3. Elems(t)' = [i \in 1 .. n |-> item'[t[i]].element]
    BY <1>2 DEF Elems
  <2>4. ASSUME NEW i \in 1 .. n PROVE item'[t[i]].element = item[s[i + 1]].element
    <3>1. i + 1 \in 2 .. Len(s) /\ t[i] = s[i + 1]
      BY <1>1, <1>2
    <3> QED
      BY <1>6, <3>1
  <2> QED
    BY <2>2, <2>3, <2>4
<1> QED
  BY <1>2, <1>8, <1>9

(* The places of a sequence, counted from its end.                         *)
LEMMA Mirrored ==
  ASSUME NEW n \in Nat, NEW i \in 1 .. n, NEW j, j = n + 1 - i
  PROVE  /\ j \in 1 .. n
         /\ (i < n <=> j > 1) /\ (i > 1 <=> j < n)
         /\ i < n => i + 1 \in 1 .. n /\ n + 1 - (i + 1) = j - 1
         /\ i > 1 => i - 1 \in 1 .. n /\ n + 1 - (i - 1) = j + 1
OBVIOUS

(* All links of the list are turned round.                                 *)
Turned(s) ==
  \A i \in 1 .. Len(s) : item'[s[i]] = [item[s[i]] EXCEPT !.prev = item[s[i]].next, !.next = item[s[i]].prev]

LEMMA TurnedRound ==
  ASSUME Typed, NEW s \in Seq(Urids), Linked(s),
         NEW t, t = Reversed(s),
         DOMAIN item' = Live,
         Turned(s),
         begin' = end, end' = begin, size' = size
  PROVE  t \in Seq(Urids) /\ Linked(t)' /\ Elems(t)' = [i \in 1 .. Len(s) |-> Elems(s)[Len(s) + 1 - i]]
<1>1. /\ s \in Seq(Live) /\ Distinct(s) /\ Len(s) \in Nat /\ Len(s) = size
      /\ (s = <<>> <=> Len(s) = 0) /\ (s = <<>> <=> begin = Nil) /\ (s = <<>> <=> end = Nil)
      /\ s # <<>> => begin = s[1] /\ end = s[Len(s)]
      /\ \A i \in 1 .. Len(s) : s[i] \in Live
  BY LinkedFacts
<1>2. /\ t \in Seq(Live) /\ t \in Seq(Urids) /\ Len(t) = Len(s) /\ Distinct(t)
      /\ \A i \in 1 .. Len(s) : t[i] = s[Len(s) + 1 - i]
  BY <1>1, ReversedFacts
<1>3. t = <<>> <=> Len(s) = 0
  BY <1>1, <1>2, EmptySeq
<1>4. ASSUME NEW i \in 1 .. Len(s)
      PROVE  /\ item'[s[i]].prev = item[s[i]].next
             /\ item'[s[i]].next = item[s[i]].prev
             /\ item'[s[i]].element = item[s[i]].element
  <2>1. item[s[i]] \in Item
    BY <1>1 DEF Typed
  <2>2. item'[s[i]] = [item[s[i]] EXCEPT !.prev = item[s[i]].next, !.next = item[s[i]].prev]
    BY DEF Turned
  <2> QED
    BY <2>1, <2>2 DEF Item
<1>5. ASSUME NEW i \in 1 .. Len(t)
      PROVE  /\ item'[t[i]].next = IF i < Len(t) THEN t[i + 1] ELSE Nil
             /\ item'[t[i]].prev = IF i > 1 THEN t[i - 1] ELSE Nil
  <2>0. PICK j : j = Len(s) + 1 - i
    OBVIOUS
  <2>1. i \in 1 .. Len(s)
    BY <1>2
  <2>2. /\ j \in 1 .. Len(s)
        /\ (i < Len(s) <=> j > 1) /\ (i > 1 <=> j < Len(s))
        /\ i < Len(s) => i + 1 \in 1 .. Len(s) /\ Len(s) + 1 - (i + 1) = j - 1
        /\ i > 1 => i - 1 \in 1 .. Len(s) /\ Len(s) + 1 - (i - 1) = j + 1
    BY <1>1, <2>0, <2>1, Mirrored
  <2>3. /\ t[i] = s[j]
        /\ i < Len(s) => t[i + 1] = s[j - 1]
        /\ i > 1 => t[i - 1] = s[j + 1]
    BY <1>2, <2>0, <2>1, <2>2
  <2>4. /\ item[s[j]].next = IF j < Len(s) THEN s[j + 1] ELSE Nil
        /\ item[s[j]].prev = IF j > 1 THEN s[j - 1] ELSE Nil
    BY <2>2 DEF Linked
  <2>5. item'[t[i]].prev = item[s[j]].next /\ item'[t[i]].next = item[s[j]].prev
    BY <1>4, <2>2, <2>3
  <2> QED
    BY <1>2, <2>2, <2>3, <2>4, <2>5
<1>6. Linked(t)'
  <2>1. /\ Len(t) = size'
        /\ begin' = (IF t = <<>> THEN Nil ELSE t[1]) /\ end' = (IF t = <<>> THEN Nil ELSE t[Len(t)])
    <3>1. CASE s = <<>>
      BY <1>1, <1>2, <1>3, <3>1
    <3>2. CASE s # <<>>
      <4>1. 1 \in 1 .. Len(s) /\ Len(s) \in 1 .. Len(s) /\ Len(s) + 1 - 1 = Len(s) /\ Len(s) + 1 - Len(s) = 1
        BY <1>1, <3>2
      <4>2. t[1] = s[Len(s)] /\ t[Len(t)] = s[1]
        BY <1>2, <4>1
      <4> QED
        BY <1>1, <1>2, <1>3, <3>2, <4>2
    <3> QED
      BY <3>1, <3>2
  <2>2. t \in Seq(DOMAIN item')
    BY <1>2
  <2> QED
    BY <1>2, <1>5, <2>1, <2>2 DEF Linked, Live
<1>7. Elems(t)' = [i \in 1 .. Len(s) |-> Elems(s)[Len(s) + 1 - i]]
  <2>1. Elems(t)' = [i \in 1 .. Len(s) |-> item'[t[i]].element]
    BY <1>2 DEF Elems
  <2>2. ASSUME NEW i \in 1 .. Len(s) PROVE item'[t[i]].element = Elems(s)[Len(s) + 1 - i]
    <3>1. Len(s) + 1 - i \in 1 .. Len(s)
      BY <1>1, Mirrored
    <3>2. t[i] = s[Len(s) + 1 - i]
      BY <1>2
    <3> QED
      BY <1>4, <3>1, <3>2 DEF Elems
  <2> QED
    BY <2>1, <2>2
<1> QED
  BY <1>2, <1>6, <1>7

(* Links stay, whatever becomes of elements and of items outside the list. *)
LEMMA LinksStay ==
  ASSUME Typed, NEW s \in Seq(Urids), Linked(s),
         \A i \in 1 .. Len(s) :
           s[i] \in DOMAIN item' /\ item'[s[i]].next = item[s[i]].next /\ item'[s[i]].prev = item[s[i]].prev,
         begin' = begin, end' = end, size' = size
  PROVE  Linked(s)'
<1>1. s \in Seq(DOMAIN item')
  <2>1. s = [i \in 1 .. Len(s) |-> s[i]] /\ Len(s) \in Nat
    BY LenProperties
  <2> QED
    BY <2>1, IsASeq
<1> QED
  BY <1>1 DEF Linked, Live

LEMMA ContentsNow ==
  ASSUME Typed, NEW s \in Seq(Urids), Linked(s)
  PROVE  Contents = Elems(s)
BY LinkedIsSeen DEF Seen

LEMMA ContentsThen ==
  ASSUME Typed', NEW t \in Seq(Urids), Linked(t)'
  PROVE  Contents' = Elems(t)'
BY SeenThen DEF Seen

(* Links and elements both stay.                                           *)
LEMMA ListStays ==
  ASSUME Typed, Typed', NEW s \in Seq(Urids), Linked(s),
         \A i \in 1 .. Len(s) : s[i] \in DOMAIN item' /\ item'[s[i]] = item[s[i]],
         begin' = begin, end' = end, size' = size
  PROVE  Linked(s)' /\ Contents' = Contents
<1>1. Linked(s)'
  BY LinksStay
<1>2. Elems(s)' = Elems(s)
  BY DEF Elems
<1> QED
  BY <1>1, <1>2, ContentsNow, ContentsThen

(* A step that the abstract array takes or does not see.                   *)
Moves == Typed' /\ (\E t \in Seq(Urids) : Linked(t)') /\ [Abstract!Access]_(Abstract!vars)

LEMMA NewItemFacts ==
  ASSUME Typed, NEW u \in Urids \ Live, NEW e \in Elements
  PROVE  /\ DOMAIN NewItem(u, e) = Live \cup {u}
         /\ NewItem(u, e)[u] = [prev |-> Nil, next |-> Nil, element |-> e]
         /\ \A x \in Live : NewItem(u, e)[x] = item[x]
         /\ NewItem(u, e) \in [Live \cup {u} -> Item]
<1>1. [prev |-> Nil, next |-> Nil, element |-> e] \in Item
  BY DEF Item, OrNil
<1>2. \A x \in Live : item[x] \in Item
  BY DEF Typed
<1> QED
  BY <1>1, <1>2 DEF NewItem

(* A new item, whatever else is new, is put behind the last one.           *)
LEMMA PutLast ==
  ASSUME Typed, NEW s \in Seq(Urids), Linked(s),
         NEW D \in SUBSET Urids, Live \subseteq D, NEW u \in D \ Live, NEW e \in Elements,
         NEW new \in [D -> Item], \A x \in Live : new[x] = item[x],
         new[u] = [prev |-> Nil, next |-> Nil, element |-> e],
         item' = IF begin = Nil THEN new ELSE LinkLast(new, u),
         begin' = IF begin = Nil THEN u ELSE begin, end' = u, size' = size + 1, reply' = Undefined
  PROVE  Typed' /\ (\E t \in Seq(Urids) : Linked(t)') /\ Contents' = Append(Contents, e)
<1>1. /\ DOMAIN item' = D /\ item' \in [D -> Item]
      /\ \A x \in Live : item'[x] = IF begin # Nil /\ x = end THEN [item[x] EXCEPT !.next = u] ELSE item[x]
      /\ item'[u] = [prev |-> IF begin = Nil THEN Nil ELSE end, next |-> Nil, element |-> e]
  <2>1. CASE begin = Nil
    BY <2>1
  <2>2. CASE begin # Nil
    <3>1. end \in D /\ end # u /\ end \in OrNil /\ u \in OrNil
      BY <2>2, LinkedFacts DEF OrNil
    <3>2. item' = [new EXCEPT ![end] = [new[end] EXCEPT !.next = u], ![u] = [new[u] EXCEPT !.prev = end]]
      BY <2>2, <3>1 DEF LinkLast
    <3>3. [new[end] EXCEPT !.next = u] \in Item
      BY <3>1 DEF Item
    <3>4. [new[u] EXCEPT !.prev = end] = [prev |-> end, next |-> Nil, element |-> e]
      BY <3>1
    <3>5. [prev |-> end, next |-> Nil, element |-> e] \in Item
      BY <3>1 DEF Item, OrNil
    <3> QED
      BY <2>2, <3>1, <3>2, <3>3, <3>4, <3>5
  <2> QED
    BY <2>1, <2>2
<1>2. Typed'
  BY <1>1 DEF Typed, Live
<1>3. PICK t : t = Append(s, u)
  OBVIOUS
<1>4. t \in Seq(Urids) /\ Linked(t)' /\ Elems(t)' = Append(Elems(s), e)
  <2>1. Live \cup {u} \subseteq DOMAIN item'
    BY <1>1
  <2>2. u \in Urids \ Live
    OBVIOUS
  <2> QED
    BY <1>1, <1>3, <2>1, <2>2, LastLinked
<1> QED
  BY <1>2, <1>4, ContentsNow, ContentsThen

LEMMA PushMoves ==
  ASSUME Typed, NEW s \in Seq(Urids), Linked(s), NEW u \in Urids, NEW e \in Elements, Push(u, e)
  PROVE  Moves
<1>1. PICK D, new : D = Live \cup {u} /\ new = NewItem(u, e)
  OBVIOUS
<1>2. /\ u \in Urids \ Live /\ end' = u /\ size' = size + 1 /\ reply' = Undefined
      /\ begin' = (IF begin = Nil THEN u ELSE begin)
      /\ item' = (IF begin = Nil THEN new ELSE LinkLast(new, u))
  BY <1>1 DEF Push, Append1, Reply
<1>3. /\ DOMAIN new = Live \cup {u} /\ new[u] = [prev |-> Nil, next |-> Nil, element |-> e]
      /\ \A x \in Live : new[x] = item[x]
      /\ new \in [Live \cup {u} -> Item]
  <2>1. u \in Urids \ Live
    BY <1>2
  <2>2. /\ DOMAIN NewItem(u, e) = Live \cup {u}
        /\ NewItem(u, e)[u] = [prev |-> Nil, next |-> Nil, element |-> e]
        /\ \A x \in Live : NewItem(u, e)[x] = item[x]
        /\ NewItem(u, e) \in [Live \cup {u} -> Item]
    BY <2>1, NewItemFacts
  <2> QED
    BY <1>1, <2>2
<1>4. D \in SUBSET Urids /\ Live \subseteq D /\ u \in D \ Live /\ new \in [D -> Item]
  BY <1>1, <1>2, <1>3 DEF Typed
<1>5. Typed' /\ (\E t \in Seq(Urids) : Linked(t)') /\ Contents' = Append(Contents, e)
  BY <1>2, <1>3, <1>4, PutLast
<1> QED
  BY <1>2, <1>5 DEF Moves, Abstract!Access, Abstract!Push

LEMMA ArrPushMoves ==
  ASSUME Typed, NEW s \in Seq(Urids), Linked(s),
         NEW spare \in Urids, NEW u \in Urids, NEW e \in Elements, ArrPush(spare, u, e)
  PROVE  Moves
<1>1. PICK D, new : /\ D = Live \cup {u, spare}
                    /\ new = [x \in Live \cup {u, spare} |->
                               IF x \in Live THEN item[x] ELSE [prev |-> Nil, next |-> Nil, element |-> e]]
  OBVIOUS
<1>2. /\ u \in Urids \ Live /\ spare \in Urids \ Live
      /\ end' = u /\ size' = size + 1 /\ reply' = Undefined
      /\ begin' = (IF begin = Nil THEN u ELSE begin)
      /\ item' = (IF begin = Nil THEN new ELSE LinkLast(new, u))
  BY <1>1 DEF ArrPush, Reply
<1>3. D \in SUBSET Urids /\ Live \subseteq D /\ u \in D \ Live
  BY <1>1, <1>2 DEF Typed
<1>4. /\ new[u] = [prev |-> Nil, next |-> Nil, element |-> e]
      /\ \A x \in Live : new[x] = item[x]
      /\ new \in [D -> Item]
  BY <1>1, <1>2, <1>3 DEF Typed, Item, OrNil
<1>5. Typed' /\ (\E t \in Seq(Urids) : Linked(t)') /\ Contents' = Append(Contents, e)
  BY <1>2, <1>3, <1>4, PutLast
<1> QED
  BY <1>2, <1>5 DEF Moves, Abstract!Access, Abstract!Push

LEMMA ArrPushLostMoves ==
  ASSUME Typed, NEW s \in Seq(Urids), Linked(s), NEW spare \in Urids, NEW e \in Elements, ArrPushLost(spare, e)
  PROVE  Moves
<1>1. PICK new : new = NewItem(spare, e)
  OBVIOUS
<1>2. spare \in Urids \ Live /\ item' = new /\ reply' = Undefined
      /\ begin' = begin /\ end' = end /\ size' = size
  BY <1>1 DEF ArrPushLost, Reply
<1>3. /\ DOMAIN item' = Live \cup {spare} /\ item' \in [Live \cup {spare} -> Item]
      /\ \A x \in Live : item'[x] = item[x]
  <2>1. /\ DOMAIN new = Live \cup {spare} /\ new \in [Live \cup {spare} -> Item]
        /\ \A x \in Live : new[x] = item[x]
    <3>1. spare \in Urids \ Live
      BY <1>2
    <3>2. /\ DOMAIN NewItem(spare, e) = Live \cup {spare}
          /\ NewItem(spare, e)[spare] = [prev |-> Nil, next |-> Nil, element |-> e]
          /\ \A x \in Live : NewItem(spare, e)[x] = item[x]
          /\ NewItem(spare, e) \in [Live \cup {spare} -> Item]
      BY <3>1, NewItemFacts
    <3> QED
      BY <1>1, <3>2
  <2> QED
    BY <1>2, <2>1
<1>4. Typed'
  BY <1>2, <1>3 DEF Typed, Live
<1>5. \A i \in 1 .. Len(s) : s[i] \in DOMAIN item' /\ item'[s[i]] = item[s[i]]
  BY <1>3, LinkedFacts
<1>6. Linked(s)' /\ Contents' = Contents
  BY <1>2, <1>4, <1>5, ListStays
<1> QED
  BY <1>2, <1>4, <1>6 DEF Moves, Abstract!Access, Abstract!Lost

LEMMA UnshiftMoves ==
  ASSUME Typed, NEW s \in Seq(Urids), Linked(s), NEW u \in Urids, NEW e \in Elements, Unshift(u, e)
  PROVE  Moves
<1>1. PICK D, new : D = Live \cup {u} /\ new = NewItem(u, e)
  OBVIOUS
<1>2. u \in Urids \ Live /\ begin' = u /\ size' = size + 1 /\ reply' = Undefined
      /\ end' = (IF begin = Nil THEN u ELSE end)
      /\ item' = (IF begin = Nil THEN new ELSE [new EXCEPT ![begin].prev = u, ![u].next = begin])
  BY <1>1 DEF Unshift, Reply
<1>3. /\ DOMAIN new = D /\ new[u] = [prev |-> Nil, next |-> Nil, element |-> e]
      /\ \A x \in Live : new[x] = item[x]
      /\ new \in [D -> Item]
  <2>1. u \in Urids \ Live
    BY <1>2
  <2>2. /\ DOMAIN NewItem(u, e) = Live \cup {u}
        /\ NewItem(u, e)[u] = [prev |-> Nil, next |-> Nil, element |-> e]
        /\ \A x \in Live : NewItem(u, e)[x] = item[x]
        /\ NewItem(u, e) \in [Live \cup {u} -> Item]
    BY <2>1, NewItemFacts
  <2> QED
    BY <1>1, <2>2
<1>4. D \in SUBSET Urids /\ Live \subseteq D /\ u \in D \ Live
  BY <1>1, <1>2 DEF Typed
<1>5. /\ DOMAIN item' = D /\ item' \in [D -> Item]
      /\ \A x \in Live : item'[x] = IF begin # Nil /\ x = begin THEN [item[x] EXCEPT !.prev = u] ELSE item[x]
      /\ item'[u] = [prev |-> Nil, next |-> begin, element |-> e]
  <2>1. CASE begin = Nil
    BY <1>2, <1>3, <2>1
  <2>2. CASE begin # Nil
    <3>1. begin \in D /\ begin # u /\ begin \in OrNil /\ u \in OrNil
      BY <1>4, <2>2, LinkedFacts DEF OrNil
    <3>2. item' = [new EXCEPT ![begin] = [new[begin] EXCEPT !.prev = u], ![u] = [new[u] EXCEPT !.next = begin]]
      BY <1>2, <1>3, <2>2, <3>1
    <3>3. [new[begin] EXCEPT !.prev = u] \in Item
      BY <1>3, <3>1 DEF Item
    <3>4. [new[u] EXCEPT !.next = begin] = [prev |-> Nil, next |-> begin, element |-> e]
      BY <1>3
    <3>5. [prev |-> Nil, next |-> begin, element |-> e] \in Item
      BY <3>1 DEF Item, OrNil
    <3> QED
      BY <1>3, <1>4, <2>2, <3>1, <3>2, <3>3, <3>4, <3>5
  <2> QED
    BY <2>1, <2>2
<1>6. Typed'
  BY <1>2, <1>4, <1>5 DEF Typed, Live
<1>7. PICK t : t = <<u>> \o s
  OBVIOUS
<1>8. t \in Seq(Urids) /\ Linked(t)' /\ Elems(t)' = <<e>> \o Elems(s)
  <2>1. u \in Urids \ Live /\ DOMAIN item' = Live \cup {u}
    BY <1>1, <1>2, <1>5
  <2> QED
    BY <1>2, <1>5, <1>7, <2>1, FirstLinked
<1>9. Contents' = <<e>> \o Contents
  BY <1>6, <1>8, ContentsNow, ContentsThen
<1> QED
  BY <1>2, <1>6, <1>8, <1>9 DEF Moves, Abstract!Access, Abstract!Unshift

LEMMA PopMoves ==
  ASSUME Typed, NEW s \in Seq(Urids), Linked(s), Pop
  PROVE  Moves
<1>1. /\ Len(s) \in Nat /\ Len(s) = size /\ (s = <<>> <=> Len(s) = 0)
      /\ s \in Seq(Live)
      /\ s # <<>> => begin = s[1] /\ end = s[Len(s)] /\ begin \in Live /\ end \in Live
      /\ \A i \in 1 .. Len(s) : s[i] \in Live /\ s[i] # Nil
  BY LinkedFacts
<1>2. size # 0 /\ size' = size - 1 /\ reply' = item[end].element
  BY DEF Pop, Reply
<1>3. s # <<>> /\ Len(s) \in 1 .. Len(s)
  BY <1>1, <1>2
<1>4. item[end].prev = IF Len(s) > 1 THEN s[Len(s) - 1] ELSE Nil
  BY <1>1, <1>3 DEF Linked
<1>5. Len(s) > 1 => s[Len(s) - 1] \in Live /\ s[Len(s) - 1] # Nil
  BY <1>1
<1>6. /\ DOMAIN item' = Live /\ item' \in [Live -> Item] /\ LastCut(s)
      /\ begin' = IF Len(s) > 1 THEN begin ELSE Nil
      /\ end' = IF Len(s) > 1 THEN s[Len(s) - 1] ELSE Nil
  <2>1. CASE Len(s) > 1
    <3>1. begin' = begin /\ end' = s[Len(s) - 1] /\ item' = [item EXCEPT ![s[Len(s) - 1]].next = Nil]
      BY <1>4, <1>5, <2>1 DEF Pop
    <3>2. [item[s[Len(s) - 1]] EXCEPT !.next = Nil] \in Item
      BY <1>5, <2>1 DEF Typed, Item, OrNil
    <3> QED
      BY <1>5, <2>1, <3>1, <3>2 DEF LastCut, Typed
  <2>2. CASE ~(Len(s) > 1)
    BY <1>4, <2>2 DEF Pop, LastCut, Typed
  <2> QED
    BY <2>1, <2>2
<1>7. item[end].element \in Elements
  BY <1>1, <1>3 DEF Typed, Item
<1>8. Typed'
  BY <1>2, <1>6, <1>7 DEF Typed, Live
<1>9. PICK t : t = SubSeq(s, 1, Len(s) - 1)
  OBVIOUS
<1>10. t \in Seq(Urids) /\ Linked(t)' /\ Elems(t)' = SubSeq(Elems(s), 1, Len(Elems(s)) - 1)
  BY <1>2, <1>3, <1>6, <1>9, LastUnlinked
<1>11. Contents = Elems(s) /\ Contents' = SubSeq(Contents, 1, Len(Contents) - 1)
  BY <1>8, <1>10, ContentsNow, ContentsThen
<1>12. Contents # <<>> /\ Contents[Len(Contents)] = item[end].element
  <2>1. Elems(s) \in Seq(Elements) /\ Len(Elems(s)) = Len(s)
    BY <1>1, ElemsFacts
  <2>2. Elems(s)[Len(s)] = item[s[Len(s)]].element
    BY <1>3 DEF Elems
  <2>3. Elems(s) # <<>>
    BY <1>1, <1>3, <2>1, EmptySeq
  <2> QED
    BY <1>1, <1>3, <1>11, <2>1, <2>2, <2>3
<1> QED
  BY <1>2, <1>8, <1>10, <1>11, <1>12 DEF Moves, Abstract!Access, Abstract!Pop

LEMMA ShiftMoves ==
  ASSUME Typed, NEW s \in Seq(Urids), Linked(s), Shift
  PROVE  Moves
<1>1. /\ Len(s) \in Nat /\ Len(s) = size /\ (s = <<>> <=> Len(s) = 0)
      /\ s \in Seq(Live)
      /\ s # <<>> => begin = s[1] /\ end = s[Len(s)] /\ begin \in Live /\ end \in Live
      /\ \A i \in 1 .. Len(s) : s[i] \in Live /\ s[i] # Nil
  BY LinkedFacts
<1>2. size # 0 /\ size' = size - 1 /\ reply' = item[begin].element
  BY DEF Shift, Reply
<1>3. s # <<>> /\ 1 \in 1 .. Len(s)
  BY <1>1, <1>2
<1>4. item[begin].next = IF Len(s) > 1 THEN s[2] ELSE Nil
  BY <1>1, <1>3 DEF Linked
<1>5. Len(s) > 1 => s[2] \in Live /\ s[2] # Nil
  BY <1>1
<1>6. /\ DOMAIN item' = Live /\ item' \in [Live -> Item] /\ FirstCut(s)
      /\ begin' = IF Len(s) > 1 THEN s[2] ELSE Nil
      /\ end' = IF Len(s) > 1 THEN end ELSE Nil
  <2>1. CASE Len(s) > 1
    <3>1. end' = end /\ begin' = s[2] /\ item' = [item EXCEPT ![s[2]].prev = Nil]
      BY <1>4, <1>5, <2>1 DEF Shift
    <3>2. [item[s[2]] EXCEPT !.prev = Nil] \in Item
      BY <1>5, <2>1 DEF Typed, Item, OrNil
    <3> QED
      BY <1>5, <2>1, <3>1, <3>2 DEF FirstCut, Typed
  <2>2. CASE ~(Len(s) > 1)
    BY <1>4, <2>2 DEF Shift, FirstCut, Typed
  <2> QED
    BY <2>1, <2>2
<1>7. item[begin].element \in Elements
  BY <1>1, <1>3 DEF Typed, Item
<1>8. Typed'
  BY <1>2, <1>6, <1>7 DEF Typed, Live
<1>9. PICK t : t = Tail(s)
  OBVIOUS
<1>10. t \in Seq(Urids) /\ Linked(t)' /\ Elems(t)' = Tail(Elems(s))
  BY <1>2, <1>3, <1>6, <1>9, FirstUnlinked
<1>11. Contents = Elems(s) /\ Contents' = Tail(Contents)
  BY <1>8, <1>10, ContentsNow, ContentsThen
<1>12. Contents # <<>> /\ Head(Contents) = item[begin].element
  <2>1. Elems(s) \in Seq(Elements) /\ Len(Elems(s)) = Len(s)
    BY <1>1, ElemsFacts
  <2>2. Elems(s)[1] = item[s[1]].element
    BY <1>3 DEF Elems
  <2>3. Elems(s) # <<>>
    BY <1>1, <1>3, <2>1, EmptySeq
  <2> HIDE DEF Elems
  <2>4. Head(Elems(s)) = Elems(s)[1]
    BY <2>1, <2>3, HeadTailProperties
  <2> QED
    BY <1>1, <1>3, <1>11, <2>2, <2>3, <2>4
<1> QED
  BY <1>2, <1>8, <1>10, <1>11, <1>12 DEF Moves, Abstract!Access, Abstract!Shift

LEMMA ReverseMoves ==
  ASSUME Typed, NEW s \in Seq(Urids), Linked(s), Reverse
  PROVE  Moves
<1>1. begin' = end /\ end' = begin /\ size' = size /\ reply' = Undefined
  BY DEF Reverse, Reply
<1>2. /\ Len(s) \in Nat /\ s \in Seq(Live)
      /\ \A i \in 1 .. Len(s) : s[i] \in Live
      /\ ChainOf(begin, "next") = s
  BY LinkedFacts, LinkedIsSeen DEF Seen
<1>3. PICK chain : chain = {s[i] : i \in 1 .. Len(s)}
  OBVIOUS
<1>4. item' = [u \in Live |-> IF u \in chain
                              THEN [item[u] EXCEPT !.prev = item[u].next, !.next = item[u].prev]
                              ELSE item[u]]
  BY <1>2, <1>3 DEF Reverse
<1>5. \A u \in Live : [item[u] EXCEPT !.prev = item[u].next, !.next = item[u].prev] \in Item
  BY DEF Typed, Item
<1>6. DOMAIN item' = Live /\ item' \in [Live -> Item]
  BY <1>4, <1>5 DEF Typed
<1>7. Turned(s)
  BY <1>2, <1>3, <1>4 DEF Turned
<1>8. Typed'
  BY <1>1, <1>6 DEF Typed, Live
<1>9. PICK t : t = Reversed(s)
  OBVIOUS
<1>10. /\ t \in Seq(Urids) /\ Linked(t)'
       /\ Elems(t)' = [i \in 1 .. Len(s) |-> Elems(s)[Len(s) + 1 - i]]
  BY <1>1, <1>6, <1>7, <1>9, TurnedRound
<1>11. Contents = Elems(s) /\ Contents' = [i \in 1 .. Len(Contents) |-> Contents[Len(Contents) + 1 - i]]
  <2>1. Len(Elems(s)) = Len(s)
    BY <1>2, ElemsFacts
  <2> QED
    BY <1>8, <1>10, <2>1, ContentsNow, ContentsThen
<1> QED
  BY <1>1, <1>8, <1>10, <1>11 DEF Moves, Abstract!Access, Abstract!Reverse

(* What the program sees of the array when nothing in memory changes.      *)
LEMMA NothingChanges ==
  ASSUME Typed, NEW s \in Seq(Urids), Linked(s), UNCHANGED <<begin, end, size, item>>,
         reply' \in Elements \cup {Undefined, Failed} \cup Nat
  PROVE  Typed' /\ (\E t \in Seq(Urids) : Linked(t)') /\ Contents' = Contents
<1>1. Typed'
  BY DEF Typed, Live
<1>2. \A i \in 1 .. Len(s) : s[i] \in DOMAIN item' /\ item'[s[i]] = item[s[i]]
  BY LinkedFacts DEF Live
<1> QED
  BY <1>1, <1>2, ListStays

LEMMA ContentsFacts ==
  ASSUME Typed, NEW s \in Seq(Urids), Linked(s)
  PROVE  /\ Contents = Elems(s) /\ Len(Contents) = size /\ size \in Nat
         /\ Contents \in Seq(Elements)
         /\ \A i \in Int : Outside(i) <=> ~Abstract!IsIndex(i)
         /\ \A i \in Int : ~Outside(i) => /\ i + 1 \in 1 .. Len(s) /\ i \in Nat
                                          /\ Along(begin, "next")[i] = s[i + 1]
                                          /\ Contents[i + 1] = item[s[i + 1]].element
<1>1. s \in Seq(Live) /\ Len(s) \in Nat /\ Len(s) = size
  BY LinkedFacts
<1>2. Contents = Elems(s) /\ Elems(s) \in Seq(Elements) /\ Len(Elems(s)) = Len(s)
  BY <1>1, ContentsNow, ElemsFacts
<1>3. \A i \in Int : Outside(i) <=> ~Abstract!IsIndex(i)
  BY <1>1, <1>2 DEF Outside, Abstract!IsIndex
<1>4. ASSUME NEW i \in Int, ~Outside(i)
      PROVE  /\ i + 1 \in 1 .. Len(s) /\ i \in Nat
             /\ Along(begin, "next")[i] = s[i + 1]
             /\ Contents[i + 1] = item[s[i + 1]].element
  <2>1. i \in Nat /\ i < Len(s) /\ i + 1 \in 1 .. Len(s)
    BY <1>1, <1>4 DEF Outside
  <2>2. Along(begin, "next")[i] = s[i + 1]
    BY <2>1, LinkedIsSeen DEF Seen
  <2>3. Elems(s)[i + 1] = item[s[i + 1]].element
    BY <2>1 DEF Elems
  <2> QED
    BY <1>2, <2>1, <2>2, <2>3
<1> QED
  BY <1>1, <1>2, <1>3, <1>4

LEMMA GetByIdxMoves ==
  ASSUME Typed, NEW s \in Seq(Urids), Linked(s), NEW i \in Indices, GetByIdx(i)
  PROVE  Moves
<1>1. /\ UNCHANGED <<begin, end, size, item>>
      /\ reply' = IF Outside(i) THEN Undefined ELSE item[Along(begin, "next")[i]].element
  BY DEF GetByIdx, Reply
<1>2. i \in Int
  BY ListAssumption DEF Indices
<1>3. reply' = IF Abstract!IsIndex(i) THEN Contents[i + 1] ELSE Undefined
  BY <1>1, <1>2, ContentsFacts
<1>4. reply' \in Elements \cup {Undefined, Failed} \cup Nat
  <2>1. CASE Outside(i)
    BY <1>1, <2>1
  <2>2. CASE ~Outside(i)
    <3>1. Contents \in Seq(Elements) /\ i + 1 \in 1 .. Len(Contents)
      BY <1>2, <2>2, ContentsFacts, LinkedFacts
    <3> QED
      BY <1>2, <1>3, <2>2, <3>1, ContentsFacts, ElementOfSeq
  <2> QED
    BY <2>1, <2>2
<1>5. Typed' /\ (\E t \in Seq(Urids) : Linked(t)') /\ Contents' = Contents
  BY <1>1, <1>4, NothingChanges
<1>6. Abstract!Get(i)
  BY <1>3, <1>5 DEF Abstract!Get
<1> QED
  BY <1>5, <1>6 DEF Moves, Abstract!Access

LEMMA SetByIdxMoves ==
  ASSUME Typed, NEW s \in Seq(Urids), Linked(s), NEW i \in Indices, NEW e \in Elements, SetByIdx(i, e)
  PROVE  Moves
<1>1. UNCHANGED <<begin, end, size>> /\ i \in Int
  BY ListAssumption DEF SetByIdx, Indices
<1>2. CASE Outside(i)
  <2>1. item' = item /\ reply' = Undefined
    BY <1>2 DEF SetByIdx, Reply
  <2>2. Typed' /\ (\E t \in Seq(Urids) : Linked(t)') /\ Contents' = Contents
    BY <1>1, <2>1, NothingChanges
  <2>3. Abstract!Set(i, e)
    BY <1>1, <1>2, <2>1, <2>2, ContentsFacts DEF Abstract!Set
  <2> QED
    BY <2>2, <2>3 DEF Moves, Abstract!Access
<1>3. CASE ~Outside(i)
  <2>1. PICK u : u = s[i + 1]
    OBVIOUS
  <2>2. i + 1 \in 1 .. Len(s) /\ Along(begin, "next")[i] = u /\ Abstract!IsIndex(i)
    BY <1>1, <1>3, <2>1, ContentsFacts
  <2>3. /\ s \in Seq(Live) /\ Distinct(s) /\ Len(s) \in Nat /\ u \in Live
        /\ \A j \in 1 .. Len(s) : s[j] \in Live
    BY <2>1, <2>2, LinkedFacts
  <2>4. item' = [item EXCEPT ![u].element = e] /\ reply' = e
    BY <1>3, <2>2 DEF SetByIdx, Reply
  <2>5. /\ DOMAIN item' = Live /\ item' \in [Live -> Item]
        /\ \A x \in Live : /\ item'[x].next = item[x].next /\ item'[x].prev = item[x].prev
                           /\ item'[x].element = IF x = u THEN e ELSE item[x].element
    <3>1. \A x \in Live : item[x] \in Item
      BY DEF Typed
    <3>2. /\ [item[u] EXCEPT !.element = e] \in Item
          /\ [item[u] EXCEPT !.element = e].next = item[u].next
          /\ [item[u] EXCEPT !.element = e].prev = item[u].prev
          /\ [item[u] EXCEPT !.element = e].element = e
      BY <2>3, <3>1 DEF Item
    <3>3. item \in [Live -> Item] /\ item' = [item EXCEPT ![u] = [item[u] EXCEPT !.element = e]]
      BY <2>4 DEF Typed
    <3> HIDE <2>4
    <3> QED
      BY <2>3, <3>1, <3>2, <3>3
  <2> HIDE <2>4
  <2>6. reply' = e
    BY <2>4
  <2>7. Typed'
    BY <2>5, <2>6 DEF Typed, Live
  <2>8. Linked(s)'
    BY <1>1, <2>3, <2>5, LinksStay
  <2>9. Elems(s)' = [Elems(s) EXCEPT ![i + 1] = e]
    <3>1. \A j \in 1 .. Len(s) : s[j] = u <=> j = i + 1
      BY <2>1, <2>2, <2>3 DEF Distinct
    <3>2. \A j \in 1 .. Len(s) : item'[s[j]].element = IF j = i + 1 THEN e ELSE item[s[j]].element
      BY <2>3, <2>5, <3>1
    <3>3. Elems(s)' = [j \in 1 .. Len(s) |-> item'[s[j]].element]
      BY DEF Elems
    <3>4. [Elems(s) EXCEPT ![i + 1] = e] = [j \in 1 .. Len(s) |-> IF j = i + 1 THEN e ELSE item[s[j]].element]
      BY <2>2 DEF Elems
    <3> QED
      BY <3>2, <3>3, <3>4
  <2>10. Contents' = [Contents EXCEPT ![i + 1] = e]
    BY <2>7, <2>8, <2>9, ContentsNow, ContentsThen
  <2>11. Abstract!Set(i, e)
    BY <2>2, <2>6, <2>10 DEF Abstract!Set
  <2> QED
    BY <2>7, <2>8, <2>11 DEF Moves, Abstract!Access
<1> QED
  BY <1>2, <1>3

LEMMA CollectMoves ==
  ASSUME Typed, NEW s \in Seq(Urids), Linked(s), Collect
  PROVE  Moves
<1>1. PICK chain : chain = {s[i] : i \in 1 .. Len(s)}
  OBVIOUS
<1>2. /\ ChainOf(begin, "next") = s /\ \A i \in 1 .. Len(s) : s[i] \in Live
  BY LinkedFacts, LinkedIsSeen DEF Seen
<1>3. item' = [u \in chain |-> item[u]] /\ UNCHANGED <<begin, end, size, reply>>
  BY <1>1, <1>2 DEF Collect
<1>4. chain \subseteq Live /\ \A i \in 1 .. Len(s) : s[i] \in chain
  BY <1>1, <1>2
<1>5. DOMAIN item' = chain /\ item' \in [chain -> Item] /\ \A x \in chain : item'[x] = item[x]
  BY <1>3, <1>4 DEF Typed
<1>6. Typed'
  BY <1>3, <1>4, <1>5 DEF Typed, Live
<1>7. \A i \in 1 .. Len(s) : s[i] \in DOMAIN item' /\ item'[s[i]] = item[s[i]]
  BY <1>4, <1>5
<1>8. Linked(s)' /\ Contents' = Contents
  BY <1>3, <1>6, <1>7, ListStays
<1> QED
  BY <1>3, <1>6, <1>8 DEF Moves, Abstract!vars

LEMMA QuietMoves ==
  ASSUME Typed, NEW s \in Seq(Urids), Linked(s), Nothing \/ Size \/ NoMemory \/ UNCHANGED vars
  PROVE  Moves
<1>1. UNCHANGED <<begin, end, size, item>>
  BY DEF Nothing, Size, NoMemory, vars
<1>2. Contents = Elems(s) /\ Contents \in Seq(Elements) /\ Len(Contents) = size /\ size \in Nat
  BY ContentsFacts
<1>3. CASE Nothing
  <2>1. reply' = Undefined /\ Contents = <<>>
    BY <1>2, <1>3, EmptySeq DEF Nothing, Reply
  <2>2. Typed' /\ (\E t \in Seq(Urids) : Linked(t)') /\ Contents' = Contents
    BY <1>1, <2>1, NothingChanges
  <2> QED
    BY <2>1, <2>2 DEF Moves, Abstract!Access, Abstract!Pop
<1>4. CASE Size
  <2>1. reply' = size
    BY <1>4 DEF Size, Reply
  <2>2. Typed' /\ (\E t \in Seq(Urids) : Linked(t)') /\ Contents' = Contents
    BY <1>1, <1>2, <2>1, NothingChanges
  <2> QED
    BY <1>2, <2>1, <2>2 DEF Moves, Abstract!Access, Abstract!Size
<1>5. CASE NoMemory
  <2>1. reply' = Failed
    BY <1>5 DEF NoMemory, Reply
  <2>2. Typed' /\ (\E t \in Seq(Urids) : Linked(t)') /\ Contents' = Contents
    BY <1>1, <2>1, NothingChanges
  <2> QED
    BY <2>1, <2>2 DEF Moves, Abstract!Access, Abstract!NoMemory
<1>6. CASE UNCHANGED vars
  <2>1. reply' = reply /\ reply' \in Elements \cup {Undefined, Failed} \cup Nat
    BY <1>6 DEF vars, Typed
  <2>2. Typed' /\ (\E t \in Seq(Urids) : Linked(t)') /\ Contents' = Contents
    BY <1>1, <2>1, NothingChanges
  <2> QED
    BY <2>1, <2>2 DEF Moves, Abstract!vars
<1> QED
  BY <1>3, <1>4, <1>5, <1>6

(***************************************************************************)
(* The theorems.                                                           *)
(***************************************************************************)
LEMMA InitLinked == Init => ListInv /\ Abstract!Empty
<1> SUFFICES ASSUME Init PROVE ListInv /\ Abstract!Empty
  OBVIOUS
<1>1. Typed
  BY DEF Init, Typed, Live
<1>2. <<>> \in Seq(Urids) /\ <<>> \in Seq(Live) /\ Len(<<>>) = 0
  BY EmptySeq
<1>3. Linked(<<>>)
  BY <1>2 DEF Linked, Distinct, Init
<1>4. Contents = Elems(<<>>)
  BY <1>1, <1>2, <1>3, ContentsNow
<1>5. Elems(<<>>) \in Seq(Elements) /\ Len(Elems(<<>>)) = 0
  BY <1>1, <1>2, ElemsFacts
<1>6. Contents = <<>>
  BY <1>4, <1>5, EmptySeq
<1> QED
  BY <1>1, <1>2, <1>3, <1>6 DEF ListInv, Abstract!Empty, Init

LEMMA NextMoves == ListInv /\ [Next]_vars => Moves
<1> SUFFICES ASSUME ListInv, [Next]_vars PROVE Moves
  OBVIOUS
<1>1. PICK s \in Seq(Urids) : Linked(s)
  BY DEF ListInv
<1>2. Typed
  BY DEF ListInv
<1>3. ASSUME NEW u \in Urids, NEW e \in Elements, Push(u, e) PROVE Moves
  BY <1>1, <1>2, <1>3, PushMoves
<1>4. ASSUME NEW u \in Urids, NEW e \in Elements, Unshift(u, e) PROVE Moves
  BY <1>1, <1>2, <1>4, UnshiftMoves
<1>5. ASSUME NEW u \in Urids, NEW e \in Elements, ArrPushLost(u, e) PROVE Moves
  BY <1>1, <1>2, <1>5, ArrPushLostMoves
<1>6. ASSUME NEW spare \in Urids, NEW u \in Urids, NEW e \in Elements, ArrPush(spare, u, e) PROVE Moves
  BY <1>1, <1>2, <1>6, ArrPushMoves
<1>7. ASSUME NEW i \in Indices, GetByIdx(i) PROVE Moves
  BY <1>1, <1>2, <1>7, GetByIdxMoves
<1>8. ASSUME NEW i \in Indices, NEW e \in Elements, SetByIdx(i, e) PROVE Moves
  BY <1>1, <1>2, <1>8, SetByIdxMoves
<1>9. CASE Pop
  BY <1>1, <1>2, <1>9, PopMoves
<1>10. CASE Shift
  BY <1>1, <1>2, <1>10, ShiftMoves
<1>11. CASE Reverse
  BY <1>1, <1>2, <1>11, ReverseMoves
<1>12. CASE Collect
  BY <1>1, <1>2, <1>12, CollectMoves
<1>13. CASE Nothing \/ Size \/ NoMemory \/ UNCHANGED vars
  BY <1>1, <1>2, <1>13, QuietMoves
<1> QED
  BY <1>3, <1>4, <1>5, <1>6, <1>7, <1>8, <1>9, <1>10, <1>11, <1>12, <1>13 DEF Next

(* After any operations, with memory running out and the collector running *)
(* in between, the items of xjr_val_array are linked both ways, each item  *)
(* reachable from "begin" is in memory, and there are "size" of them.      *)
THEOREM ArraysSound == Spec => []ListSound
<1>1. Init => ListInv
  BY InitLinked
<1>2. ListInv /\ [Next]_vars => ListInv'
  BY NextMoves DEF ListInv, Moves
<1>3. ListInv => ListSound
  BY InvImpliesSound
<1> QED
  BY <1>1, <1>2, <1>3, PTL DEF Spec

(* The linked list implements the sequence the program expects: each       *)
(* operation of xjr_val.c on it is the operation on the sequence, with the *)
(* reply of that operation, and the collector is not seen.                 *)
THEOREM ArraysAreSequences == Spec => ImplementsArray
<1>1. Init => ListInv /\ Abstract!Empty
  BY InitLinked
<1>2. ListInv /\ [Next]_vars => ListInv' /\ [Abstract!Access]_(Abstract!vars)
  BY NextMoves DEF ListInv, Moves
<1> QED
  BY <1>1, <1>2, PTL DEF Spec, ImplementsArray, Abstract!ArraySpec
=============================================================================
