----------------------------- MODULE LinkerProofs ----------------------------
(***************************************************************************)
(* Proofs about the linker: only what the entry needs is linked, in order  *)
(* of loading; circles are reported exactly; and the merged program means  *)
(* what its modules did.  First the graphs and the lists, then the phases  *)
(* of the linker one by one, then the invariant that puts them together.   *)
(***************************************************************************)
EXTENDS Linker, Lemmas

(***************************************************************************)
(* Loops that end after a number of turns known before.                    *)
(***************************************************************************)

(* A recursion over the first naturals has a value for each of them.       *)
IsStepped(g, n, base, step) == g = [k \in 0 .. n |-> IF k = 0 THEN base ELSE step[<<k, g[k - 1]>>]]

LEMMA SteppedThereIs ==
  ASSUME NEW n \in Nat, NEW V, NEW base \in V, NEW step \in [(1 .. n) \X V -> V]
  PROVE  \E g \in [0 .. n -> V] : IsStepped(g, n, base, step)
<1> DEFINE Item(g, k) == IF k = 0 THEN base ELSE step[<<k, g[k - 1]>>]
           Good(g, m) == \A k \in 0 .. n : k <= m => g[k] = Item(g, k)
           S == {m \in Nat : \E g \in [0 .. n -> V] : Good(g, m)}
<1>1. 0 \in S
  <2>1. PICK g : g = [k \in 0 .. n |-> base]
    OBVIOUS
  <2>2. g \in [0 .. n -> V]
    BY <2>1
  <2>3. \A k \in 0 .. n : k <= 0 => k = 0
    OBVIOUS
  <2>4. Good(g, 0)
    BY <2>1, <2>3
  <2> HIDE DEF Good
  <2> QED
    BY <2>2, <2>4
<1>2. \A m \in Nat : m \in S => m + 1 \in S
  <2> SUFFICES ASSUME NEW m \in Nat, m \in S PROVE m + 1 \in S
    OBVIOUS
  <2>1. PICK g \in [0 .. n -> V] : Good(g, m)
    OBVIOUS
  <2>2. CASE m + 1 \in 0 .. n
    <3>1. PICK v : v = step[<<m + 1, g[m]>>]
      OBVIOUS
    <3>2. m \in 0 .. n /\ m + 1 \in 1 .. n
      BY <2>2
    <3>3. v \in V
      <4>1. <<m + 1, g[m]>> \in (1 .. n) \X V
        BY <3>2
      <4> QED
        BY <3>1, <4>1
    <3>4. PICK g2 : g2 = [g EXCEPT ![m + 1] = v]
      OBVIOUS
    <3>5. g2 \in [0 .. n -> V] /\ g2[m + 1] = v /\ \A k \in 0 .. n : k # m + 1 => g2[k] = g[k]
      BY <2>2, <3>3, <3>4
    <3>6. ASSUME NEW k \in 0 .. n, k <= m + 1 PROVE g2[k] = Item(g2, k)
      <4>1. CASE k = m + 1
        <5>1. g2[k] = step[<<k, g[k - 1]>>] /\ k # 0 /\ k - 1 = m
          BY <3>1, <3>5, <4>1
        <5>2. g2[m] = g[m]
          BY <3>2, <3>5
        <5> QED
          BY <5>1, <5>2
      <4>2. CASE k # m + 1
        <5>1. k <= m
          BY <3>6, <4>2
        <5>2. g2[k] = g[k] /\ g[k] = Item(g, k)
          BY <2>1, <3>5, <4>2, <5>1
        <5>3. k # 0 => k - 1 \in 0 .. n /\ k - 1 # m + 1
          BY <5>1
        <5>4. k # 0 => g2[k - 1] = g[k - 1]
          BY <3>5, <5>3
        <5> QED
          BY <5>2, <5>4
      <4> QED
        BY <4>1, <4>2
    <3>7. Good(g2, m + 1)
      BY <3>6
    <3> HIDE DEF Good
    <3> QED
      BY <3>5, <3>7
  <2>3. CASE m + 1 \notin 0 .. n
    <3>1. \A k \in 0 .. n : k <= m
      BY <2>3
    <3>2. Good(g, m + 1)
      BY <2>1, <3>1
    <3> HIDE DEF Good
    <3> QED
      BY <3>2
  <2> QED
    BY <2>2, <2>3
<1>3. n \in S
  <2> HIDE DEF S
  <2> QED
    BY <1>1, <1>2, NatSetInduction
<1>4. PICK g \in [0 .. n -> V] : Good(g, n)
  BY <1>3
<1>5. \A k \in 0 .. n : g[k] = Item(g, k)
  BY <1>4
<1>6. g = [k \in 0 .. n |-> g[k]]
  OBVIOUS
<1>7. IsStepped(g, n, base, step)
  BY <1>5, <1>6 DEF IsStepped
<1> QED
  BY <1>7

(***************************************************************************)
(* Sequences and the sets of their items.                                  *)
(***************************************************************************)
Everything == ToSet(Names)

LEMMA ItemsFacts ==
  ASSUME NEW T, NEW s \in Seq(T)
  PROVE  /\ Len(s) \in Nat /\ DOMAIN s = 1 .. Len(s) /\ ToSet(s) \subseteq T
         /\ \A i \in 1 .. Len(s) : s[i] \in ToSet(s)
         /\ \A x : x \in ToSet(s) <=> \E i \in 1 .. Len(s) : s[i] = x
         /\ s # <<>> <=> Len(s) > 0
         /\ s = <<>> <=> ToSet(s) = {}
<1>1. Len(s) \in Nat /\ DOMAIN s = 1 .. Len(s) /\ \A i \in 1 .. Len(s) : s[i] \in T
  BY LenProperties, ElementOfSeq
<1>2. \A x : x \in ToSet(s) <=> \E i \in 1 .. Len(s) : s[i] = x
  BY <1>1 DEF ToSet
<1>3. s = <<>> <=> Len(s) = 0
  BY EmptySeq
<1>4. s = <<>> <=> ToSet(s) = {}
  <2>1. CASE Len(s) = 0
    BY <1>1, <1>2, <1>3, <2>1
  <2>2. CASE Len(s) # 0
    <3>1. 1 \in 1 .. Len(s)
      BY <1>1, <2>2
    <3> QED
      BY <1>1, <1>2, <1>3, <2>2, <3>1
  <2> QED
    BY <2>1, <2>2
<1> QED
  BY <1>1, <1>2, <1>3, <1>4

LEMMA InItems ==
  ASSUME NEW T, NEW s \in Seq(T), NEW x
  PROVE  x \in ToSet(s) <=> \E i \in 1 .. Len(s) : s[i] = x
BY ItemsFacts

LEMMA NamesFacts ==
  /\ Names \in Seq(Everything) /\ Len(Names) \in Nat /\ DOMAIN Names = 1 .. Len(Names)
  /\ \A n \in 1 .. Len(Names) : Names[n] \in Everything
  /\ \A i, j \in 1 .. Len(Names) : Names[i] = Names[j] => i = j
  /\ \A x : x \in Everything <=> \E n \in 1 .. Len(Names) : Names[n] = x
<1>1. Names \in Seq(Everything)
  BY NamesAssumption DEF Everything
<1>2. Len(Names) \in Nat /\ DOMAIN Names = 1 .. Len(Names) /\ \A n \in 1 .. Len(Names) : Names[n] \in Everything
  BY <1>1, LenProperties, ElementOfSeq
<1>3. \A x : x \in Everything <=> \E n \in 1 .. Len(Names) : Names[n] = x
  BY <1>2 DEF Everything, ToSet
<1> QED
  BY <1>1, <1>2, <1>3, NamesAssumption DEF IsInjective

LEMMA ConcatItems ==
  ASSUME NEW T, NEW s \in Seq(T), NEW t \in Seq(T)
  PROVE  /\ s \o t \in Seq(T) /\ Len(s \o t) = Len(s) + Len(t)
         /\ ToSet(s \o t) = ToSet(s) \cup ToSet(t)
         /\ \A i \in 1 .. Len(s) : (s \o t)[i] = s[i]
         /\ \A i \in 1 .. Len(t) : (s \o t)[Len(s) + i] = t[i]
         /\ Distinct(s) /\ Distinct(t) /\ ToSet(s) \cap ToSet(t) = {} => Distinct(s \o t)
<1>1. PICK u : u = s \o t
  OBVIOUS
<1>2. /\ u \in Seq(T) /\ Len(u) = Len(s) + Len(t) /\ Len(s) \in Nat /\ Len(t) \in Nat
      /\ \A i \in 1 .. Len(s) + Len(t) : u[i] = IF i <= Len(s) THEN s[i] ELSE t[i - Len(s)]
  BY <1>1, ConcatProperties, LenProperties
<1>3. \A i \in 1 .. Len(s) : u[i] = s[i]
  BY <1>2
<1>4. \A i \in 1 .. Len(t) : u[Len(s) + i] = t[i]
  <2> TAKE i \in 1 .. Len(t)
  <2>1. Len(s) + i \in 1 .. Len(s) + Len(t) /\ ~(Len(s) + i <= Len(s)) /\ (Len(s) + i) - Len(s) = i
    BY <1>2
  <2> QED
    BY <1>2, <2>1
<1>5. \A i \in 1 .. Len(u) : i \in 1 .. Len(s) \/ \E j \in 1 .. Len(t) : i = Len(s) + j
  <2> TAKE i \in 1 .. Len(u)
  <2>1. CASE i <= Len(s)
    BY <1>2, <2>1
  <2>2. CASE i > Len(s)
    <3>1. i - Len(s) \in 1 .. Len(t) /\ i = Len(s) + (i - Len(s))
      BY <1>2, <2>2
    <3> QED
      BY <3>1
  <2> QED
    BY <1>2, <2>1, <2>2
<1>6. ToSet(u) = ToSet(s) \cup ToSet(t)
  <2>1. \A x \in ToSet(u) : x \in ToSet(s) \cup ToSet(t)
    <3> TAKE x \in ToSet(u)
    <3>1. PICK i \in 1 .. Len(u) : u[i] = x
      BY <1>2, InItems
    <3>2. CASE i \in 1 .. Len(s)
      BY <1>3, <3>1, <3>2, ItemsFacts
    <3>3. CASE \E j \in 1 .. Len(t) : i = Len(s) + j
      BY <1>4, <3>1, <3>3, ItemsFacts
    <3> QED
      BY <1>5, <3>2, <3>3
  <2>2. \A x \in ToSet(s) : x \in ToSet(u)
    <3> TAKE x \in ToSet(s)
    <3>1. PICK i \in 1 .. Len(s) : s[i] = x
      BY ItemsFacts
    <3>2. i \in 1 .. Len(u) /\ u[i] = x
      BY <1>2, <1>3, <3>1
    <3> QED
      BY <1>2, <3>2, ItemsFacts
  <2>3. \A x \in ToSet(t) : x \in ToSet(u)
    <3> TAKE x \in ToSet(t)
    <3>1. PICK i \in 1 .. Len(t) : t[i] = x
      BY ItemsFacts
    <3>2. Len(s) + i \in 1 .. Len(u) /\ u[Len(s) + i] = x
      BY <1>2, <1>4, <3>1
    <3> QED
      BY <1>2, <3>2, ItemsFacts
  <2> QED
    BY <2>1, <2>2, <2>3
<1>7. ASSUME Distinct(s), Distinct(t),
             ToSet(s) \cap ToSet(t) = {}, NEW i \in 1 .. Len(u), NEW j \in 1 .. Len(u), u[i] = u[j]
      PROVE  i = j
  <2>1. \A a \in 1 .. Len(s), b \in 1 .. Len(t) : s[a] # t[b]
    BY <1>7, ItemsFacts
  <2>2. CASE i \in 1 .. Len(s) /\ j \in 1 .. Len(s)
    BY <1>3, <1>7, <2>2 DEF Distinct
  <2>3. ASSUME NEW a \in 1 .. Len(t), NEW b \in 1 .. Len(t), i = Len(s) + a, j = Len(s) + b PROVE i = j
    BY <1>4, <1>7, <2>3 DEF Distinct
  <2>4. ASSUME NEW a \in 1 .. Len(t), i \in 1 .. Len(s), j = Len(s) + a PROVE FALSE
    BY <1>3, <1>4, <1>7, <2>1, <2>4
  <2>5. ASSUME NEW a \in 1 .. Len(t), j \in 1 .. Len(s), i = Len(s) + a PROVE FALSE
    BY <1>3, <1>4, <1>7, <2>1, <2>5
  <2> QED
    BY <1>5, <2>2, <2>3, <2>4, <2>5
<1>8. Distinct(s) /\ Distinct(t) /\ ToSet(s) \cap ToSet(t) = {} => Distinct(u)
  BY <1>7 DEF Distinct
<1> QED
  BY <1>1, <1>2, <1>3, <1>4, <1>6, <1>8

(* The last item, and what is before it.                                   *)
LEMMA FrontItems ==
  ASSUME NEW T, NEW s \in Seq(T), s # <<>>
  PROVE  /\ Last(s) \in T /\ Last(s) = s[Len(s)] /\ Len(s) > 0 /\ Last(s) \in ToSet(s)
         /\ Front(s) \in Seq(T) /\ Len(Front(s)) = Len(s) - 1
         /\ \A i \in 1 .. Len(s) - 1 : Front(s)[i] = s[i]
         /\ ToSet(s) = ToSet(Front(s)) \cup {Last(s)}
<1>1. Len(s) \in Nat /\ Len(s) > 0 /\ \A i \in 1 .. Len(s) : s[i] \in T
  BY ItemsFacts, ElementOfSeq
<1>2. PICK f : f = Front(s)
  OBVIOUS
<1>3. f \in Seq(T) /\ Len(f) = Len(s) - 1 /\ \A i \in 1 .. Len(s) - 1 : f[i] = s[i]
  <2>1. \A i \in 1 .. Len(s) - 1 : s[i] \in T
    BY <1>1
  <2>2. f = SubSeq(s, 1, Len(s) - 1)
    BY <1>2 DEF Front
  <2>3. PICK n \in Int : n = Len(s) - 1
    BY <1>1
  <2>4. /\ f \in Seq(T) /\ Len(f) = (IF 1 <= n THEN n - 1 + 1 ELSE 0)
        /\ \A i \in 1 .. n - 1 + 1 : f[i] = s[1 + i - 1]
    <3>1. \A i \in 1 .. n : s[i] \in T
      BY <2>1, <2>3
    <3>2. f = SubSeq(s, 1, n)
      BY <2>2, <2>3
    <3> QED
      BY <3>1, <3>2, SubSeqProperties
  <2> QED
    BY <1>1, <2>3, <2>4
<1>4. \A x : x \in ToSet(s) <=> x \in ToSet(f) \/ x = s[Len(s)]
  <2> TAKE x
  <2>1. ASSUME x \in ToSet(s) PROVE x \in ToSet(f) \/ x = s[Len(s)]
    <3>1. PICK i \in 1 .. Len(s) : s[i] = x
      BY <2>1, ItemsFacts
    <3>2. i = Len(s) \/ i \in 1 .. Len(s) - 1
      BY <1>1
    <3> QED
      BY <1>3, <3>1, <3>2, ItemsFacts
  <2>2. ASSUME x \in ToSet(f) PROVE x \in ToSet(s)
    <3>1. PICK i \in 1 .. Len(s) - 1 : f[i] = x
      BY <1>3, <2>2, ItemsFacts
    <3>2. i \in 1 .. Len(s) /\ s[i] = x
      BY <1>1, <1>3, <3>1
    <3> QED
      BY <3>2, ItemsFacts
  <2>3. s[Len(s)] \in ToSet(s)
    BY <1>1, ItemsFacts
  <2> QED
    BY <2>1, <2>2, <2>3
<1>5. Last(s) = s[Len(s)]
  BY DEF Last
<1> QED
  BY <1>1, <1>2, <1>3, <1>4, <1>5

(* A set in the order of the names: each of its names once.                *)
LEMMA InOrderFacts ==
  ASSUME NEW S
  PROVE  /\ InOrder(S) \in Seq(Everything) /\ ToSet(InOrder(S)) = S \cap Everything
         /\ Distinct(InOrder(S))
<1> DEFINE N == Len(Names)
           V == Seq(Everything)
           Item(g, n) == IF n = 0 THEN <<>> ELSE IF Names[n] \in S THEN Append(g[n - 1], Names[n]) ELSE g[n - 1]
           Eq(g) == g = [n \in 0 .. N |-> Item(g, n)]
           f == CHOOSE g : Eq(g)
<1>1. \E g : Eq(g)
  <2>1. PICK step : step = [x \in (1 .. N) \X V |-> IF Names[x[1]] \in S THEN Append(x[2], Names[x[1]]) ELSE x[2]]
    OBVIOUS
  <2>2. step \in [(1 .. N) \X V -> V]
    <3>1. ASSUME NEW x \in (1 .. N) \X V PROVE (IF Names[x[1]] \in S THEN Append(x[2], Names[x[1]]) ELSE x[2]) \in V
      <4>1. x[1] \in 1 .. N /\ x[2] \in V
        OBVIOUS
      <4>2. Names[x[1]] \in Everything
        BY <4>1, NamesFacts
      <4>3. Append(x[2], Names[x[1]]) \in V
        BY <4>1, <4>2, AppendProperties
      <4> QED
        BY <4>1, <4>3
    <3> QED
      BY <2>1, <3>1
  <2>3. N \in Nat /\ <<>> \in V
    BY NamesFacts
  <2>4. PICK g \in [0 .. N -> V] : IsStepped(g, N, <<>>, step)
    <3> HIDE DEF V, N
    <3> QED
      BY <2>2, <2>3, SteppedThereIs
  <2>5. ASSUME NEW n \in 0 .. N PROVE g[n] = Item(g, n)
    <3>1. g[n] = IF n = 0 THEN <<>> ELSE step[<<n, g[n - 1]>>]
      BY <2>4 DEF IsStepped
    <3>2. CASE n = 0
      BY <3>1, <3>2
    <3>3. CASE n # 0
      <4>1. <<n, g[n - 1]>> \in (1 .. N) \X V
        BY <2>3, <3>3
      <4> QED
        BY <2>1, <3>1, <3>3, <4>1
    <3> QED
      BY <3>2, <3>3
  <2>6. g = [n \in 0 .. N |-> g[n]]
    OBVIOUS
  <2> HIDE DEF Item
  <2> QED
    BY <2>5, <2>6
<1>2. Eq(f)
  <2> HIDE DEF Eq
  <2> QED
    BY <1>1
<1>3. InOrder(S) = f[N]
  BY Zenon DEF InOrder
<1> HIDE DEF f
<1>4. \A n \in 0 .. N : f[n] = Item(f, n)
  <2> HIDE DEF Item
  <2> QED
    BY <1>2
<1> DEFINE Good(s, n) == /\ s \in V
                         /\ \A x : x \in ToSet(s) <=> x \in S /\ \E k \in 1 .. n : Names[k] = x
                         /\ Distinct(s)
           R == {n \in Nat : n <= N => Good(f[n], n)}
<1>5. 0 \in R
  <2>1. f[0] = <<>>
    BY <1>4, NamesFacts
  <2>2. Good(<<>>, 0)
    <3>1. <<>> \in Seq(Everything) /\ Len(<<>>) = 0
      BY EmptySeq
    <3>2. ToSet(<<>>) = {} /\ Distinct(<<>>)
      BY <3>1, ItemsFacts DEF Distinct
    <3> QED
      BY <3>1, <3>2
  <2> HIDE DEF Good
  <2> QED
    BY <2>1, <2>2
<1>6. \A n \in Nat : n \in R => n + 1 \in R
  <2> SUFFICES ASSUME NEW n \in Nat, n \in R, n + 1 <= N PROVE Good(f[n + 1], n + 1)
    <3> HIDE DEF Good
    <3> QED
      OBVIOUS
  <2>1. PICK s : s = f[n]
    OBVIOUS
  <2>2. Good(s, n)
    <3> HIDE DEF Good
    <3> QED
      BY <2>1, NamesFacts
  <2>3. n + 1 \in 0 .. N /\ n + 1 # 0 /\ (n + 1) - 1 = n /\ n + 1 \in 1 .. N
    BY NamesFacts
  <2>4. f[n + 1] = IF Names[n + 1] \in S THEN Append(s, Names[n + 1]) ELSE s
    BY <1>4, <2>1, <2>3
  <2>5. PICK x : x = Names[n + 1]
    OBVIOUS
  <2>6. x \in Everything /\ \A k \in 1 .. n : Names[k] # x
    BY <2>3, <2>5, NamesFacts
  <2>7. \A k : k \in 1 .. n + 1 <=> k \in 1 .. n \/ k = n + 1
    OBVIOUS
  <2>8. CASE x \in S
    <3>1. PICK t : t = Append(s, x)
      OBVIOUS
    <3>2. t = s \o <<x>> /\ <<x>> \in Seq(Everything)
      BY <2>2, <2>6, <3>1, AppendIsConcat
    <3>3. PICK u \in Seq(Everything) : u = <<x>> /\ Len(u) = 1 /\ u[1] = x
      BY <3>2
    <3>4. ToSet(u) = {x} /\ Distinct(u)
      <4>1. \A i : i \in 1 .. Len(u) <=> i = 1
        BY <3>3
      <4>2. DOMAIN u = 1 .. Len(u)
        BY ItemsFacts
      <4> QED
        BY <3>3, <4>1, <4>2 DEF ToSet, Distinct
    <3>5. x \notin ToSet(s)
      BY <2>2, <2>6
    <3>6. ToSet(s) \cap ToSet(u) = {} /\ s \in Seq(Everything)
      BY <2>2, <3>4, <3>5
    <3>7. t \in V /\ ToSet(t) = ToSet(s) \cup ToSet(u) /\ Distinct(t)
      <4>1. t = s \o u /\ Distinct(s)
        BY <2>2, <3>2, <3>3
      <4> QED
        BY <3>4, <3>6, <4>1, ConcatItems
    <3>8. \A y : y \in ToSet(t) <=> y \in S /\ \E k \in 1 .. n + 1 : Names[k] = y
      BY <2>2, <2>5, <2>7, <2>8, <3>4, <3>7
    <3>9. f[n + 1] = t
      BY <2>4, <2>5, <2>8, <3>1
    <3> QED
      BY <3>7, <3>8, <3>9
  <2>9. CASE x \notin S
    <3>1. f[n + 1] = s
      BY <2>4, <2>5, <2>9
    <3>2. \A y : y \in ToSet(s) <=> y \in S /\ \E k \in 1 .. n + 1 : Names[k] = y
      BY <2>2, <2>5, <2>7, <2>9
    <3> QED
      BY <2>2, <3>1, <3>2
  <2> QED
    BY <2>8, <2>9
<1>7. N \in R
  <2> HIDE DEF R, N
  <2>1. N \in Nat
    BY NamesFacts DEF N
  <2> QED
    BY <1>5, <1>6, <2>1, NatSetInduction
<1>8. Good(f[N], N)
  <2> HIDE DEF Good
  <2> QED
    BY <1>7, NamesFacts
<1>9. \A x : x \in Everything <=> \E k \in 1 .. N : Names[k] = x
  BY NamesFacts
<1> QED
  BY <1>3, <1>8, <1>9

(***************************************************************************)
(* What can be reached, and circles.                                       *)
(***************************************************************************)
After(x, R) == {e[2] : e \in {d \in R : d[1] = x}}

LEMMA AfterIs ==
  ASSUME NEW x, NEW y, NEW R
  PROVE  y \in After(x, R) <=> \E e \in R : e[1] = x /\ e[2] = y
BY DEF After

LEMMA CircleIs ==
  ASSUME NEW x, NEW R
  PROVE  OnCircle(x, R) <=> x \in ReachedFrom(After(x, R), R)
BY DEF OnCircle, After

LEMMA ReachHas ==
  ASSUME NEW S, NEW R
  PROVE  S \subseteq ReachedFrom(S, R) /\ ClosedUnder(ReachedFrom(S, R), R)
<1> DEFINE all == S \cup {e[2] : e \in R}
           In(n) == \A C \in SUBSET all : S \subseteq C /\ ClosedUnder(C, R) => n \in C
<1>1. ReachedFrom(S, R) = {n \in all : In(n)}
  BY DEF ReachedFrom
<1>2. \A n \in S : n \in all /\ In(n)
  OBVIOUS
<1>3. ASSUME NEW e \in R, In(e[1]) PROVE e[2] \in all /\ In(e[2])
  <2>1. \A C \in SUBSET all : S \subseteq C /\ ClosedUnder(C, R) => e[2] \in C
    <3> TAKE C \in SUBSET all
    <3> HAVE S \subseteq C /\ ClosedUnder(C, R)
    <3>1. e[1] \in C
      BY <1>3
    <3> QED
      BY <3>1 DEF ClosedUnder
  <2> QED
    BY <2>1
<1> HIDE DEF all, In
<1> QED
  BY <1>1, <1>2, <1>3 DEF ClosedUnder

LEMMA ReachWithin ==
  ASSUME NEW S, NEW R, NEW C, S \subseteq C, ClosedUnder(C, R)
  PROVE  ReachedFrom(S, R) \subseteq C
<1> DEFINE all == S \cup {e[2] : e \in R}
<1>1. C \cap all \in SUBSET all /\ S \subseteq C \cap all
  OBVIOUS
<1>2. ClosedUnder(C \cap all, R)
  BY DEF ClosedUnder
<1>3. ReachedFrom(S, R) = {n \in all : \A D \in SUBSET all : S \subseteq D /\ ClosedUnder(D, R) => n \in D}
  BY DEF ReachedFrom
<1> HIDE DEF all
<1> QED
  BY <1>1, <1>2, <1>3

(* Fewer beginnings and fewer edges reach no more.                         *)
LEMMA ReachLess ==
  ASSUME NEW S, NEW R, NEW T, NEW Q, S \subseteq ReachedFrom(T, Q), R \subseteq Q
  PROVE  ReachedFrom(S, R) \subseteq ReachedFrom(T, Q)
<1>1. ClosedUnder(ReachedFrom(T, Q), R)
  BY ReachHas DEF ClosedUnder
<1> QED
  BY <1>1, ReachWithin

(* A circle goes through a neighbour.                                      *)
LEMMA CircleGoesOn ==
  ASSUME NEW x, NEW R, OnCircle(x, R)
  PROVE  \E y \in After(x, R) : OnCircle(y, R)
<1>1. x \in ReachedFrom(After(x, R), R)
  BY CircleIs
<1>2. PICK C : C = UNION {ReachedFrom({y}, R) : y \in After(x, R)}
  OBVIOUS
<1>3. \A z : z \in C <=> \E y \in After(x, R) : z \in ReachedFrom({y}, R)
  BY <1>2
<1>4. After(x, R) \subseteq C
  BY <1>3, ReachHas
<1>5. ClosedUnder(C, R)
  <2> SUFFICES ASSUME NEW e \in R, e[1] \in C PROVE e[2] \in C
    BY DEF ClosedUnder
  <2>1. PICK y \in After(x, R) : e[1] \in ReachedFrom({y}, R)
    BY <1>3
  <2>2. e[2] \in ReachedFrom({y}, R)
    BY <2>1, ReachHas DEF ClosedUnder
  <2> QED
    BY <1>3, <2>2
<1>6. PICK y \in After(x, R) : x \in ReachedFrom({y}, R)
  BY <1>1, <1>3, <1>4, <1>5, ReachWithin
<1>7. CASE x = y
  BY <1>7
<1>8. CASE x # y
  <2>1. PICK D : D = {y} \cup ReachedFrom(After(y, R), R)
    OBVIOUS
  <2>2. ClosedUnder(D, R)
    <3> SUFFICES ASSUME NEW e \in R, e[1] \in D PROVE e[2] \in D
      BY DEF ClosedUnder
    <3>1. CASE e[1] = y
      <4>1. e[2] \in After(y, R)
        BY <3>1, AfterIs
      <4> QED
        BY <2>1, <4>1, ReachHas
    <3>2. CASE e[1] \in ReachedFrom(After(y, R), R)
      BY <2>1, <3>2, ReachHas DEF ClosedUnder
    <3> QED
      BY <2>1, <3>1, <3>2
  <2>3. x \in ReachedFrom(After(y, R), R)
    BY <1>6, <1>8, <2>1, <2>2, ReachWithin
  <2>4. y \in ReachedFrom(After(y, R), R)
    <3>1. PICK e \in R : e[1] = x /\ e[2] = y
      BY <1>6, AfterIs
    <3> QED
      BY <2>3, <3>1, ReachHas DEF ClosedUnder
  <2> QED
    BY <2>4, CircleIs
<1> QED
  BY <1>7, <1>8

(* From where every way ends.                                              *)
GroundedIn(M, R) ==
  {x \in M : \A W \in SUBSET M : (\A y \in M : After(y, R) \subseteq W => y \in W) => x \in W}

LEMMA GroundedGrows ==
  ASSUME NEW M, NEW R, NEW x \in M, After(x, R) \subseteq GroundedIn(M, R)
  PROVE  x \in GroundedIn(M, R)
BY DEF GroundedIn

LEMMA GroundedNoCircle ==
  ASSUME NEW M, NEW R, NEW x \in GroundedIn(M, R)
  PROVE  ~OnCircle(x, R)
<1>1. PICK W : W = {y \in M : ~OnCircle(y, R)}
  OBVIOUS
<1>2. \A y \in M : After(y, R) \subseteq W => y \in W
  BY <1>1, CircleGoesOn
<1>3. x \in W
  BY <1>1, <1>2 DEF GroundedIn
<1> QED
  BY <1>1, <1>3

(* Fewer edges make no circle.                                             *)
LEMMA CircleLess ==
  ASSUME NEW x, NEW R, NEW Q, R \subseteq Q, OnCircle(x, R)
  PROVE  OnCircle(x, Q)
<1>1. After(x, R) \subseteq After(x, Q)
  BY AfterIs
<1>2. After(x, R) \subseteq ReachedFrom(After(x, Q), Q)
  BY <1>1, ReachHas
<1>3. ReachedFrom(After(x, R), R) \subseteq ReachedFrom(After(x, Q), Q)
  BY <1>2, ReachLess
<1> QED
  BY <1>3, CircleIs

(* The edges of the table.                                                 *)
EdgesIn(tab, kinds) ==
  UNION {{<<m, i.name>> : i \in {j \in tab[m] : j.kind \in kinds /\ j.name \in DOMAIN tab}} : m \in DOMAIN tab}
KindsIn(tab, m, kinds) == {i.name : i \in {j \in tab[m] : j.kind \in kinds}}

LEMMA EdgesAre ==
  ASSUME NEW tab, NEW kinds
  PROVE  /\ \A e \in EdgesIn(tab, kinds) : e = <<e[1], e[2]>>
         /\ \A x, y : <<x, y>> \in EdgesIn(tab, kinds) <=> x \in DOMAIN tab /\ y \in DOMAIN tab /\ y \in KindsIn(tab, x, kinds)
         /\ \A x \in DOMAIN tab : After(x, EdgesIn(tab, kinds)) = KindsIn(tab, x, kinds) \cap DOMAIN tab
<1> DEFINE E == EdgesIn(tab, kinds)
<1>1. \A e : e \in E <=> \E m \in DOMAIN tab : \E i \in tab[m] : i.kind \in kinds /\ i.name \in DOMAIN tab /\ e = <<m, i.name>>
  BY DEF EdgesIn
<1>2. \A x : \A y : y \in KindsIn(tab, x, kinds) <=> \E i \in tab[x] : i.kind \in kinds /\ y = i.name
  BY DEF KindsIn
<1> HIDE DEF E
<1>3. \A e \in E : e = <<e[1], e[2]>>
  BY <1>1
<1>4. ASSUME NEW x, NEW y PROVE <<x, y>> \in E <=> x \in DOMAIN tab /\ y \in DOMAIN tab /\ y \in KindsIn(tab, x, kinds)
  <2>1. ASSUME <<x, y>> \in E PROVE x \in DOMAIN tab /\ y \in DOMAIN tab /\ y \in KindsIn(tab, x, kinds)
    <3>1. PICK m \in DOMAIN tab : \E i \in tab[m] : i.kind \in kinds /\ i.name \in DOMAIN tab /\ <<x, y>> = <<m, i.name>>
      BY <1>1, <2>1
    <3>2. PICK i \in tab[m] : i.kind \in kinds /\ i.name \in DOMAIN tab /\ <<x, y>> = <<m, i.name>>
      BY <3>1
    <3>3. x = m /\ y = i.name
      BY <3>2
    <3> QED
      BY <1>2, <3>2, <3>3
  <2>2. ASSUME x \in DOMAIN tab, y \in DOMAIN tab, y \in KindsIn(tab, x, kinds) PROVE <<x, y>> \in E
    BY <1>1, <1>2, <2>2
  <2> QED
    BY <2>1, <2>2
<1>5. ASSUME NEW x \in DOMAIN tab PROVE After(x, E) = KindsIn(tab, x, kinds) \cap DOMAIN tab
  <2>1. ASSUME NEW y \in After(x, E) PROVE y \in KindsIn(tab, x, kinds) \cap DOMAIN tab
    <3>1. PICK e \in E : e[1] = x /\ e[2] = y
      BY <2>1, AfterIs
    <3>2. <<x, y>> \in E
      BY <1>3, <3>1
    <3> QED
      BY <1>4, <3>2
  <2>2. ASSUME NEW y \in KindsIn(tab, x, kinds) \cap DOMAIN tab PROVE y \in After(x, E)
    <3>1. <<x, y>> \in E /\ <<x, y>>[1] = x /\ <<x, y>>[2] = y
      BY <1>4, <2>2
    <3> QED
      BY <3>1, AfterIs
  <2> QED
    BY <2>1, <2>2
<1> QED
  BY <1>3, <1>4, <1>5 DEF E

(* A table with fewer modules has fewer edges.                             *)
LEMMA EdgesLess ==
  ASSUME NEW tab, NEW kinds, NEW S, S \subseteq DOMAIN tab
  PROVE  EdgesIn([m \in S |-> tab[m]], kinds) \subseteq EdgesIn(tab, kinds)
<1>1. PICK less : less = [m \in S |-> tab[m]]
  OBVIOUS
<1>2. DOMAIN less = S /\ \A m \in S : less[m] = tab[m]
  BY <1>1
<1>3. \A m \in S : KindsIn(less, m, kinds) = KindsIn(tab, m, kinds)
  BY <1>2 DEF KindsIn
<1>4. ASSUME NEW e \in EdgesIn(less, kinds) PROVE e \in EdgesIn(tab, kinds)
  <2>1. PICK x, y : e = <<x, y>>
    BY EdgesAre
  <2>2. x \in S /\ y \in S /\ y \in KindsIn(less, x, kinds)
    BY <1>2, <2>1, EdgesAre
  <2>3. <<x, y>> \in EdgesIn(tab, kinds)
    BY <1>3, <2>2, EdgesAre
  <2> QED
    BY <2>1, <2>3
<1> QED
  BY <1>1, <1>4

LEMMA EdgesHere ==
  ASSUME NEW kinds
  PROVE  Edges(kinds) = EdgesIn(table, kinds) /\ \A m : Kinds(m, kinds) = KindsIn(table, m, kinds)
BY DEF Edges, EdgesIn, Kinds, KindsIn, Modules

(***************************************************************************)
(* What holds while the linker runs, one part for each of its phases.      *)
(***************************************************************************)
Given == ToSet(users) \cup (IF stdlib THEN {STD} ELSE {})
Import == [name : Everything, kind : {"user", "sys"}, static : BOOLEAN]
TableOK(tab) == DOMAIN tab \subseteq Everything /\ \A m \in DOMAIN tab : tab[m] \subseteq Import

ProgramOK ==
  /\ users \in Seq(Everything) /\ Distinct(users)
  /\ stdlib \in BOOLEAN /\ (stdlib => STD \in Everything \ ToSet(users))
  /\ DOMAIN imports = Everything
  /\ \A m \in Everything : \A i \in imports[m] : i.name \in Everything /\ i.kind \in {"user", "sys"}

ListsOK ==
  /\ pending \in Seq(Everything) /\ Distinct(pending)
  /\ starts \in Seq(Everything) /\ stack \in Seq(Everything) /\ chain \in Seq(Everything)
  /\ loaded \subseteq Everything /\ marked \subseteq Everything /\ loadedLibs \subseteq Everything
  /\ TableOK(table)
  /\ entry \in Everything \cup {""} /\ at \in 0 .. Len(chain)

(* Of a module that is loaded, what it imports has been met if it is a     *)
(* path, a library with a source, or anything else that is available.      *)
Settled(i, S, A) == i.kind = "user" \/ i.static \/ i.name \in A => i.name \in S

(* An import that the merge may leave to the running program               *)
Left(i) == i.kind = "sys" /\ ~i.static

(* The walk: nothing is lost, nothing is loaded twice; a library was asked *)
(* for by a module that is loaded, and what a module leaves to the running *)
(* program although it is met is shared with another.                      *)
Met == loaded \cup ToSet(pending)
WalkInv ==
  /\ Modules = loaded /\ loaded \cap ToSet(pending) = {}
  /\ Given \subseteq Met /\ Met \subseteq ReachedFrom(Given, SourceEdges)
  /\ \A m \in Modules : NamesOf(table[m]) = NamesOf(imports[m]) /\ \A i \in table[m] : Settled(i, Met, Available)
  /\ entry \in Modules \cup {""}
  /\ chain = <<>> /\ stack = <<>>
  /\ \A n \in Met \ Given : \E k \in loaded : AsksFor(k, n)
  /\ \A m \in Modules : \A i \in table[m] : Left(i) /\ i.name \in Met => Shared(i.name)

(***************************************************************************)
(* One module of the walk.                                                 *)
(***************************************************************************)
WalkRecord == [pending : Seq(Everything), is : SUBSET Import, missing : BOOLEAN]

(* After some of the imports, those whose names are in S.                  *)
Turn(w, m, S) ==
  /\ w \in WalkRecord
  /\ Distinct(w.pending) /\ loaded \cap ToSet(w.pending) = {}
  /\ ToSet(pending) \subseteq ToSet(w.pending) /\ ToSet(w.pending) \subseteq ToSet(pending) \cup (Libraries \cap S)
  /\ w.pending # <<>> /\ Last(w.pending) = Last(pending)
  /\ NamesOf(w.is) = S
  /\ ~w.missing => \A i \in w.is : Settled(i, loaded \cup ToSet(w.pending), Available)
  /\ \A n \in ToSet(w.pending) \ ToSet(pending) : AsksFor(m, n)
  /\ \A i \in w.is : i.kind = "sys" => AsksFor(m, i.name) /\ (i.static \/ i.name \in Met \/ i.name \notin Available)

LEMMA WalkImportTyped ==
  ASSUME NEW w \in WalkRecord, NEW i, i.name \in Everything, i.kind \in {"user", "sys"}
  PROVE  WalkImport(w, i) \in WalkRecord
<1>1. w.pending \in Seq(Everything) /\ w.is \in SUBSET Import /\ w.missing \in BOOLEAN
  BY DEF WalkRecord
<1>2. Found(i, w) \in BOOLEAN /\ Known(i.name, w) \in BOOLEAN
  BY DEF Found, Known
<1>3. [name |-> i.name, kind |-> i.kind, static |-> Found(i, w)] \in Import
  BY <1>2 DEF Import
<1>4. <<i.name>> \in Seq(Everything)
  OBVIOUS
<1>5. <<i.name>> \o w.pending \in Seq(Everything)
  BY <1>1, <1>4, ConcatProperties
<1>6. PICK now : now = IF Found(i, w) THEN <<i.name>> \o w.pending ELSE w.pending
  OBVIOUS
<1>7. now \in Seq(Everything)
  BY <1>1, <1>5, <1>6
<1>8. PICK new : new = [name |-> i.name, kind |-> i.kind, static |-> Found(i, w)]
  OBVIOUS
<1>9. PICK gone : gone = (w.missing \/ (i.kind = "user" /\ ~Known(i.name, w)))
  OBVIOUS
<1>10. gone \in BOOLEAN
  BY <1>9
<1>11. WalkImport(w, i) = [pending |-> now, is |-> w.is \cup {new}, missing |-> gone]
  BY <1>6, <1>8, <1>9 DEF WalkImport
<1>12. w.is \cup {new} \in SUBSET Import
  BY <1>1, <1>3, <1>8
<1> QED
  BY <1>7, <1>10, <1>11, <1>12 DEF WalkRecord

(* One more import keeps them; it is missed if it is a path to nothing.    *)
LEMMA WalkImportKeeps ==
  ASSUME ListsOK, WalkInv, NEW m, NEW S, NEW w, Turn(w, m, S),
         NEW i \in imports[m], i.name \in Everything, i.kind \in {"user", "sys"}, i.name \notin S
  PROVE  Turn(WalkImport(w, i), m, S \cup {i.name})
<1>1. PICK w2 : w2 = WalkImport(w, i)
  OBVIOUS
<1>2. PICK new : new = [name |-> i.name, kind |-> i.kind, static |-> Found(i, w)]
  OBVIOUS
<1>3. /\ w2.pending = IF Found(i, w) THEN <<i.name>> \o w.pending ELSE w.pending
      /\ w2.is = w.is \cup {new}
      /\ w2.missing = (w.missing \/ (i.kind = "user" /\ ~Known(i.name, w)))
  BY <1>1, <1>2 DEF WalkImport
<1>4. w2 \in WalkRecord /\ w \in WalkRecord
  BY <1>1, WalkImportTyped DEF Turn
<1>5. w.pending \in Seq(Everything) /\ w.is \subseteq Import
  BY <1>4 DEF WalkRecord
<1>6. NamesOf(w2.is) = S \cup {i.name}
  BY <1>2, <1>3 DEF NamesOf, Turn
<1>7. new.name = i.name /\ new.kind = i.kind /\ new.static = Found(i, w)
  BY <1>2
<1>8. i.kind = "sys" => AsksFor(m, i.name)
  BY DEF AsksFor
<1>9. i.kind = "sys" /\ ~Known(i.name, w) /\ i.name \notin Libraries => i.name \notin Available
  <2> SUFFICES ASSUME i.kind = "sys", ~Known(i.name, w), i.name \notin Libraries PROVE i.name \notin Available
    OBVIOUS
  <2>1. i.name \notin Given
    BY DEF Known, Turn, WalkInv, Met
  <2> QED
    BY <2>1 DEF Available, Given
<1>10. ASSUME NEW j \in w2.is, j.kind = "sys"
      PROVE  AsksFor(m, j.name) /\ (j.static \/ j.name \in Met \/ j.name \notin Available)
  <2>1. CASE j \in w.is
    BY <1>10, <2>1 DEF Turn
  <2>2. CASE j = new
    <3>1. AsksFor(m, j.name)
      BY <1>7, <1>8, <1>10, <2>2
    <3>2. CASE Found(i, w)
      BY <1>7, <2>2, <3>1, <3>2
    <3>3. CASE ~Found(i, w) /\ Known(i.name, w)
      <4>1. i.name \in Met
        BY <3>3 DEF Known, Met, Turn
      <4> QED
        BY <1>7, <2>2, <3>1, <4>1
    <3>4. CASE ~Found(i, w) /\ ~Known(i.name, w)
      <4>1. i.name \notin Available
        BY <1>7, <1>9, <1>10, <2>2, <3>4 DEF Found
      <4> QED
        BY <1>7, <2>2, <3>1, <4>1
    <3> QED
      BY <3>2, <3>3, <3>4
  <2> QED
    BY <1>3, <1>10, <2>1, <2>2
<1>11. CASE Found(i, w)
  <2>1. i.name \notin ToSet(w.pending) /\ i.name \notin loaded /\ i.name \in Libraries
    BY <1>11 DEF Found, Known
  <2>2. PICK u : u = <<i.name>>
    OBVIOUS
  <2>3. u \in Seq(Everything) /\ Len(u) = 1 /\ u[1] = i.name
    BY <2>2
  <2>4. ToSet(u) = {i.name} /\ Distinct(u)
    <3>1. \A k : k \in 1 .. Len(u) <=> k = 1
      BY <2>3
    <3>2. DOMAIN u = 1 .. Len(u)
      BY <2>3, ItemsFacts
    <3> QED
      BY <2>3, <3>1, <3>2 DEF ToSet, Distinct
  <2>5. w2.pending = u \o w.pending
    BY <1>3, <1>11, <2>2
  <2>6. /\ Len(w2.pending) = Len(u) + Len(w.pending)
        /\ ToSet(w2.pending) = ToSet(u) \cup ToSet(w.pending)
        /\ \A k \in 1 .. Len(w.pending) : w2.pending[Len(u) + k] = w.pending[k]
    <3>1. PICK v, v2 : v = w.pending /\ v2 = w2.pending
      OBVIOUS
    <3>2. v \in Seq(Everything) /\ v2 = u \o v
      BY <1>5, <2>5, <3>1
    <3>3. /\ Len(v2) = Len(u) + Len(v) /\ ToSet(v2) = ToSet(u) \cup ToSet(v)
          /\ \A k \in 1 .. Len(v) : v2[Len(u) + k] = v[k]
      BY <2>3, <3>2, ConcatItems
    <3> QED
      BY <3>1, <3>3
  <2>7. Distinct(w2.pending)
    <3>1. Distinct(w.pending) /\ ToSet(u) \cap ToSet(w.pending) = {}
      BY <2>1, <2>4 DEF Turn
    <3> QED
      BY <1>5, <2>3, <2>4, <2>5, <3>1, ConcatItems
  <2>8. Last(w2.pending) = Last(w.pending) /\ w2.pending # <<>>
    <3>1. Len(w.pending) \in Nat /\ Len(w.pending) > 0
      BY <1>5, ItemsFacts DEF Turn
    <3>2. Len(w2.pending) > 0 /\ w2.pending[Len(w2.pending)] = w.pending[Len(w.pending)]
      BY <2>3, <2>6, <3>1
    <3>3. w2.pending \in Seq(Everything)
      BY <1>4 DEF WalkRecord
    <3>4. w2.pending # <<>>
      BY <3>2, <3>3, ItemsFacts
    <3> QED
      BY <3>2, <3>4 DEF Last
  <2>9. ASSUME ~w2.missing, NEW j \in w2.is PROVE Settled(j, loaded \cup ToSet(w2.pending), Available)
    <3>1. CASE j = new
      BY <1>7, <2>4, <2>6, <3>1 DEF Settled
    <3>2. CASE j \in w.is
      <4>1. Settled(j, loaded \cup ToSet(w.pending), Available)
        BY <1>3, <2>9, <3>2 DEF Turn
      <4> QED
        BY <2>6, <4>1 DEF Settled
    <3> QED
      BY <1>3, <3>1, <3>2
  <2>10. /\ loaded \cap ToSet(w2.pending) = {}
         /\ ToSet(pending) \subseteq ToSet(w2.pending)
         /\ ToSet(w2.pending) \subseteq ToSet(pending) \cup (Libraries \cap (S \cup {i.name}))
    BY <2>1, <2>4, <2>6 DEF Turn
  <2>11. ASSUME NEW n \in ToSet(w2.pending) \ ToSet(pending) PROVE AsksFor(m, n)
    <3>1. CASE n = i.name
      BY <1>11, <1>8, <3>1 DEF Found
    <3>2. CASE n # i.name
      BY <2>4, <2>6, <2>11, <3>2 DEF Turn
    <3> QED
      BY <3>1, <3>2
  <2> QED
    BY <1>1, <1>4, <1>6, <1>10, <2>7, <2>8, <2>9, <2>10, <2>11 DEF Turn
<1>12. CASE ~Found(i, w)
  <2>1. w2.pending = w.pending
    BY <1>3, <1>12
  <2>2. ASSUME ~w2.missing, NEW j \in w2.is PROVE Settled(j, loaded \cup ToSet(w2.pending), Available)
    <3>1. CASE j = new
      <4>1. CASE i.kind = "user"
        BY <1>3, <1>7, <2>1, <2>2, <3>1, <4>1 DEF Settled, Known
      <4>2. CASE i.kind = "sys" /\ Known(i.name, w)
        BY <1>7, <2>1, <3>1, <4>2 DEF Settled, Known
      <4>3. CASE i.kind = "sys" /\ ~Known(i.name, w)
        <5>1. i.name \notin Available
          BY <1>12, <1>9, <4>3 DEF Found
        <5> QED
          BY <1>7, <1>12, <3>1, <4>3, <5>1 DEF Settled
      <4> QED
        BY <4>1, <4>2, <4>3
    <3>2. CASE j \in w.is
      BY <1>3, <2>1, <2>2, <3>2 DEF Turn
    <3> QED
      BY <1>3, <3>1, <3>2
  <2>3. /\ Distinct(w2.pending) /\ loaded \cap ToSet(w2.pending) = {}
        /\ ToSet(pending) \subseteq ToSet(w2.pending)
        /\ ToSet(w2.pending) \subseteq ToSet(pending) \cup (Libraries \cap (S \cup {i.name}))
        /\ w2.pending # <<>> /\ Last(w2.pending) = Last(pending)
        /\ \A n \in ToSet(w2.pending) \ ToSet(pending) : AsksFor(m, n)
    BY <2>1 DEF Turn
  <2> QED
    BY <1>1, <1>4, <1>6, <1>10, <2>2, <2>3 DEF Turn
<1> QED
  BY <1>11, <1>12

LEMMA WalkedFacts ==
  ASSUME ProgramOK, ListsOK, WalkInv, pending # <<>>, NEW m \in Everything
  PROVE  Turn(Walked(m), m, NamesOf(imports[m]))
<1>1. PICK names : names = InOrder(NamesOf(imports[m]))
  OBVIOUS
<1>2. NamesOf(imports[m]) \subseteq Everything
  BY DEF ProgramOK, NamesOf
<1>3. names \in Seq(Everything) /\ ToSet(names) = NamesOf(imports[m]) /\ Len(names) \in Nat /\ Distinct(names)
  BY <1>1, <1>2, InOrderFacts, LenProperties
<1>4. ASSUME NEW k \in 1 .. Len(names)
      PROVE  /\ ImportNamed(imports[m], names[k]).name = names[k] /\ names[k] \in Everything
             /\ ImportNamed(imports[m], names[k]).kind \in {"user", "sys"} /\ ImportNamed(imports[m], names[k]) \in imports[m]
  <2>1. names[k] \in ToSet(names)
    BY <1>3, ItemsFacts
  <2>2. \E i \in imports[m] : i.name = names[k]
    BY <1>3, <2>1 DEF NamesOf
  <2>3. ImportNamed(imports[m], names[k]) \in imports[m] /\ ImportNamed(imports[m], names[k]).name = names[k]
    BY <2>2 DEF ImportNamed
  <2> QED
    BY <2>3 DEF ProgramOK
<1> DEFINE N == Len(names)
           start == [pending |-> pending, is |-> {}, missing |-> FALSE]
           Item(g, k) == IF k = 0 THEN start ELSE WalkImport(g[k - 1], ImportNamed(imports[m], names[k]))
           Eq(g) == g = [k \in 0 .. N |-> Item(g, k)]
           f == CHOOSE g : Eq(g)
<1>5. start \in WalkRecord
  BY DEF WalkRecord, ListsOK
<1>6. \E g : Eq(g)
  <2>1. PICK step : step = [x \in (1 .. N) \X WalkRecord |-> WalkImport(x[2], ImportNamed(imports[m], names[x[1]]))]
    OBVIOUS
  <2>2. step \in [(1 .. N) \X WalkRecord -> WalkRecord]
    <3>1. ASSUME NEW x \in (1 .. N) \X WalkRecord PROVE WalkImport(x[2], ImportNamed(imports[m], names[x[1]])) \in WalkRecord
      <4>1. x[1] \in 1 .. N /\ x[2] \in WalkRecord
        OBVIOUS
      <4> QED
        BY <1>4, <4>1, WalkImportTyped
    <3> QED
      BY <2>1, <3>1
  <2>3. PICK g \in [0 .. N -> WalkRecord] : IsStepped(g, N, start, step)
    <3>1. N \in Nat
      BY <1>3
    <3> HIDE DEF N, start
    <3> QED
      BY <1>5, <2>2, <3>1, SteppedThereIs
  <2>4. ASSUME NEW k \in 0 .. N PROVE g[k] = Item(g, k)
    <3>1. g[k] = IF k = 0 THEN start ELSE step[<<k, g[k - 1]>>]
      BY <2>3 DEF IsStepped
    <3>2. CASE k = 0
      BY <3>1, <3>2
    <3>3. CASE k # 0
      <4>1. k \in 1 .. N /\ k - 1 \in 0 .. N
        BY <1>3, <3>3
      <4>2. <<k, g[k - 1]>> \in (1 .. N) \X WalkRecord
        BY <2>3, <4>1
      <4>3. step[<<k, g[k - 1]>>] = WalkImport(g[k - 1], ImportNamed(imports[m], names[k]))
        BY <2>1, <4>2
      <4> HIDE DEF start
      <4> QED
        BY <3>1, <3>3, <4>3
    <3> QED
      BY <3>2, <3>3
  <2>5. g = [k \in 0 .. N |-> g[k]]
    OBVIOUS
  <2> HIDE DEF Item
  <2> QED
    BY <2>4, <2>5
<1>7. Eq(f)
  <2> HIDE DEF Eq
  <2> QED
    BY <1>6
<1>8. Walked(m) = f[N]
  BY <1>1, Zenon DEF Walked
<1> HIDE DEF f
<1>9. \A k \in 0 .. N : f[k] = Item(f, k)
  <2> HIDE DEF Item
  <2> QED
    BY <1>7
<1> DEFINE First(k) == {names[j] : j \in 1 .. k}
           R == {k \in Nat : k <= N => Turn(f[k], m, First(k))}
<1>10. 0 \in R
  <2>1. f[0] = start
    <3>1. 0 \in 0 .. N
      BY <1>3
    <3>2. f[0] = Item(f, 0)
      <4> HIDE DEF Item
      <4> QED
        BY <1>9, <3>1
    <3> HIDE DEF start
    <3> QED
      BY <3>2
  <2>2. First(0) = {}
    OBVIOUS
  <2>3. Turn(start, m, {})
    <3>1. start.pending = pending /\ start.is = {} /\ NamesOf({}) = {}
      BY DEF NamesOf
    <3>2. Distinct(pending) /\ loaded \cap ToSet(pending) = {}
      BY DEF ListsOK, WalkInv
    <3> HIDE DEF start
    <3> QED
      BY <1>5, <3>1, <3>2 DEF Turn
  <2> HIDE DEF First, start
  <2> QED
    BY <2>1, <2>2, <2>3
<1>11. \A k \in Nat : k \in R => k + 1 \in R
  <2> SUFFICES ASSUME NEW k \in Nat, k \in R, k + 1 <= N PROVE Turn(f[k + 1], m, First(k + 1))
    <3> HIDE DEF First
    <3> QED
      OBVIOUS
  <2>1. k + 1 \in 1 .. N /\ k + 1 \in 0 .. N /\ k + 1 # 0 /\ (k + 1) - 1 = k /\ k <= N
    BY <1>3
  <2>2. PICK i : i = ImportNamed(imports[m], names[k + 1])
    OBVIOUS
  <2>3. i \in imports[m] /\ i.name = names[k + 1] /\ i.name \in Everything /\ i.kind \in {"user", "sys"}
    BY <1>4, <2>1, <2>2
  <2>4. f[k + 1] = WalkImport(f[k], i)
    BY <1>9, <2>1, <2>2
  <2>5. First(k + 1) = First(k) \cup {i.name}
    <3>1. \A j : j \in 1 .. k + 1 <=> j \in 1 .. k \/ j = k + 1
      OBVIOUS
    <3> QED
      BY <2>3, <3>1
  <2>6. Turn(f[k], m, First(k))
    <3> HIDE DEF First
    <3> QED
      BY <2>1
  <2>7. i.name \notin First(k)
    <3> SUFFICES ASSUME NEW j \in 1 .. k, names[j] = names[k + 1] PROVE FALSE
      BY <2>3
    <3>1. j \in 1 .. Len(names) /\ j # k + 1 /\ k + 1 \in 1 .. Len(names)
      BY <1>3, <2>1
    <3> QED
      BY <1>3, <3>1 DEF Distinct
  <2> HIDE DEF First
  <2> QED
    BY <2>3, <2>4, <2>5, <2>6, <2>7, WalkImportKeeps
<1>12. N \in R
  <2>1. N \in Nat
    BY <1>3
  <2> HIDE DEF R, N
  <2> QED
    BY <1>10, <1>11, <2>1, NatSetInduction
<1>13. First(N) = ToSet(names)
  BY <1>3, ItemsFacts DEF ToSet
<1>14. Turn(f[N], m, First(N))
  <2> HIDE DEF First
  <2> QED
    BY <1>3, <1>12
<1> QED
  BY <1>3, <1>8, <1>13, <1>14

(***************************************************************************)
(* The table as a graph, and what the sources say.                         *)
(***************************************************************************)
Succ(x) == NamesOf(table[x]) \cap Modules
Path(x) == KindsIn(table, x, {"user"})
AllEdges == EdgesIn(table, {"user", "sys"})
PathEdges == EdgesIn(table, {"user"})

(* After the walk the table has exactly the edges of the sources.          *)
GraphAt(m) ==
  /\ \A i \in table[m] : /\ Settled(i, Modules, Available)
                         /\ i.kind = "sys" => i.name \in NamesOf(imports[m])
                         /\ Left(i) /\ i.name \in Modules => Shared(i.name)
  /\ \A n : n \in Succ(m) <=> <<m, n>> \in SourceEdges
GraphInv == entry \in Modules /\ \A m \in Modules : GraphAt(m)

(* The search for circles has found none through the modules it is done    *)
(* with.  What is on the stack has been reached from the module it began   *)
(* with, and what a marked module imports is marked or on the stack.       *)
CycleInv ==
  /\ Modules = ReachedFrom(Given, SourceEdges)
  /\ ToSet(starts) \subseteq Modules /\ ToSet(stack) \subseteq Modules
  /\ \A m \in Modules : m \in ToSet(starts) \/ ~OnCircle(m, PathEdges)
  /\ stack # <<>> =>
       /\ starts # <<>>
       /\ \/ marked = {} /\ stack = <<Head(starts)>>
          \/ /\ Head(starts) \in marked /\ marked \subseteq Modules
             /\ ToSet(stack) \subseteq ReachedFrom(Path(Head(starts)), PathEdges)
             /\ \A x \in marked : Path(x) \subseteq ToSet(stack) \cup (marked \ {Head(starts)})

(* The marks spread over what the entry needs.  When all that is on the    *)
(* stack leads to an end everywhere, so does all that is marked.           *)
WipeInv ==
  /\ marked \cup ToSet(stack) \subseteq Modules \cap ReachedFrom({entry}, SourceEdges)
  /\ entry \in marked \cup ToSet(stack)
  /\ \A x \in marked : Succ(x) \subseteq marked \cup ToSet(stack)
  /\ ToSet(stack) \subseteq GroundedIn(Modules, AllEdges) => marked \subseteq GroundedIn(Modules, AllEdges)

(* Then the table has what the entry needs, without a circle, and perhaps  *)
(* some modules that nobody needs.                                         *)
NeededInv ==
  /\ Needed \subseteq Modules
  /\ \A m \in Needed : GraphAt(m) /\ ~OnCircle(m, AllEdges)

(* What each module of a chain needs is before it.                         *)
Behind(c, R) == \A p \in DOMAIN c : \A n \in After(c[p], R) : \E q \in 1 .. (p - 1) : c[q] = n

(* The places F of a stack s are modules that were put back under their    *)
(* imports and are not in the chain c yet; each was pushed by the one      *)
(* below it, or by what that one pushed.                                   *)
OpenAt(F, s, M, c, R) ==
  /\ F \subseteq 1 .. Len(s)
  /\ \A p \in F : s[p] \in M \ ToSet(c)
  /\ \A p, q \in F : s[p] = s[q] => p = q
  /\ M = ToSet(c) \cup {s[p] : p \in F}
  /\ \A p \in F : \A n \in After(s[p], R) : n \in ToSet(c) \/ \E q \in p + 1 .. Len(s) : s[q] = n
  /\ \A p \in F : \A q \in p + 1 .. Len(s) : s[q] \in ReachedFrom(After(s[p], R), R)
  /\ s # <<>> => 1 \in F \/ (Len(s) = 1 /\ M = {})
ChainInv ==
  /\ ToSet(stack) \subseteq Needed /\ ToSet(chain) \subseteq Needed
  /\ Behind(chain, AllEdges)
  /\ IF stack = <<>> THEN chain # <<>> /\ Last(chain) = entry ELSE stack[1] = entry
  /\ \E F : OpenAt(F, stack, marked, chain, AllEdges)

LEMMA SourceEdgesAre ==
  ASSUME ProgramOK
  PROVE  /\ \A e \in SourceEdges : e = <<e[1], e[2]>> /\ e[1] \in Available /\ e[2] \in Available
         /\ \A x, y : <<x, y>> \in SourceEdges <=>
              x \in Available /\ ((y \in NamesOf(imports[x]) /\ y \in Available) \/ (stdlib /\ x # STD /\ y = STD))
<1> DEFINE In(m) == {<<m, i.name>> : i \in {j \in imports[m] : j.name \in Available}}
           Std(m) == IF stdlib /\ m # STD THEN {<<m, STD>>} ELSE {}
<1>1. \A e : e \in SourceEdges <=> \E m \in Available : e \in In(m) \/ e \in Std(m)
  BY DEF SourceEdges
<1>2. \A m, e : e \in In(m) <=> \E n \in NamesOf(imports[m]) : n \in Available /\ e = <<m, n>>
  BY DEF NamesOf
<1>3. \A m, e : e \in Std(m) <=> stdlib /\ m # STD /\ e = <<m, STD>>
  OBVIOUS
<1>4. stdlib => STD \in Available
  BY DEF Available
<1> HIDE DEF In, Std
<1>5. \A e \in SourceEdges : e = <<e[1], e[2]>> /\ e[1] \in Available /\ e[2] \in Available
  <2> TAKE e \in SourceEdges
  <2>1. PICK m \in Available : e \in In(m) \/ e \in Std(m)
    BY <1>1
  <2>2. \E n \in Available : e = <<m, n>>
    BY <1>2, <1>3, <1>4, <2>1
  <2> QED
    BY <2>2
<1>6. ASSUME NEW x, NEW y
      PROVE  <<x, y>> \in SourceEdges <=>
               x \in Available /\ ((y \in NamesOf(imports[x]) /\ y \in Available) \/ (stdlib /\ x # STD /\ y = STD))
  <2>1. \A m : <<x, y>> \in In(m) <=> x = m /\ y \in NamesOf(imports[x]) /\ y \in Available
    <3> TAKE m
    <3>1. \A n : <<x, y>> = <<m, n>> <=> x = m /\ y = n
      OBVIOUS
    <3> QED
      BY <1>2, <3>1
  <2>2. \A m : <<x, y>> \in Std(m) <=> x = m /\ stdlib /\ x # STD /\ y = STD
    <3> TAKE m
    <3>1. <<x, y>> = <<m, STD>> <=> x = m /\ y = STD
      OBVIOUS
    <3> QED
      BY <1>3, <3>1
  <2> QED
    BY <1>1, <2>1, <2>2
<1> QED
  BY <1>5, <1>6

LEMMA ReachedAvailable ==
  ASSUME ProgramOK
  PROVE  ReachedFrom(Given, SourceEdges) \subseteq Available
<1>1. Given \subseteq Available
  BY DEF Given, Available
<1>2. ClosedUnder(Available, SourceEdges)
  BY SourceEdgesAre DEF ClosedUnder
<1> QED
  BY <1>1, <1>2, ReachWithin

LEMMA SameSources ==
  ASSUME UNCHANGED <<users, imports, stdlib>>
  PROVE  Given' = Given /\ Available' = Available /\ SourceEdges' = SourceEdges /\ ProgramOK' = ProgramOK
<1>1. Given' = Given /\ Available' = Available
  BY DEF Given, Available
<1>2. SourceEdges' = SourceEdges
  BY <1>1 DEF SourceEdges
<1>3. ProgramOK' = ProgramOK
  BY DEF ProgramOK
<1> QED
  BY <1>1, <1>2, <1>3

LEMMA DistinctFront ==
  ASSUME NEW T, NEW s \in Seq(T), s # <<>>, Distinct(s)
  PROVE  Distinct(Front(s)) /\ Last(s) \notin ToSet(Front(s))
<1>1. PICK f : f = Front(s)
  OBVIOUS
<1>2. /\ f \in Seq(T) /\ Len(f) = Len(s) - 1 /\ Last(s) = s[Len(s)] /\ Len(s) > 0
      /\ \A i \in 1 .. Len(s) - 1 : f[i] = s[i]
  BY <1>1, FrontItems
<1>3. Len(s) \in Nat
  BY LenProperties
<1>4. Distinct(f)
  BY <1>2, <1>3 DEF Distinct
<1>5. Last(s) \notin ToSet(f)
  <2> SUFFICES ASSUME Last(s) \in ToSet(f) PROVE FALSE
    OBVIOUS
  <2>1. PICK i \in 1 .. Len(f) : f[i] = Last(s)
    BY <1>2, InItems
  <2>2. i \in 1 .. Len(s) /\ i # Len(s) /\ s[i] = s[Len(s)]
    BY <1>2, <1>3, <2>1
  <2> QED
    BY <1>2, <1>3, <2>2 DEF Distinct
<1> QED
  BY <1>1, <1>4, <1>5

(***************************************************************************)
(* The steps of the walk.                                                  *)
(***************************************************************************)
LEMMA WalkItemKeeps ==
  ASSUME ProgramOK, ListsOK, WalkInv, WalkItem, at' = at, loadedLibs' = loadedLibs
  PROVE  ListsOK' /\ WalkInv'
<1>1. PICK m, w : m = Last(pending) /\ w = Walked(m)
  OBVIOUS
<1>2. /\ table' = Add(m, w.is) /\ loaded' = loaded \cup {m} /\ pending' = Front(w.pending)
      /\ entry' = (IF m = entryName THEN m ELSE entry) /\ ~w.missing /\ pending # <<>>
      /\ UNCHANGED <<users, imports, stdlib, starts, marked, stack, chain>>
  BY <1>1 DEF WalkItem
<1>3. pending \in Seq(Everything) /\ m \in ToSet(pending) /\ m \in Everything
  BY <1>1, <1>2, FrontItems DEF ListsOK
<1>4. Turn(w, m, NamesOf(imports[m]))
  BY <1>1, <1>2, <1>3, WalkedFacts
<1>5. w.pending \in Seq(Everything) /\ w.is \subseteq Import /\ w.pending # <<>> /\ Distinct(w.pending) /\ Last(w.pending) = m
  BY <1>1, <1>4 DEF Turn, WalkRecord
<1>6. pending' \in Seq(Everything) /\ ToSet(w.pending) = ToSet(pending') \cup {m}
  BY <1>2, <1>5, FrontItems
<1>7. Distinct(pending') /\ m \notin ToSet(pending')
  BY <1>2, <1>5, DistinctFront
<1>8. Modules' = Modules \cup {m} /\ table'[m] = w.is /\ \A x \in Modules : x # m => table'[x] = table[x]
  BY <1>2 DEF Add, Modules
<1>9. m \notin loaded
  BY <1>3 DEF WalkInv
<1>10. Met' = loaded \cup ToSet(w.pending) /\ Met \subseteq Met'
  BY <1>2, <1>4, <1>6 DEF Met, Turn
<1>11. Given' = Given /\ Available' = Available /\ SourceEdges' = SourceEdges /\ ProgramOK'
  BY <1>2, SameSources
<1>12. Met' \subseteq ReachedFrom(Given, SourceEdges)
  <2> SUFFICES ASSUME NEW n \in Met' PROVE n \in ReachedFrom(Given, SourceEdges)
    OBVIOUS
  <2>1. CASE n \in Met
    BY <2>1 DEF WalkInv
  <2>2. CASE n \notin Met
    <3>1. n \in Libraries /\ n \in NamesOf(imports[m])
      BY <1>4, <1>10, <2>2 DEF Met, Turn
    <3>2. m \in ReachedFrom(Given, SourceEdges)
      BY <1>3 DEF WalkInv, Met
    <3>3. m \in Available /\ n \in Available
      BY <3>1, <3>2, ReachedAvailable DEF Available
    <3>4. <<m, n>> \in SourceEdges /\ <<m, n>>[1] = m /\ <<m, n>>[2] = n
      BY <3>1, <3>3, SourceEdgesAre
    <3> QED
      BY <3>2, <3>4, ReachHas DEF ClosedUnder
  <2> QED
    BY <2>1, <2>2
<1>13. ListsOK'
  <2>1. TableOK(table')
    <3>1. DOMAIN table' \subseteq Everything
      BY <1>3, <1>8 DEF ListsOK, TableOK, Modules
    <3>2. \A x \in DOMAIN table' : table'[x] \subseteq Import
      BY <1>5, <1>8 DEF ListsOK, TableOK, Modules
    <3> QED
      BY <3>1, <3>2 DEF TableOK
  <2> QED
    BY <1>2, <1>3, <1>6, <1>7, <2>1 DEF ListsOK
<1>14. WalkInv'
  <2>1. Modules' = loaded' /\ loaded' \cap ToSet(pending') = {}
    BY <1>2, <1>4, <1>6, <1>7, <1>8 DEF WalkInv, Turn
  <2>2. ASSUME NEW x \in Modules'
        PROVE  NamesOf(table'[x]) = NamesOf(imports[x]) /\ \A i \in table'[x] : Settled(i, Met', Available)
    <3>1. CASE x = m
      BY <1>2, <1>4, <1>8, <1>10, <3>1 DEF Turn
    <3>2. CASE x # m
      <4>1. x \in Modules /\ table'[x] = table[x]
        BY <1>8, <3>2
      <4>2. \A i \in table[x] : Settled(i, Met, Available)
        BY <4>1 DEF WalkInv
      <4>3. \A i \in table[x] : Settled(i, Met', Available)
        BY <1>10, <4>2 DEF Settled
      <4> QED
        BY <4>1, <4>3 DEF WalkInv
    <3> QED
      BY <3>1, <3>2
  <2>3. entry' \in Modules' \cup {""} /\ chain' = <<>> /\ stack' = <<>>
    BY <1>2, <1>8 DEF WalkInv
  <2>4. Given' \subseteq Met'
    BY <1>10, <1>11 DEF WalkInv
  <2>5. \A x, n : AsksFor(x, n)' = AsksFor(x, n)
    BY <1>2 DEF AsksFor
  <2>6. ASSUME NEW n \in Met' \ Given PROVE \E k \in loaded' : AsksFor(k, n)
    <3>1. CASE n \in Met
      BY <1>2, <2>6, <3>1 DEF WalkInv
    <3>2. CASE n \notin Met
      <4>1. n \in ToSet(w.pending) \ ToSet(pending)
        BY <1>10, <2>6, <3>2 DEF Met
      <4> QED
        BY <1>2, <1>4, <4>1 DEF Turn
    <3> QED
      BY <3>1, <3>2
  <2>7. \A n : Shared(n) => Shared(n)'
    BY <1>2, <2>5 DEF Shared
  <2>8. ASSUME NEW x \in Modules', NEW i \in table'[x], Left(i), i.name \in Met' PROVE Shared(i.name)'
    <3>1. i.name \in Available
      BY <1>12, <2>8, ReachedAvailable
    <3>2. CASE x = m
      <4>1. i \in w.is /\ AsksFor(m, i.name) /\ i.name \in Met
        BY <1>4, <1>8, <2>8, <3>1, <3>2 DEF Turn, Left
      <4>2. CASE i.name \in Given
        BY <1>2, <4>2 DEF Shared, Given
      <4>3. CASE i.name \notin Given
        <5>1. PICK k \in loaded : AsksFor(k, i.name)
          BY <4>1, <4>3 DEF WalkInv
        <5>2. k # m /\ k \in loaded' /\ m \in loaded'
          BY <1>2, <1>9
        <5> QED
          BY <2>5, <4>1, <5>1, <5>2 DEF Shared
      <4> QED
        BY <4>2, <4>3
    <3>3. CASE x # m
      <4>1. x \in Modules /\ i \in table[x]
        BY <1>8, <2>8, <3>3
      <4>2. Settled(i, Met, Available)
        BY <4>1 DEF WalkInv
      <4>3. Shared(i.name)
        BY <2>8, <3>1, <4>1, <4>2 DEF WalkInv, Settled
      <4> QED
        BY <2>7, <4>3
    <3> QED
      BY <3>2, <3>3
  <2>9. \A n \in Met' \ Given' : \E k \in loaded' : AsksFor(k, n)'
    BY <1>11, <2>5, <2>6
  <2> QED
    BY <1>2, <1>11, <1>12, <2>1, <2>2, <2>3, <2>4, <2>8, <2>9 DEF WalkInv
<1> QED
  BY <1>13, <1>14

LEMMA WalkDoneKeeps ==
  ASSUME ProgramOK, ListsOK, WalkInv, WalkDone, at' = at, loadedLibs' = loadedLibs
  PROVE  ListsOK' /\ GraphInv' /\ CycleInv'
<1>1. /\ pending = <<>> /\ EntryFound
      /\ entry' = (IF entry # "" THEN entry ELSE CHOOSE m \in Modules : TRUE)
      /\ table' = [m \in Modules |-> IF stdlib /\ m # STD THEN table[m] \cup {StdImport} ELSE table[m]]
      /\ starts' = InOrder(Modules)
      /\ UNCHANGED <<users, imports, stdlib, pending, loaded, marked, stack, chain>>
  BY DEF WalkDone
<1>2. Modules' = Modules /\ Modules = loaded /\ Modules \subseteq Everything
  BY <1>1 DEF Modules, WalkInv, ListsOK, TableOK
<1>3. Met = Modules
  <2>1. ToSet(pending) = {}
    BY <1>1, ItemsFacts DEF ListsOK
  <2> QED
    BY <1>2, <2>1 DEF Met
<1>4. Given' = Given /\ Available' = Available /\ SourceEdges' = SourceEdges /\ ProgramOK'
  BY <1>1, SameSources
<1>5. Modules \subseteq Available
  BY <1>3, ReachedAvailable DEF WalkInv
<1>6. entry' \in Modules
  <2>1. CASE entry # ""
    BY <1>1, <2>1 DEF WalkInv
  <2>2. CASE entry = ""
    <3>1. Modules # {}
      <4>1. Cardinality({}) = 0
        BY FS_EmptySet
      <4>2. Cardinality(Modules) = 1
        BY <1>1, <2>2 DEF EntryFound
      <4> QED
        BY <4>1, <4>2
    <3> QED
      BY <1>1, <2>2, <3>1
  <2> QED
    BY <2>1, <2>2
<1>7. StdImport.name = STD /\ StdImport.kind = "user" /\ (stdlib => StdImport \in Import /\ STD \in Modules)
  <2>1. stdlib => STD \in Given /\ STD \in Everything
    BY DEF Given, ProgramOK
  <2>2. StdImport.name = STD /\ StdImport.kind = "user"
    BY DEF StdImport
  <2>3. stdlib => StdImport \in Import
    BY <2>1 DEF StdImport, Import
  <2> QED
    BY <1>3, <2>1, <2>2, <2>3 DEF WalkInv
<1>8. \A x \in Modules : \A i : i \in table'[x] <=> i \in table[x] \/ (stdlib /\ x # STD /\ i = StdImport)
  BY <1>1
<1>9. TableOK(table')
  <2>1. DOMAIN table' = Modules
    BY <1>1
  <2> QED
    BY <1>2, <1>7, <1>8, <2>1 DEF TableOK, ListsOK, Modules
<1>10. InOrder(Modules) \in Seq(Everything) /\ ToSet(InOrder(Modules)) = Modules
  BY <1>2, InOrderFacts
<1>11. ListsOK'
  BY <1>1, <1>2, <1>6, <1>9, <1>10 DEF ListsOK
<1>12. ASSUME NEW m \in Modules, NEW i \in table'[m]
       PROVE  /\ Settled(i, Modules, Available) /\ (i.kind = "sys" => i.name \in NamesOf(imports[m]))
              /\ Left(i) /\ i.name \in Modules => Shared(i.name)
  <2>1. CASE i \in table[m]
    <3>1. Settled(i, Met, Available) /\ NamesOf(table[m]) = NamesOf(imports[m])
      BY <2>1 DEF WalkInv
    <3>2. i.name \in NamesOf(table[m])
      BY <2>1 DEF NamesOf
    <3>3. Left(i) /\ i.name \in Met => Shared(i.name)
      BY <2>1 DEF WalkInv
    <3> QED
      BY <1>3, <3>1, <3>2, <3>3
  <2>2. CASE stdlib /\ i = StdImport
    BY <1>7, <2>2 DEF Settled, Left
  <2> QED
    BY <1>8, <2>1, <2>2
<1>13. ASSUME NEW m \in Modules, NEW n
       PROVE  n \in NamesOf(table'[m]) \cap Modules <=> <<m, n>> \in SourceEdges
  <2>1. n \in NamesOf(table'[m]) <=> n \in NamesOf(imports[m]) \/ (stdlib /\ m # STD /\ n = STD)
    <3>1. n \in NamesOf(table'[m]) <=> n \in NamesOf(table[m]) \/ (stdlib /\ m # STD /\ n = STD)
      BY <1>7, <1>8 DEF NamesOf
    <3> QED
      BY <3>1 DEF WalkInv
  <2>2. ASSUME n \in NamesOf(imports[m]), n \in Available PROVE n \in Modules
    <3>0. n \in NamesOf(table[m])
      BY <2>2 DEF WalkInv
    <3>1. PICK i \in table[m] : i.name = n
      BY <3>0 DEF NamesOf
    <3>2. Settled(i, Met, Available)
      BY DEF WalkInv
    <3> QED
      BY <1>3, <2>2, <3>1, <3>2 DEF Settled
  <2>3. m \in Available
    BY <1>5
  <2> QED
    BY <1>5, <1>7, <2>1, <2>2, <2>3, SourceEdgesAre
<1>14. GraphInv'
  <2>1. \A m \in Modules' : \A n : n \in Succ(m)' <=> <<m, n>> \in SourceEdges'
    BY <1>2, <1>4, <1>13 DEF Succ
  <2>2. \A n : Shared(n)' = Shared(n)
    BY <1>1 DEF Shared, AsksFor
  <2>3. \A m \in Modules' : \A i \in table'[m] :
          /\ Settled(i, Modules', Available') /\ (i.kind = "sys" => i.name \in NamesOf(imports[m])')
          /\ Left(i) /\ i.name \in Modules' => Shared(i.name)'
    <3>1. \A m : NamesOf(imports[m])' = NamesOf(imports[m])
      BY <1>1 DEF NamesOf
    <3> QED
      BY <1>2, <1>4, <1>12, <2>2, <3>1
  <2>4. \A m \in Modules' : GraphAt(m)'
    BY <2>1, <2>3 DEF GraphAt
  <2> QED
    BY <1>2, <1>6, <2>4 DEF GraphInv
<1>15. Modules = ReachedFrom(Given, SourceEdges)
  <2>1. ClosedUnder(Modules, SourceEdges)
    BY <1>13, SourceEdgesAre DEF ClosedUnder
  <2> QED
    BY <1>3, <2>1, ReachWithin DEF WalkInv
<1>16. CycleInv'
  <2>1. stack' = <<>> /\ ToSet(stack') = {}
    BY <1>1, <1>11, ItemsFacts DEF WalkInv, ListsOK
  <2>2. ToSet(starts') = Modules
    BY <1>1, <1>10
  <2> QED
    BY <1>2, <1>4, <1>15, <2>1, <2>2 DEF CycleInv
<1> QED
  BY <1>11, <1>14, <1>16

LEMMA OneItem ==
  ASSUME NEW T, NEW x \in T
  PROVE  <<x>> \in Seq(T) /\ Len(<<x>>) = 1 /\ <<x>>[1] = x /\ ToSet(<<x>>) = {x} /\ Distinct(<<x>>) /\ <<x>> # <<>>
<1>1. PICK u : u = <<x>>
  OBVIOUS
<1>2. u \in Seq(T) /\ Len(u) = 1 /\ u[1] = x
  BY <1>1
<1>3. DOMAIN u = 1 .. Len(u) /\ u # <<>>
  BY <1>2, ItemsFacts
<1>4. \A k : k \in 1 .. Len(u) <=> k = 1
  BY <1>2
<1>5. ToSet(u) = {x} /\ Distinct(u)
  BY <1>2, <1>3, <1>4 DEF ToSet, Distinct
<1> QED
  BY <1>1, <1>2, <1>3, <1>5

LEMMA HeadItems ==
  ASSUME NEW T, NEW s \in Seq(T), s # <<>>
  PROVE  /\ Head(s) \in ToSet(s) /\ Tail(s) \in Seq(T)
         /\ ToSet(s) = {Head(s)} \cup ToSet(Tail(s))
<1>1. PICK t : t = Tail(s)
  OBVIOUS
<1>2. t \in Seq(T) /\ Len(t) = Len(s) - 1 /\ \A i \in 1 .. Len(t) : t[i] = s[i + 1]
  BY <1>1, HeadTailProperties
<1>3. Len(s) \in Nat /\ Len(s) > 0
  BY ItemsFacts
<1>4. Head(s) = s[1]
  OBVIOUS
<1>5. Head(s) \in ToSet(s)
  BY <1>3, <1>4, ItemsFacts
<1>6. ASSUME NEW x \in ToSet(s), x # Head(s) PROVE x \in ToSet(t)
  <2>1. PICK i \in 1 .. Len(s) : s[i] = x
    BY InItems
  <2>2. i - 1 \in 1 .. Len(t) /\ (i - 1) + 1 = i
    BY <1>2, <1>3, <1>4, <1>6, <2>1
  <2>3. t[i - 1] = x
    BY <1>2, <2>1, <2>2
  <2> QED
    BY <1>2, <2>2, <2>3, InItems
<1>7. ASSUME NEW x \in ToSet(t) PROVE x \in ToSet(s)
  <2>1. PICK i \in 1 .. Len(t) : t[i] = x
    BY <1>2, InItems
  <2>2. i + 1 \in 1 .. Len(s) /\ s[i + 1] = x
    BY <1>2, <1>3, <2>1
  <2> QED
    BY <2>2, InItems
<1> QED
  BY <1>1, <1>2, <1>5, <1>6, <1>7

(* Two ways to say what a module imports.                                  *)
LEMMA GraphFacts ==
  ASSUME ListsOK
  PROVE  /\ \A m \in Modules : /\ m \in Everything
                               /\ KindsIn(table, m, {"user", "sys"}) = NamesOf(table[m])
                               /\ After(m, AllEdges) = Succ(m) /\ Succ(m) \subseteq Modules
         /\ GraphInv => \A m \in Modules : /\ After(m, PathEdges) = Path(m) /\ Path(m) \subseteq Modules
<1>1. Modules \subseteq Everything /\ \A m \in Modules : table[m] \subseteq Import
  BY DEF ListsOK, TableOK, Modules
<1>2. ASSUME NEW m \in Modules
      PROVE  /\ KindsIn(table, m, {"user", "sys"}) = NamesOf(table[m])
             /\ After(m, AllEdges) = Succ(m)
  <2>1. \A i \in table[m] : i.kind \in {"user", "sys"}
    BY <1>1 DEF Import
  <2>2. KindsIn(table, m, {"user", "sys"}) = NamesOf(table[m])
    BY <2>1 DEF KindsIn, NamesOf
  <2> QED
    BY <2>2, EdgesAre DEF AllEdges, Succ, Modules
<1>3. ASSUME GraphInv, NEW m \in Modules
      PROVE  After(m, PathEdges) = Path(m) /\ Path(m) \subseteq Modules
  <2>1. ASSUME NEW n \in Path(m) PROVE n \in Modules
    <3>1. PICK i \in table[m] : i.kind = "user" /\ i.name = n
      BY <2>1 DEF Path, KindsIn
    <3>2. Settled(i, Modules, Available)
      BY <1>3 DEF GraphInv, GraphAt
    <3> QED
      BY <3>1, <3>2 DEF Settled
  <2>2. After(m, PathEdges) = Path(m) \cap Modules
    BY EdgesAre DEF PathEdges, Path, Modules
  <2> QED
    BY <2>1, <2>2
<1> QED
  BY <1>1, <1>2, <1>3 DEF Succ

LEMMA GraphKept ==
  ASSUME UNCHANGED <<users, imports, stdlib, loaded, table, entry>>
  PROVE  /\ Given' = Given /\ Available' = Available /\ SourceEdges' = SourceEdges /\ ProgramOK' = ProgramOK
         /\ GraphInv' = GraphInv /\ Modules' = Modules /\ PathEdges' = PathEdges /\ AllEdges' = AllEdges
         /\ \A x : Path(x)' = Path(x) /\ Succ(x)' = Succ(x)
         /\ NeededInv' = NeededInv /\ Needed' = Needed /\ \A n : Shared(n)' = Shared(n)
<1>1. Given' = Given /\ Available' = Available /\ SourceEdges' = SourceEdges /\ ProgramOK' = ProgramOK
  BY SameSources
<1>2. Modules' = Modules /\ PathEdges' = PathEdges /\ AllEdges' = AllEdges
  BY DEF Modules, PathEdges, AllEdges
<1>3. \A x : Path(x)' = Path(x) /\ Succ(x)' = Succ(x)
  BY <1>2 DEF Path, Succ
<1>4. Needed' = Needed /\ \A n : Shared(n)' = Shared(n)
  BY <1>1 DEF Needed, Shared, AsksFor
<1>5. \A m : GraphAt(m)' = GraphAt(m)
  <2> TAKE m
  <2>1. UNCHANGED table /\ NamesOf(imports[m])' = NamesOf(imports[m])
    BY DEF NamesOf
  <2> QED
    BY <1>1, <1>2, <1>3, <1>4, <2>1 DEF GraphAt
<1>6. GraphInv' = GraphInv
  BY <1>2, <1>5 DEF GraphInv
<1>7. NeededInv' = NeededInv
  BY <1>2, <1>4, <1>5 DEF NeededInv
<1> QED
  BY <1>1, <1>2, <1>3, <1>4, <1>6, <1>7

(***************************************************************************)
(* The steps of the search for circles.                                    *)
(***************************************************************************)
LEMMA BeginStartKeeps ==
  ASSUME ListsOK, GraphInv, CycleInv, BeginStart, at' = at, loadedLibs' = loadedLibs
  PROVE  ListsOK' /\ GraphInv' /\ CycleInv'
<1>1. /\ stack = <<>> /\ starts # <<>> /\ stack' = <<Head(starts)>> /\ marked' = {}
      /\ UNCHANGED <<users, imports, stdlib, pending, loaded, table, entry, starts, chain>>
  BY DEF BeginStart
<1>2. Head(starts) \in ToSet(starts) /\ ToSet(starts) \subseteq Everything
  BY <1>1, HeadItems, ItemsFacts DEF ListsOK
<1>3. stack' \in Seq(Everything) /\ ToSet(stack') = {Head(starts)}
  BY <1>1, <1>2, OneItem
<1>4. ListsOK'
  BY <1>1, <1>3 DEF ListsOK
<1>5. CycleInv'
  BY <1>1, <1>2, <1>3, GraphKept DEF CycleInv
<1> QED
  BY <1>1, <1>4, <1>5, GraphKept

(* What one turn does to the stack and the marks.                          *)
LEMMA LookFacts ==
  ASSUME ListsOK, GraphInv, CycleInv, LookFromHere
  PROVE  /\ stack # <<>> /\ starts # <<>> /\ Last(stack) \in Modules
         /\ UNCHANGED <<users, imports, stdlib, pending, loaded, table, entry, chain>>
         /\ marked' = marked \cup {Last(stack)} /\ ~Circle(Last(stack))
         /\ stack' \in Seq(Everything)
         /\ ToSet(stack) = ToSet(Front(stack)) \cup {Last(stack)}
         /\ ToSet(stack') = ToSet(Front(stack)) \cup (IF Last(stack) \in marked THEN {} ELSE Path(Last(stack)))
         /\ starts' = IF stack' = <<>> THEN Tail(starts) ELSE starts
<1>1. PICK m : m = Last(stack)
  OBVIOUS
<1>2. /\ stack # <<>> /\ marked' = marked \cup {m} /\ ~Circle(m) /\ stack' = Front(stack) \o InOrder(Opened(m))
      /\ starts' = (IF stack' = <<>> THEN Tail(starts) ELSE starts)
      /\ UNCHANGED <<users, imports, stdlib, pending, loaded, table, entry, chain>>
  BY <1>1 DEF LookFromHere
<1>3. /\ stack \in Seq(Everything) /\ m \in ToSet(stack) /\ Front(stack) \in Seq(Everything)
      /\ ToSet(stack) = ToSet(Front(stack)) \cup {m}
  BY <1>1, <1>2, FrontItems DEF ListsOK
<1>4. m \in Modules
  BY <1>3 DEF CycleInv
<1>5. Opened(m) = (IF m \in marked THEN {} ELSE Path(m)) /\ Opened(m) \subseteq Everything
  <2>1. Kinds(m, {"user"}) = Path(m)
    BY EdgesHere DEF Path
  <2>2. Path(m) \subseteq Everything
    BY <1>4, GraphFacts
  <2> QED
    BY <2>1, <2>2 DEF Opened
<1>6. InOrder(Opened(m)) \in Seq(Everything) /\ ToSet(InOrder(Opened(m))) = Opened(m)
  BY <1>5, InOrderFacts
<1>7. stack' \in Seq(Everything) /\ ToSet(stack') = ToSet(Front(stack)) \cup Opened(m)
  BY <1>2, <1>3, <1>6, ConcatItems
<1>8. starts # <<>>
  BY <1>2 DEF CycleInv
<1> QED
  BY <1>1, <1>2, <1>3, <1>4, <1>5, <1>7, <1>8

LEMMA LookFromHereKeeps ==
  ASSUME ListsOK, GraphInv, CycleInv, LookFromHere, at' = at, loadedLibs' = loadedLibs
  PROVE  ListsOK' /\ GraphInv' /\ CycleInv'
<1>1. PICK m, s, f, new : m = Last(stack) /\ s = Head(starts) /\ f = ToSet(Front(stack)) /\ new = (IF m \in marked THEN {} ELSE Path(m))
  OBVIOUS
<1>2. /\ stack # <<>> /\ starts # <<>> /\ m \in Modules
      /\ UNCHANGED <<users, imports, stdlib, pending, loaded, table, entry, chain>>
      /\ marked' = marked \cup {m} /\ ~Circle(m)
      /\ stack' \in Seq(Everything) /\ ToSet(stack) = f \cup {m} /\ ToSet(stack') = f \cup new
      /\ starts' = IF stack' = <<>> THEN Tail(starts) ELSE starts
  BY <1>1, LookFacts
<1>3. s \in ToSet(starts) /\ starts \in Seq(Everything) /\ s \in Modules
  BY <1>1, <1>2, HeadItems DEF ListsOK, CycleInv
<1>4. \A x \in Modules : After(x, PathEdges) = Path(x) /\ Path(x) \subseteq Modules
  BY GraphFacts
<1>5. /\ s \in marked' /\ marked' \subseteq Modules /\ ToSet(stack') \subseteq Modules
      /\ ToSet(stack') \subseteq ReachedFrom(Path(s), PathEdges)
      /\ \A x \in marked' : Path(x) \subseteq ToSet(stack') \cup (marked' \ {s})
  <2>1. CASE marked = {} /\ stack = <<s>>
    <3>1. m = s /\ f = {}
      <4>1. s \in Everything
        BY <1>3, GraphFacts
      <4>2. Len(stack) = 1 /\ stack[1] = s
        BY <2>1, <4>1, OneItem
      <4>3. Front(stack) \in Seq(Everything) /\ Len(Front(stack)) = 0
        <5>1. stack \in Seq(Everything) /\ stack # <<>>
          BY <1>2 DEF ListsOK
        <5>2. Front(stack) \in Seq(Everything) /\ Len(Front(stack)) = Len(stack) - 1
          BY <5>1, FrontItems
        <5> QED
          BY <4>2, <5>2
      <4>4. \A i : i \notin 1 .. Len(Front(stack))
        BY <4>3
      <4>5. f = {}
        BY <1>1, <4>3, <4>4, InItems
      <4> QED
        BY <1>1, <4>2, <4>5 DEF Last
    <3>2. ToSet(stack') = Path(s) /\ marked' = {s}
      BY <1>1, <1>2, <2>1, <3>1
    <3> QED
      BY <1>3, <1>4, <3>2, ReachHas
  <2>2. CASE /\ s \in marked /\ marked \subseteq Modules
             /\ ToSet(stack) \subseteq ReachedFrom(Path(s), PathEdges)
             /\ \A x \in marked : Path(x) \subseteq ToSet(stack) \cup (marked \ {s})
    <3>1. m # s
      BY <1>1, <1>2, <2>2 DEF Circle
    <3>2. m \in ReachedFrom(Path(s), PathEdges)
      BY <1>2, <2>2
    <3>3. Path(m) \subseteq ReachedFrom(Path(s), PathEdges) /\ Path(m) \subseteq Modules
      <4>1. ASSUME NEW n \in Path(m) PROVE n \in ReachedFrom(Path(s), PathEdges)
        <5>1. PICK e \in PathEdges : e[1] = m /\ e[2] = n
          BY <1>2, <1>4, <4>1, AfterIs
        <5> QED
          BY <3>2, <5>1, ReachHas DEF ClosedUnder
      <4> QED
        BY <1>2, <1>4, <4>1
    <3>4. f \subseteq Modules
      BY <1>2 DEF CycleInv
    <3>5. ASSUME NEW x \in marked' PROVE Path(x) \subseteq ToSet(stack') \cup (marked' \ {s})
      <4>1. CASE x \in marked
        BY <1>2, <2>2, <3>1, <4>1
      <4>2. CASE x \notin marked
        BY <1>1, <1>2, <4>2
      <4> QED
        BY <4>1, <4>2
    <3> QED
      BY <1>1, <1>2, <2>2, <3>2, <3>3, <3>4, <3>5
  <2> QED
    BY <1>1, <1>2, <2>1, <2>2 DEF CycleInv
<1>6. Tail(starts) \in Seq(Everything) /\ ToSet(starts) = {s} \cup ToSet(Tail(starts))
  BY <1>1, <1>2, <1>3, HeadItems
<1>7. ListsOK'
  <2>1. starts' \in Seq(Everything)
    BY <1>2, <1>3, <1>6
  <2>2. marked' \subseteq Everything
    BY <1>5, GraphFacts
  <2> QED
    BY <1>2, <2>1, <2>2 DEF ListsOK
<1>8. stack' = <<>> => ~OnCircle(s, PathEdges)
  <2> SUFFICES ASSUME stack' = <<>> PROVE s \notin ReachedFrom(Path(s), PathEdges)
    BY <1>3, <1>4, CircleIs
  <2>1. ToSet(stack') = {}
    BY <1>2, ItemsFacts
  <2>2. \A x \in marked' : Path(x) \subseteq marked' \ {s}
    BY <1>5, <2>1
  <2>3. ClosedUnder(marked' \ {s}, PathEdges)
    <3> SUFFICES ASSUME NEW e \in PathEdges, e[1] \in marked' \ {s} PROVE e[2] \in marked' \ {s}
      BY DEF ClosedUnder
    <3>1. e[2] \in After(e[1], PathEdges)
      BY AfterIs
    <3> QED
      BY <1>4, <1>5, <2>2, <3>1
  <2>4. Path(s) \subseteq marked' \ {s}
    BY <1>5, <2>2
  <2> QED
    BY <2>3, <2>4, ReachWithin
<1>9. CycleInv'
  <2>1. ToSet(starts') \subseteq Modules /\ \A x \in Modules : x \in ToSet(starts') \/ ~OnCircle(x, PathEdges)
    BY <1>2, <1>6, <1>8 DEF CycleInv
  <2>2. stack' # <<>> => starts' # <<>> /\ Head(starts') = s
    BY <1>1, <1>2
  <2>3. Modules = ReachedFrom(Given, SourceEdges)
    BY DEF CycleInv
  <2> QED
    BY <1>2, <1>5, <2>1, <2>2, <2>3, GraphKept DEF CycleInv
<1> QED
  BY <1>2, <1>7, <1>9, GraphKept

LEMMA CircleFoundFacts ==
  ASSUME ListsOK, GraphInv, CycleInv, CircleFound
  PROVE  OnCircle(Head(starts), PathEdges)
<1>1. stack # <<>> /\ Last(stack) \in marked /\ Last(stack) = Head(starts)
  BY DEF CircleFound, Circle
<1>2. Last(stack) \in ToSet(stack) /\ Last(stack) \in Modules
  BY <1>1, FrontItems DEF ListsOK, CycleInv
<1>3. Head(starts) \in ReachedFrom(Path(Head(starts)), PathEdges)
  BY <1>1, <1>2 DEF CycleInv
<1> QED
  BY <1>1, <1>2, <1>3, GraphFacts, CircleIs

LEMMA NoCircleKeeps ==
  ASSUME ListsOK, GraphInv, CycleInv, NoCircle, at' = at, loadedLibs' = loadedLibs
  PROVE  ListsOK' /\ GraphInv' /\ WipeInv' /\ \A m \in Modules' : ~OnCircle(m, PathEdges')
<1>1. /\ starts = <<>> /\ marked' = {} /\ stack' = <<entry>>
      /\ UNCHANGED <<users, imports, stdlib, pending, loaded, table, entry, starts, chain>>
  BY DEF NoCircle
<1>2. entry \in Modules /\ entry \in Everything
  BY GraphFacts DEF GraphInv
<1>3. stack' \in Seq(Everything) /\ ToSet(stack') = {entry}
  BY <1>1, <1>2, OneItem
<1>4. ListsOK'
  BY <1>1, <1>3 DEF ListsOK
<1>5. ToSet(starts) = {}
  BY <1>1, ItemsFacts DEF ListsOK
<1>6. \A m \in Modules' : ~OnCircle(m, PathEdges')
  BY <1>1, <1>5, GraphKept DEF CycleInv
<1>7. entry \in ReachedFrom({entry}, SourceEdges)
  BY ReachHas
<1>8. WipeInv'
  BY <1>1, <1>2, <1>3, <1>7, GraphKept DEF WipeInv
<1> QED
  BY <1>1, <1>4, <1>6, <1>8, GraphKept

(***************************************************************************)
(* The steps that remove what is not used.                                 *)
(***************************************************************************)
LEMMA UsedIs ==
  ASSUME ListsOK, NEW m \in Modules
  PROVE  Used(m) \cap Modules = Succ(m) /\ Children(m) \cap Modules = Succ(m) /\ Succ(m) \subseteq Everything
<1>1. Kinds(m, {"user", "sys"}) = KindsIn(table, m, {"user", "sys"})
  BY EdgesHere
<1>2. KindsIn(table, m, {"user", "sys"}) = NamesOf(table[m]) /\ Succ(m) \subseteq Modules
  BY GraphFacts
<1>3. Modules \subseteq Everything
  BY GraphFacts
<1> QED
  BY <1>1, <1>2, <1>3 DEF Used, Children, Succ

(* What a module pushes: its neighbours, each once.                        *)
LEMMA PushedFacts ==
  ASSUME ListsOK, NEW m \in Modules, NEW s \in Seq(Everything)
  PROVE  /\ Pushed(s, Used(m)) = s \o InOrder(Succ(m)) /\ Pushed(s, Children(m)) = s \o InOrder(Succ(m))
         /\ InOrder(Succ(m)) \in Seq(Everything) /\ ToSet(InOrder(Succ(m))) = Succ(m)
         /\ Pushed(s, Used(m)) \in Seq(Everything) /\ ToSet(Pushed(s, Used(m))) = ToSet(s) \cup Succ(m)
<1>1. Pushed(s, Used(m)) = s \o InOrder(Succ(m)) /\ Pushed(s, Children(m)) = s \o InOrder(Succ(m))
  BY UsedIs DEF Pushed
<1>2. InOrder(Succ(m)) \in Seq(Everything) /\ ToSet(InOrder(Succ(m))) = Succ(m)
  BY UsedIs, InOrderFacts
<1>3. Pushed(s, Used(m)) \in Seq(Everything) /\ ToSet(Pushed(s, Used(m))) = ToSet(s) \cup Succ(m)
  BY <1>1, <1>2, ConcatItems
<1> QED
  BY <1>1, <1>2, <1>3

LEMMA MarkKeeps ==
  ASSUME ListsOK, GraphInv, WipeInv, Mark, at' = at, loadedLibs' = loadedLibs
  PROVE  ListsOK' /\ GraphInv' /\ WipeInv' /\ marked' # {}
<1>1. PICK m, f : m = Last(stack) /\ f = Front(stack)
  OBVIOUS
<1>2. /\ stack # <<>> /\ marked' = marked \cup {m} /\ stack' = Pushed(f, Used(m))
      /\ UNCHANGED <<users, imports, stdlib, pending, loaded, table, entry, starts, chain>>
  BY <1>1 DEF Mark
<1>3. m \in ToSet(stack) /\ f \in Seq(Everything) /\ ToSet(stack) = ToSet(f) \cup {m}
  BY <1>1, <1>2, FrontItems DEF ListsOK
<1>4. m \in Modules /\ m \in ReachedFrom({entry}, SourceEdges)
  BY <1>3 DEF WipeInv
<1>5. stack' \in Seq(Everything) /\ ToSet(stack') = ToSet(f) \cup Succ(m)
  BY <1>2, <1>3, <1>4, PushedFacts
<1>6. m \in Everything /\ After(m, AllEdges) = Succ(m) /\ Succ(m) \subseteq Modules
  BY <1>4, GraphFacts
<1>7. ListsOK'
  BY <1>2, <1>5, <1>6 DEF ListsOK
<1>8. Succ(m) \subseteq ReachedFrom({entry}, SourceEdges)
  <2> SUFFICES ASSUME NEW n \in Succ(m) PROVE n \in ReachedFrom({entry}, SourceEdges)
    OBVIOUS
  <2>1. <<m, n>> \in SourceEdges
    BY <1>4 DEF GraphInv, GraphAt
  <2>2. <<m, n>>[1] = m /\ <<m, n>>[2] = n
    OBVIOUS
  <2> QED
    BY <1>4, <2>1, <2>2, ReachHas DEF ClosedUnder
<1>9. ASSUME ToSet(stack') \subseteq GroundedIn(Modules, AllEdges) PROVE marked' \subseteq GroundedIn(Modules, AllEdges)
  <2>1. m \in GroundedIn(Modules, AllEdges)
    BY <1>4, <1>5, <1>6, <1>9, GroundedGrows
  <2>2. ToSet(stack) \subseteq GroundedIn(Modules, AllEdges)
    BY <1>3, <1>5, <1>9, <2>1
  <2> QED
    BY <1>2, <2>1, <2>2 DEF WipeInv
<1>10. /\ marked' \cup ToSet(stack') \subseteq Modules \cap ReachedFrom({entry}, SourceEdges)
       /\ entry \in marked' \cup ToSet(stack')
       /\ \A x \in marked' : Succ(x) \subseteq marked' \cup ToSet(stack')
  BY <1>2, <1>3, <1>4, <1>5, <1>6, <1>8 DEF WipeInv
<1>11. WipeInv'
  BY <1>2, <1>9, <1>10, GraphKept DEF WipeInv
<1> QED
  BY <1>2, <1>7, <1>11, GraphKept

LEMMA WipeKeeps ==
  ASSUME ProgramOK, ListsOK, GraphInv, WipeInv, chain = <<>>, Wipe, at' = at, loadedLibs' = loadedLibs
  PROVE  ListsOK' /\ NeededInv' /\ ChainInv'
<1>1. PICK kept \in SUBSET Modules : marked \subseteq kept /\ table' = [m \in kept |-> table[m]]
  BY DEF Wipe
<1>2. /\ stack = <<>> /\ marked' = {} /\ stack' = <<entry>>
      /\ UNCHANGED <<users, imports, stdlib, pending, loaded, entry, starts, chain>>
  BY DEF Wipe
<1>3. /\ marked \subseteq Modules /\ marked \subseteq Needed /\ entry \in marked
      /\ \A x \in marked : Succ(x) \subseteq marked
      /\ marked \subseteq GroundedIn(Modules, AllEdges)
  <2>1. ToSet(stack) = {}
    BY <1>2, ItemsFacts DEF ListsOK
  <2> QED
    BY <2>1 DEF WipeInv, Needed
<1>4. Given' = Given /\ Available' = Available /\ SourceEdges' = SourceEdges /\ ProgramOK' /\ Needed' = Needed
  <2>1. Given' = Given /\ Available' = Available /\ SourceEdges' = SourceEdges /\ ProgramOK'
    BY <1>2, SameSources
  <2> QED
    BY <1>2, <2>1 DEF Needed
<1>5. Modules' = kept /\ \A x \in kept : table'[x] = table[x]
  BY <1>1 DEF Modules
<1>6. entry \in Everything /\ <<entry>> \in Seq(Everything) /\ ToSet(<<entry>>) = {entry} /\ Len(<<entry>>) = 1 /\ <<entry>>[1] = entry
  BY <1>3, GraphFacts, OneItem
<1>7. ListsOK'
  <2>1. TableOK(table')
    BY <1>1, <1>5 DEF ListsOK, TableOK, Modules
  <2> QED
    BY <1>2, <1>6, <2>1 DEF ListsOK
<1>8. marked = Needed
  <2>1. ClosedUnder(marked, SourceEdges)
    <3> SUFFICES ASSUME NEW e \in SourceEdges, e[1] \in marked PROVE e[2] \in marked
      BY DEF ClosedUnder
    <3>1. e = <<e[1], e[2]>>
      BY SourceEdgesAre
    <3>2. e[2] \in Succ(e[1])
      BY <1>3, <3>1 DEF GraphInv, GraphAt
    <3> QED
      BY <1>3, <3>2
  <2>2. ReachedFrom({entry}, SourceEdges) \subseteq marked
    <3>1. {entry} \subseteq marked
      BY <1>3
    <3> QED
      BY <2>1, <3>1, ReachWithin
  <2> QED
    BY <1>3, <2>2 DEF Needed
<1>9. ASSUME NEW m \in marked PROVE GraphAt(m)'
  <2>1. GraphAt(m) /\ table'[m] = table[m] /\ m \in kept
    BY <1>1, <1>3, <1>5 DEF GraphInv
  <2>2. /\ \A n : Shared(n)' = Shared(n)
        /\ NamesOf(imports[m])' = NamesOf(imports[m])
    BY <1>2 DEF Shared, AsksFor, NamesOf
  <2>3. \A n : n \in Succ(m)' <=> n \in Succ(m)
    <3>1. Succ(m)' = NamesOf(table[m]) \cap kept
      BY <1>5, <2>1 DEF Succ
    <3> QED
      BY <1>1, <1>3, <3>1 DEF Succ
  <2>4. ASSUME NEW i \in table[m]
        PROVE  Settled(i, kept, Available) /\ (i.name \in kept => i.name \in Modules)
    <3>1. Settled(i, Modules, Available)
      BY <2>1 DEF GraphAt
    <3>2. i.name \in Modules => i.name \in Succ(m)
      BY DEF Succ, NamesOf
    <3> QED
      BY <1>1, <1>3, <3>1, <3>2 DEF Settled
  <2>5. \A i \in table[m] : /\ Settled(i, Modules', Available') /\ (i.kind = "sys" => i.name \in NamesOf(imports[m])')
                            /\ Left(i) /\ i.name \in Modules' => Shared(i.name)'
    BY <1>4, <1>5, <2>1, <2>2, <2>4 DEF GraphAt
  <2>6. \A n : n \in Succ(m)' <=> <<m, n>> \in SourceEdges'
    BY <1>4, <2>1, <2>3 DEF GraphAt
  <2> QED
    BY <2>1, <2>5, <2>6 DEF GraphAt
<1>10. NeededInv'
  <2>1. EdgesIn(table', {"user", "sys"}) \subseteq AllEdges
    BY <1>1, EdgesLess DEF AllEdges, Modules
  <2>2. ASSUME NEW m \in marked PROVE ~OnCircle(m, EdgesIn(table', {"user", "sys"}))
    <3>1. ~OnCircle(m, AllEdges)
      BY <1>3, GroundedNoCircle
    <3> QED
      BY <2>1, <3>1, CircleLess
  <2> QED
    BY <1>1, <1>4, <1>5, <1>8, <1>9, <2>2 DEF NeededInv, AllEdges
<1>11. ChainInv'
  <2>1. ToSet(stack') = {entry} /\ stack' # <<>> /\ stack'[1] = entry /\ Len(stack') = 1
    BY <1>2, <1>6, OneItem
  <2>2. chain' = <<>> /\ chain' \in Seq(Everything)
    BY <1>2, <1>7 DEF ListsOK
  <2>3. ToSet(chain') = {} /\ DOMAIN chain' = {}
    <3>1. DOMAIN chain' = 1 .. Len(chain') /\ Len(chain') = 0 /\ ToSet(chain') = {}
      BY <2>2, ItemsFacts
    <3> QED
      BY <3>1
  <2>4. Behind(chain', AllEdges')
    BY <2>3 DEF Behind
  <2>5. OpenAt({}, stack', marked', chain', AllEdges')
    BY <1>2, <2>1, <2>3 DEF OpenAt
  <2>6. \E F : OpenAt(F, stack', marked', chain', AllEdges')
    BY <2>5
  <2> QED
    BY <1>2, <1>3, <1>4, <1>8, <2>1, <2>3, <2>4, <2>6 DEF ChainInv
<1> QED
  BY <1>7, <1>10, <1>11

(* What the entry needs, after the wipe.                                   *)
LEMMA NeededFacts ==
  ASSUME ProgramOK, ListsOK, NeededInv
  PROVE  /\ entry \in Needed
         /\ \A m \in Needed : /\ m \in Modules /\ m \in Everything /\ GraphAt(m) /\ ~OnCircle(m, AllEdges)
                              /\ After(m, AllEdges) = Succ(m) /\ Succ(m) \subseteq Needed
<1>1. entry \in Needed /\ ClosedUnder(Needed, SourceEdges)
  BY ReachHas DEF Needed
<1>2. ASSUME NEW m \in Needed
      PROVE  /\ m \in Modules /\ m \in Everything /\ GraphAt(m) /\ ~OnCircle(m, AllEdges)
             /\ After(m, AllEdges) = Succ(m) /\ Succ(m) \subseteq Needed
  <2>1. m \in Modules /\ GraphAt(m) /\ ~OnCircle(m, AllEdges)
    BY DEF NeededInv
  <2>2. m \in Everything /\ After(m, AllEdges) = Succ(m)
    BY <2>1, GraphFacts
  <2>3. ASSUME NEW n \in Succ(m) PROVE n \in Needed
    <3>1. <<m, n>> \in SourceEdges /\ <<m, n>>[1] = m /\ <<m, n>>[2] = n
      BY <2>1 DEF GraphAt
    <3> QED
      BY <1>1, <3>1 DEF ClosedUnder
  <2> QED
    BY <2>1, <2>2, <2>3
<1> QED
  BY <1>1, <1>2

(***************************************************************************)
(* The order of loading: what happens to the open places of the stack.     *)
(***************************************************************************)
LEMMA AppendItems ==
  ASSUME NEW T, NEW c \in Seq(T), NEW m \in T
  PROVE  /\ Append(c, m) \in Seq(T) /\ Len(Append(c, m)) = Len(c) + 1 /\ Append(c, m) # <<>>
         /\ ToSet(Append(c, m)) = ToSet(c) \cup {m} /\ Last(Append(c, m)) = m
         /\ \A i \in 1 .. Len(c) : Append(c, m)[i] = c[i]
         /\ Append(c, m)[Len(c) + 1] = m
<1>1. PICK d : d = Append(c, m)
  OBVIOUS
<1>2. /\ d \in Seq(T) /\ Len(d) = Len(c) + 1 /\ Len(c) \in Nat
      /\ \A i \in 1 .. Len(c) : d[i] = c[i]
      /\ d[Len(c) + 1] = m
  BY <1>1, AppendProperties, LenProperties
<1>3. d # <<>>
  BY <1>2, ItemsFacts
<1>4. Last(d) = m
  BY <1>2 DEF Last
<1>5. ASSUME NEW x PROVE x \in ToSet(d) <=> x \in ToSet(c) \/ x = m
  <2>1. \A i : i \in 1 .. Len(d) <=> i \in 1 .. Len(c) \/ i = Len(c) + 1
    BY <1>2
  <2>2. x \in ToSet(d) <=> \E i \in 1 .. Len(d) : d[i] = x
    BY <1>2, InItems
  <2>3. x \in ToSet(c) <=> \E i \in 1 .. Len(c) : c[i] = x
    BY InItems
  <2> QED
    BY <1>2, <2>1, <2>2, <2>3
<1> QED
  BY <1>1, <1>2, <1>3, <1>4, <1>5

Longer(t, s, k) ==
  /\ Len(t) = Len(s) + Len(k)
  /\ \A i \in 1 .. Len(s) : t[i] = s[i]
  /\ \A i \in 1 .. Len(k) : t[Len(s) + i] = k[i]
Shorter(t, s) == Len(t) = Len(s) - 1 /\ \A i \in 1 .. Len(t) : t[i] = s[i]

IsJoined(t, s, k) == t = s \o k
LEMMA LongerIs ==
  ASSUME NEW T, NEW s \in Seq(T), NEW k \in Seq(T), NEW t, IsJoined(t, s, k)
  PROVE  t \in Seq(T) /\ Longer(t, s, k) /\ ToSet(t) = ToSet(s) \cup ToSet(k)
BY ConcatItems DEF Longer, IsJoined

(* A fresh module is put back under what it needs.                         *)
LEMMA PutBackOpens ==
  ASSUME NEW T, NEW s \in Seq(T), s # <<>>, NEW M, NEW c, NEW R, NEW F, OpenAt(F, s, M, c, R),
         NEW m, m = s[Len(s)], m \notin M,
         NEW k \in Seq(T), ToSet(k) = After(m, R),
         NEW t \in Seq(T), Longer(t, s, k)
  PROVE  OpenAt(F \cup {Len(s)}, t, M \cup {m}, c, R)
<1>1. PICK L, G : L = Len(s) /\ G = F \cup {L}
  OBVIOUS
<1>2. /\ L \in Nat /\ L > 0 /\ Len(k) \in Nat /\ Len(t) = L + Len(k)
      /\ \A i \in 1 .. L : t[i] = s[i]
      /\ \A i \in 1 .. Len(k) : t[L + i] = k[i]
  BY <1>1, ItemsFacts DEF Longer
<1>3. F \subseteq 1 .. L /\ \A p \in F : p \in Nat /\ t[p] = s[p]
  <2>1. F \subseteq 1 .. L
    BY <1>1 DEF OpenAt
  <2>2. \A i \in 1 .. L : i \in Nat /\ t[i] = s[i]
    BY <1>2
  <2> QED
    BY <2>1, <2>2
<1>4. t[L] = m /\ L \in 1 .. L /\ L \in 1 .. Len(t)
  BY <1>1, <1>2
<1>5. L \notin F
  BY <1>1 DEF OpenAt
<1>6. G \subseteq 1 .. Len(t)
  <2>1. \A i \in 1 .. L : i \in 1 .. Len(t)
    BY <1>2
  <2> QED
    BY <1>1, <1>3, <1>4, <2>1
<1>7. m \notin ToSet(c) /\ \A p \in F : s[p] \in M \ ToSet(c)
  BY DEF OpenAt
<1>8. \A p \in G : t[p] \in (M \cup {m}) \ ToSet(c)
  BY <1>1, <1>3, <1>4, <1>7
<1>9. \A p, q \in G : t[p] = t[q] => p = q
  <2>1. \A p, q \in F : s[p] = s[q] => p = q
    BY DEF OpenAt
  <2> QED
    BY <1>1, <1>3, <1>4, <1>7, <2>1
<1>10. M \cup {m} = ToSet(c) \cup {t[p] : p \in G}
  <2>1. M = ToSet(c) \cup {s[p] : p \in F}
    BY DEF OpenAt
  <2> QED
    BY <1>1, <1>3, <1>4, <2>1
<1>11. ASSUME NEW p \in G, NEW n \in After(t[p], R)
       PROVE  n \in ToSet(c) \/ \E q \in p + 1 .. Len(t) : t[q] = n
  <2>1. CASE p \in F
    <3>1. n \in ToSet(c) \/ \E q \in p + 1 .. Len(s) : s[q] = n
      BY <1>3, <1>11, <2>1 DEF OpenAt
    <3>2. ASSUME NEW q \in p + 1 .. Len(s), s[q] = n PROVE q \in p + 1 .. Len(t) /\ t[q] = n
      <4>1. q \in 1 .. L /\ q \in p + 1 .. Len(t)
        BY <1>1, <1>2, <1>3, <2>1
      <4> QED
        BY <1>2, <3>2, <4>1
    <3> QED
      BY <3>1, <3>2
  <2>2. CASE p = L
    <3>1. n \in ToSet(k)
      BY <1>4, <1>11, <2>2
    <3>2. PICK j \in 1 .. Len(k) : k[j] = n
      BY <3>1, InItems
    <3>3. t[L + j] = n /\ L + j \in p + 1 .. Len(t)
      BY <1>2, <2>2, <3>2
    <3> QED
      BY <3>3
  <2> QED
    BY <1>1, <2>1, <2>2
<1>12. ASSUME NEW q \in L + 1 .. Len(t) PROVE t[q] \in After(m, R)
  <2>1. q - L \in 1 .. Len(k) /\ L + (q - L) = q
    BY <1>2
  <2>2. t[q] = k[q - L]
    BY <1>2, <2>1
  <2> QED
    BY <2>1, <2>2, ItemsFacts
<1>13. ASSUME NEW p \in G, NEW q \in p + 1 .. Len(t)
       PROVE  t[q] \in ReachedFrom(After(t[p], R), R)
  <2>1. CASE p = L
    BY <1>4, <1>12, <2>1, ReachHas
  <2>2. CASE p \in F /\ q <= L
    <3>1. q \in p + 1 .. Len(s) /\ q \in 1 .. Len(s)
      BY <1>1, <1>2, <1>3, <2>2
    <3>2. s[q] \in ReachedFrom(After(s[p], R), R)
      BY <2>2, <3>1 DEF OpenAt
    <3> QED
      BY <1>1, <1>2, <1>3, <2>2, <3>1, <3>2
  <2>3. CASE p \in F /\ q > L
    <3>1. L \in p + 1 .. Len(s) /\ q \in L + 1 .. Len(t)
      BY <1>1, <1>2, <1>3, <1>5, <2>3
    <3>2. m \in ReachedFrom(After(s[p], R), R)
      BY <1>1, <2>3, <3>1 DEF OpenAt
    <3>3. PICK e \in R : e[1] = m /\ e[2] = t[q]
      BY <1>12, <3>1, AfterIs
    <3> QED
      BY <1>3, <2>3, <3>2, <3>3, ReachHas DEF ClosedUnder
  <2>4. q <= L \/ q > L
    BY <1>2, <1>6
  <2> QED
    BY <1>1, <2>1, <2>2, <2>3, <2>4
<1>14. 1 \in G
  BY <1>1 DEF OpenAt
<1>15. OpenAt(G, t, M \cup {m}, c, R)
  BY <1>6, <1>8, <1>9, <1>10, <1>11, <1>13, <1>14 DEF OpenAt
<1> QED
  BY <1>1, <1>15

(* An open place on top is closed: all that the module needs is there.     *)
LEMMA TopCloses ==
  ASSUME NEW T, NEW s \in Seq(T), s # <<>>, NEW M, NEW c \in Seq(T), NEW R, NEW F, OpenAt(F, s, M, c, R), Behind(c, R),
         Len(s) \in F,
         NEW m \in T, m = s[Len(s)], NEW d, d = Append(c, m),
         NEW t \in Seq(T), Shorter(t, s)
  PROVE  OpenAt(F \ {Len(s)}, t, M, d, R) /\ Behind(d, R)
<1>1. PICK L, G : L = Len(s) /\ G = F \ {L}
  OBVIOUS
<1>2. /\ L \in Nat /\ L > 0 /\ Len(t) = L - 1 /\ F \subseteq 1 .. L /\ Len(c) \in Nat
      /\ \A i \in 1 .. Len(t) : t[i] = s[i]
  BY <1>1, ItemsFacts DEF OpenAt, Shorter
<1>3. G \subseteq 1 .. Len(t) /\ \A p \in G : t[p] = s[p]
  <2>1. ASSUME NEW p \in G PROVE p \in 1 .. Len(t)
    <3>1. p \in 1 .. L /\ p # L
      BY <1>1, <1>2
    <3> QED
      BY <1>2, <3>1
  <2> QED
    BY <1>2, <2>1
<1>4. d \in Seq(T) /\ ToSet(d) = ToSet(c) \cup {m} /\ Len(d) = Len(c) + 1 /\ d[Len(c) + 1] = m /\ \A i \in 1 .. Len(c) : d[i] = c[i]
  BY AppendItems
<1>5. \A p \in G : s[p] # m
  BY <1>1 DEF OpenAt
<1>6. \A p \in G : t[p] \in M \ ToSet(d)
  BY <1>1, <1>3, <1>4, <1>5 DEF OpenAt
<1>7. \A p, q \in G : t[p] = t[q] => p = q
  BY <1>1, <1>3 DEF OpenAt
<1>8. M = ToSet(d) \cup {t[p] : p \in G}
  <2>1. M = ToSet(c) \cup {s[p] : p \in F}
    BY DEF OpenAt
  <2>2. {s[p] : p \in F} = {m} \cup {s[p] : p \in G}
    BY <1>1
  <2>3. {s[p] : p \in G} = {t[p] : p \in G}
    BY <1>3
  <2> QED
    BY <1>4, <2>1, <2>2, <2>3
<1>9. ASSUME NEW p \in G, NEW n \in After(t[p], R)
      PROVE  n \in ToSet(d) \/ \E q \in p + 1 .. Len(t) : t[q] = n
  <2>1. n \in ToSet(c) \/ \E q \in p + 1 .. Len(s) : s[q] = n
    BY <1>1, <1>3, <1>9 DEF OpenAt
  <2>2. ASSUME NEW q \in p + 1 .. Len(s), s[q] = n, n # m PROVE q \in p + 1 .. Len(t) /\ t[q] = n
    <3>1. p \in Nat /\ q # L /\ q \in p + 1 .. L
      BY <1>1, <1>2, <2>2
    <3>2. q \in p + 1 .. Len(t) /\ q \in 1 .. Len(t)
      BY <1>2, <3>1
    <3> QED
      BY <1>2, <2>2, <3>2
  <2> QED
    BY <1>4, <2>1, <2>2
<1>10. ASSUME NEW p \in G, NEW q \in p + 1 .. Len(t)
       PROVE  t[q] \in ReachedFrom(After(t[p], R), R)
  <2>1. p \in Nat
    BY <1>1, <1>2
  <2>2. q \in p + 1 .. Len(s) /\ q \in 1 .. Len(t)
    BY <1>1, <1>2, <2>1
  <2>3. s[q] \in ReachedFrom(After(s[p], R), R)
    BY <1>1, <2>2 DEF OpenAt
  <2> QED
    BY <1>2, <1>3, <2>2, <2>3
<1>11. t # <<>> => 1 \in G
  <2> SUFFICES ASSUME t # <<>> PROVE 1 \in G
    OBVIOUS
  <2>1. Len(t) > 0 /\ L # 1
    BY <1>2, ItemsFacts
  <2> QED
    BY <1>1, <2>1 DEF OpenAt
<1>12. OpenAt(G, t, M, d, R)
  BY <1>3, <1>6, <1>7, <1>8, <1>9, <1>10, <1>11 DEF OpenAt
<1>13. ASSUME NEW p \in DOMAIN d, NEW n \in After(d[p], R) PROVE \E q \in 1 .. (p - 1) : d[q] = n
  <2>1. DOMAIN d = 1 .. Len(c) + 1 /\ DOMAIN c = 1 .. Len(c)
    BY <1>4, ItemsFacts
  <2>2. CASE p \in 1 .. Len(c)
    <3>1. PICK q \in 1 .. (p - 1) : c[q] = n
      BY <1>4, <1>13, <2>1, <2>2 DEF Behind
    <3>2. q \in 1 .. Len(c)
      BY <1>2, <2>2
    <3> QED
      BY <1>4, <3>1, <3>2
  <2>3. CASE p = Len(c) + 1
    <3>1. n \in After(m, R)
      BY <1>4, <1>13, <2>3
    <3>2. n \in ToSet(c) \/ \E q \in L + 1 .. L : s[q] = n
      BY <1>1, <3>1 DEF OpenAt
    <3>3. n \in ToSet(c)
      BY <1>2, <3>2
    <3>4. PICK q \in 1 .. Len(c) : c[q] = n
      BY <3>3, InItems
    <3>5. d[q] = n /\ q \in 1 .. (p - 1)
      BY <1>2, <1>4, <2>3, <3>4
    <3> QED
      BY <3>5
  <2> QED
    BY <1>2, <2>1, <2>2, <2>3
<1> QED
  BY <1>1, <1>12, <1>13 DEF Behind

(* A marked module in a place that is not open was in the chain before:    *)
(* otherwise it would be open below, and on a circle.                      *)
LEMMA TopAgain ==
  ASSUME NEW T, NEW s \in Seq(T), s # <<>>, NEW M, NEW c \in Seq(T), NEW R, NEW F, OpenAt(F, s, M, c, R), Behind(c, R),
         Len(s) \notin F,
         NEW m \in T, m = s[Len(s)], m \in M, ~OnCircle(m, R), NEW d, d = Append(c, m),
         NEW t \in Seq(T), Shorter(t, s)
  PROVE  OpenAt(F, t, M, d, R) /\ Behind(d, R) /\ t # <<>>
<1>1. PICK L : L = Len(s)
  OBVIOUS
<1>2. /\ L \in Nat /\ L > 0 /\ Len(t) = L - 1 /\ F \subseteq 1 .. L /\ Len(c) \in Nat /\ L \notin F
      /\ \A i \in 1 .. Len(t) : t[i] = s[i]
  BY <1>1, ItemsFacts DEF OpenAt, Shorter
<1>3. F \subseteq 1 .. Len(t) /\ \A p \in F : t[p] = s[p] /\ p \in Nat /\ p < L
  <2>1. ASSUME NEW p \in F PROVE p \in 1 .. Len(t) /\ p \in Nat /\ p < L
    <3>1. p \in 1 .. L /\ p # L
      BY <1>2
    <3> QED
      BY <1>2, <3>1
  <2> QED
    BY <1>2, <2>1
<1>4. d \in Seq(T) /\ ToSet(d) = ToSet(c) \cup {m} /\ Len(d) = Len(c) + 1 /\ d[Len(c) + 1] = m /\ \A i \in 1 .. Len(c) : d[i] = c[i]
  BY AppendItems
<1>5. m \in ToSet(c)
  <2>1. SUFFICES ASSUME NEW p \in F, m = s[p] PROVE FALSE
    BY DEF OpenAt
  <2>2. L \in p + 1 .. Len(s)
    BY <1>1, <1>2, <1>3
  <2>3. s[L] \in ReachedFrom(After(s[p], R), R)
    BY <2>2 DEF OpenAt
  <2> QED
    BY <1>1, <2>1, <2>3, CircleIs
<1>6. ToSet(d) = ToSet(c)
  BY <1>4, <1>5
<1>7. \A p \in F : t[p] \in M \ ToSet(d)
  BY <1>3, <1>6 DEF OpenAt
<1>8. \A p, q \in F : t[p] = t[q] => p = q
  BY <1>3 DEF OpenAt
<1>9. M = ToSet(d) \cup {t[p] : p \in F}
  <2>1. M = ToSet(c) \cup {s[p] : p \in F}
    BY DEF OpenAt
  <2> QED
    BY <1>3, <1>6, <2>1
<1>10. ASSUME NEW p \in F, NEW n \in After(t[p], R)
       PROVE  n \in ToSet(d) \/ \E q \in p + 1 .. Len(t) : t[q] = n
  <2>1. n \in ToSet(c) \/ \E q \in p + 1 .. Len(s) : s[q] = n
    BY <1>3, <1>10 DEF OpenAt
  <2>2. ASSUME NEW q \in p + 1 .. Len(s), s[q] = n, n # m PROVE q \in p + 1 .. Len(t) /\ t[q] = n
    <3>1. p \in Nat /\ q # L
      BY <1>1, <1>3, <2>2
    <3>2. q \in p + 1 .. Len(t) /\ q \in 1 .. Len(t)
      BY <1>1, <1>2, <3>1
    <3> QED
      BY <1>2, <2>2, <3>2
  <2> QED
    BY <1>4, <2>1, <2>2
<1>11. ASSUME NEW p \in F, NEW q \in p + 1 .. Len(t)
       PROVE  t[q] \in ReachedFrom(After(t[p], R), R)
  <2>1. q \in p + 1 .. Len(s) /\ q \in 1 .. Len(t)
    BY <1>1, <1>2, <1>3
  <2>2. s[q] \in ReachedFrom(After(s[p], R), R)
    BY <2>1 DEF OpenAt
  <2> QED
    BY <1>2, <1>3, <2>1, <2>2
<1>12. 1 \in F
  BY DEF OpenAt
<1>13. OpenAt(F, t, M, d, R)
  BY <1>3, <1>7, <1>8, <1>9, <1>10, <1>11, <1>12 DEF OpenAt
<1>14. ASSUME NEW p \in DOMAIN d, NEW n \in After(d[p], R) PROVE \E q \in 1 .. (p - 1) : d[q] = n
  <2>1. DOMAIN d = 1 .. Len(c) + 1 /\ DOMAIN c = 1 .. Len(c)
    BY <1>4, ItemsFacts
  <2>2. PICK j \in 1 .. Len(c) : c[j] = m
    BY <1>5, InItems
  <2>3. PICK g \in 1 .. Len(c) : c[g] = d[p] /\ g <= p
    <3>1. CASE p \in 1 .. Len(c)
      <4>1. c[p] = d[p] /\ p <= p
        BY <1>4, <3>1
      <4> QED
        BY <3>1, <4>1
    <3>2. CASE p = Len(c) + 1
      <4>1. c[j] = d[p] /\ j <= p
        BY <1>2, <1>4, <2>2, <3>2
      <4> QED
        BY <4>1
    <3>3. p \in 1 .. Len(c) \/ p = Len(c) + 1
      <4>1. p \in 1 .. Len(c) + 1
        BY <2>1
      <4> QED
        BY <1>2, <4>1
    <3> QED
      BY <3>1, <3>2, <3>3
  <2>4. PICK q \in 1 .. (g - 1) : c[q] = n
    BY <1>14, <2>1, <2>3 DEF Behind
  <2>5. q \in 1 .. Len(c) /\ q \in 1 .. (p - 1)
    BY <1>2, <2>1, <2>3
  <2> QED
    BY <1>4, <2>4, <2>5
<1>15. t # <<>>
  BY <1>2, <1>3, <1>12, ItemsFacts
<1> QED
  BY <1>13, <1>14, <1>15 DEF Behind

LEMMA VisitKeeps ==
  ASSUME ProgramOK, ListsOK, NeededInv, ChainInv, Visit, at = 0, at' = at, loadedLibs' = loadedLibs
  PROVE  ListsOK' /\ NeededInv' /\ ChainInv'
<1>1. PICK m, f : m = Last(stack) /\ f = Front(stack)
  OBVIOUS
<1>2. /\ stack # <<>> /\ marked' = marked \cup {m}
      /\ IF m \in marked THEN stack' = f /\ chain' = Append(chain, m) ELSE stack' = f \o PutBack(m) /\ chain' = chain
      /\ UNCHANGED <<users, imports, stdlib, pending, loaded, table, entry, starts>>
  BY <1>1 DEF Visit
<1>3. stack \in Seq(Everything) /\ chain \in Seq(Everything) /\ Len(stack) \in Nat /\ Len(stack) > 0 /\ Len(chain) \in Nat
  BY <1>2, ItemsFacts DEF ListsOK
<1>4. /\ m \in ToSet(stack) /\ m = stack[Len(stack)] /\ f \in Seq(Everything) /\ Len(f) = Len(stack) - 1
      /\ \A i \in 1 .. Len(stack) - 1 : f[i] = stack[i]
      /\ ToSet(stack) = ToSet(f) \cup {m}
  BY <1>1, <1>2, <1>3, FrontItems
<1>5. m \in Needed /\ m \in Modules /\ m \in Everything /\ After(m, AllEdges) = Succ(m) /\ Succ(m) \subseteq Needed
  <2>1. m \in Needed
    BY <1>4 DEF ChainInv
  <2> QED
    BY <2>1, NeededFacts
<1>6. PICK F : OpenAt(F, stack, marked, chain, AllEdges)
  BY DEF ChainInv
<1>7. Behind(chain, AllEdges) /\ ToSet(stack) \subseteq Needed /\ ToSet(chain) \subseteq Needed /\ stack[1] = entry
  BY <1>2 DEF ChainInv
<1>8. /\ Needed' = Needed /\ AllEdges' = AllEdges /\ NeededInv' = NeededInv
  BY <1>2, GraphKept
<1>9. CASE m \notin marked
  <2>1. PICK k : k = InOrder(Succ(m))
    OBVIOUS
  <2>2. <<m>> \in Seq(Everything) /\ Len(<<m>>) = 1 /\ <<m>>[1] = m /\ ToSet(<<m>>) = {m}
    BY <1>5, OneItem
  <2>3. k \in Seq(Everything) /\ ToSet(k) = Succ(m) /\ PutBack(m) = <<m>> \o k
    BY <1>5, <2>1, <2>2, PushedFacts DEF PutBack
  <2>4. PICK u : u = <<m>>
    OBVIOUS
  <2>5. PICK b : b = u \o k
    OBVIOUS
  <2>6. /\ b \in Seq(Everything) /\ Len(b) = 1 + Len(k) /\ ToSet(b) = {m} \cup Succ(m) /\ b[1] = m
        /\ \A i \in 1 .. Len(k) : b[1 + i] = k[i]
    <3>1. u \in Seq(Everything) /\ Len(u) = 1 /\ u[1] = m /\ ToSet(u) = {m}
      BY <2>2, <2>4
    <3>2. k \in Seq(Everything) /\ u \in Seq(Everything)
      BY <2>3, <3>1
    <3>3. b \in Seq(Everything) /\ Longer(b, u, k) /\ ToSet(b) = ToSet(u) \cup ToSet(k)
      <4>1. IsJoined(b, u, k)
        BY <2>5 DEF IsJoined
      <4> QED
        BY <3>2, <4>1, LongerIs
    <3>4. 1 \in 1 .. Len(u)
      BY <3>1
    <3> QED
      BY <2>3, <3>1, <3>3, <3>4 DEF Longer
  <2>7. stack' = f \o b /\ chain' = chain
    BY <1>2, <1>9, <2>3, <2>4, <2>5
  <2>8. /\ stack' \in Seq(Everything) /\ Len(stack') = Len(f) + Len(b) /\ ToSet(stack') = ToSet(f) \cup ToSet(b)
        /\ \A i \in 1 .. Len(f) : stack'[i] = f[i]
        /\ \A i \in 1 .. Len(b) : stack'[Len(f) + i] = b[i]
    <3>1. f \in Seq(Everything) /\ b \in Seq(Everything)
      BY <1>4, <2>6
    <3>2. IsJoined(stack', f, b)
      BY <2>7 DEF IsJoined
    <3>3. stack' \in Seq(Everything) /\ Longer(stack', f, b) /\ ToSet(stack') = ToSet(f) \cup ToSet(b)
      BY <3>1, <3>2, LongerIs
    <3> QED
      BY <3>3 DEF Longer
  <2>9. Len(k) \in Nat
    BY <2>3, ItemsFacts
  <2>10. Len(stack') = Len(stack) + Len(k)
    BY <1>3, <1>4, <2>6, <2>8, <2>9
  <2>11. ASSUME NEW i \in 1 .. Len(stack) PROVE stack'[i] = stack[i]
    <3>1. CASE i # Len(stack)
      BY <1>3, <1>4, <2>8, <3>1
    <3>2. CASE i = Len(stack)
      <4>1. 1 \in 1 .. Len(b) /\ Len(f) + 1 = i
        BY <1>3, <1>4, <2>6, <2>9, <3>2
      <4> QED
        BY <1>4, <2>6, <2>8, <3>2, <4>1
    <3> QED
      BY <3>1, <3>2
  <2>12. ASSUME NEW i \in 1 .. Len(k) PROVE stack'[Len(stack) + i] = k[i]
    <3>1. 1 + i \in 1 .. Len(b) /\ Len(f) + (1 + i) = Len(stack) + i
      BY <1>3, <1>4, <2>6, <2>9
    <3> QED
      BY <2>6, <2>8, <3>1
  <2>13. OpenAt(F \cup {Len(stack)}, stack', marked', chain', AllEdges')
    <3>1. PICK t : t = stack'
      OBVIOUS
    <3>2. Longer(t, stack, k) /\ t \in Seq(Everything)
      BY <2>8, <2>10, <2>11, <2>12, <3>1 DEF Longer
    <3>3. ToSet(k) = After(m, AllEdges)
      BY <1>5, <2>3
    <3>4. OpenAt(F \cup {Len(stack)}, t, marked \cup {m}, chain, AllEdges)
      BY <1>2, <1>3, <1>4, <1>6, <1>9, <2>3, <3>2, <3>3, PutBackOpens
    <3> QED
      BY <1>2, <1>8, <2>7, <3>1, <3>4
  <2>14. stack'[1] = entry /\ stack' # <<>>
    <3>1. 1 \in 1 .. Len(stack) /\ Len(stack') > 0
      BY <1>3, <2>9, <2>10
    <3> QED
      BY <1>7, <2>8, <2>11, <3>1, ItemsFacts
  <2>15. ToSet(stack') \subseteq Needed
    BY <1>4, <1>5, <1>7, <2>6, <2>8
  <2>16. ChainInv'
    BY <1>2, <1>7, <1>8, <2>7, <2>13, <2>14, <2>15 DEF ChainInv
  <2>17. ListsOK'
    BY <1>2, <1>5, <2>7, <2>8 DEF ListsOK
  <2> QED
    BY <1>8, <2>16, <2>17
<1>10. CASE m \in marked
  <2>1. stack' = f /\ chain' = Append(chain, m) /\ marked' = marked
    BY <1>2, <1>10
  <2>2. chain' \in Seq(Everything) /\ ToSet(chain') = ToSet(chain) \cup {m} /\ Last(chain') = m /\ chain' # <<>> /\ Len(chain') = Len(chain) + 1
    BY <1>3, <1>5, <2>1, AppendItems
  <2>3. stack' \in Seq(Everything) /\ Len(stack') = Len(stack) - 1 /\ \A i \in 1 .. Len(stack') : stack'[i] = stack[i]
    BY <1>4, <2>1
  <2>4. ToSet(stack') \subseteq Needed /\ ToSet(chain') \subseteq Needed
    BY <1>4, <1>5, <1>7, <2>1, <2>2
  <2>5. stack' # <<>> => stack'[1] = entry
    <3> SUFFICES ASSUME stack' # <<>> PROVE stack'[1] = entry
      OBVIOUS
    <3>1. 1 \in 1 .. Len(stack')
      BY <1>3, <2>3, ItemsFacts
    <3> QED
      BY <1>7, <2>3, <3>1
  <2>6. ASSUME stack' = <<>> PROVE m = entry
    <3>1. Len(stack) = 1
      BY <1>3, <2>3, <2>6, ItemsFacts
    <3> QED
      BY <1>4, <1>7, <3>1
  <2>7. \E G : OpenAt(G, stack', marked', chain', AllEdges') /\ Behind(chain', AllEdges')
    <3>1. PICK t, d : t = stack' /\ d = Append(chain, m)
      OBVIOUS
    <3>2. t \in Seq(Everything) /\ Shorter(t, stack)
      BY <2>3, <3>1 DEF Shorter
    <3>3. \E G : OpenAt(G, t, marked, d, AllEdges) /\ Behind(d, AllEdges)
      <4>1. CASE Len(stack) \in F
        <5>1. OpenAt(F \ {Len(stack)}, t, marked, d, AllEdges) /\ Behind(d, AllEdges)
          BY <1>2, <1>3, <1>4, <1>5, <1>6, <1>7, <3>1, <3>2, <4>1, TopCloses
        <5> QED
          BY <5>1
      <4>2. CASE Len(stack) \notin F
        <5>1. ~OnCircle(m, AllEdges)
          BY <1>5 DEF NeededInv
        <5>2. OpenAt(F, t, marked, d, AllEdges) /\ Behind(d, AllEdges)
          BY <1>2, <1>3, <1>4, <1>5, <1>6, <1>7, <1>10, <3>1, <3>2, <4>2, <5>1, TopAgain
        <5> QED
          BY <5>2
      <4> QED
        BY <4>1, <4>2
    <3> QED
      BY <1>8, <2>1, <3>1, <3>3
  <2>8. ChainInv'
    BY <1>2, <1>8, <2>2, <2>4, <2>5, <2>6, <2>7 DEF ChainInv
  <2>9. at' \in 0 .. Len(chain')
    BY <1>3, <2>2
  <2>10. ListsOK'
    BY <1>2, <2>1, <2>2, <2>3, <2>9 DEF ListsOK
  <2> QED
    BY <1>8, <2>8, <2>10
<1> QED
  BY <1>9, <1>10

(* All that is needed is in the chain when the stack is empty.             *)
OrderInv == ToSet(chain) = Needed /\ chain # <<>> /\ Last(chain) = entry /\ Behind(chain, AllEdges)

LEMMA BeginMergeFacts ==
  ASSUME ProgramOK, ListsOK, NeededInv, ChainInv, stack = <<>>
  PROVE  OrderInv
<1>1. /\ chain # <<>> /\ Last(chain) = entry /\ Behind(chain, AllEdges) /\ ToSet(chain) \subseteq Needed
  BY DEF ChainInv
<1>2. chain \in Seq(Everything) /\ entry \in ToSet(chain)
  BY <1>1, FrontItems DEF ListsOK
<1>3. ClosedUnder(ToSet(chain), SourceEdges)
  <2> SUFFICES ASSUME NEW e \in SourceEdges, e[1] \in ToSet(chain) PROVE e[2] \in ToSet(chain)
    BY DEF ClosedUnder
  <2>1. e = <<e[1], e[2]>>
    BY SourceEdgesAre
  <2>2. e[2] \in Succ(e[1])
    BY <1>1, <2>1, NeededFacts DEF GraphAt
  <2>3. e[2] \in After(e[1], AllEdges)
    BY <1>1, <2>2, NeededFacts
  <2>4. PICK p \in 1 .. Len(chain) : chain[p] = e[1]
    BY <1>2, InItems
  <2>5. DOMAIN chain = 1 .. Len(chain) /\ Len(chain) \in Nat
    BY <1>2, ItemsFacts
  <2>6. PICK q \in 1 .. (p - 1) : chain[q] = e[2]
    BY <1>1, <2>3, <2>4, <2>5 DEF Behind
  <2>7. q \in 1 .. Len(chain)
    BY <2>5
  <2> QED
    BY <1>2, <2>6, <2>7, InItems
<1>4. ReachedFrom({entry}, SourceEdges) \subseteq ToSet(chain)
  <2>1. {entry} \subseteq ToSet(chain)
    BY <1>2
  <2> QED
    BY <1>3, <2>1, ReachWithin
<1> QED
  BY <1>1, <1>4 DEF OrderInv, Needed

(***************************************************************************)
(* Where the functions of a module begin.                                  *)
(***************************************************************************)
BaseIn(c, p) ==
  LET upTo[q \in 0 .. Len(c)] == IF q = 0 THEN 0 ELSE upTo[q - 1] + FunctionCount[c[q]]
  IN  upTo[p - 1]

LEMMA BaseIs == \A p : BaseOf(p) = BaseIn(chain, p)
BY DEF BaseOf, BaseIn

LEMMA CountFacts == \A m \in Everything : FunctionCount[m] \in Nat /\ FunctionCount[m] > 0
<1>1. \A m \in Everything : FunctionCount[m] \in Nat \ {0}
  BY FunctionCountAssumption DEF Everything
<1> QED
  BY <1>1

LEMMA BaseFacts ==
  ASSUME NEW c \in Seq(Everything)
  PROVE  /\ BaseIn(c, 1) = 0
         /\ \A p \in 1 .. Len(c) + 1 : BaseIn(c, p) \in Nat
         /\ \A p \in 1 .. Len(c) : BaseIn(c, p + 1) = BaseIn(c, p) + FunctionCount[c[p]]
<1> DEFINE N == Len(c)
           Item(g, q) == IF q = 0 THEN 0 ELSE g[q - 1] + FunctionCount[c[q]]
           Eq(g) == g = [q \in 0 .. N |-> Item(g, q)]
           f == CHOOSE g : Eq(g)
<1>1. N \in Nat /\ \A q \in 1 .. N : FunctionCount[c[q]] \in Nat
  BY ItemsFacts, CountFacts
<1>2. \E g \in [0 .. N -> Nat] : Eq(g)
  <2>1. PICK step : step = [x \in (1 .. N) \X Nat |-> x[2] + FunctionCount[c[x[1]]]]
    OBVIOUS
  <2>2. step \in [(1 .. N) \X Nat -> Nat]
    BY <1>1, <2>1
  <2>3. PICK g \in [0 .. N -> Nat] : IsStepped(g, N, 0, step)
    <3> HIDE DEF N
    <3> QED
      BY <1>1, <2>2, SteppedThereIs
  <2>4. ASSUME NEW q \in 0 .. N PROVE g[q] = Item(g, q)
    <3>1. g[q] = IF q = 0 THEN 0 ELSE step[<<q, g[q - 1]>>]
      BY <2>3 DEF IsStepped
    <3>2. q # 0 => q \in 1 .. N /\ q - 1 \in 0 .. N
      BY <1>1
    <3>3. q # 0 => <<q, g[q - 1]>> \in (1 .. N) \X Nat
      BY <2>3, <3>2
    <3>4. q # 0 => step[<<q, g[q - 1]>>] = g[q - 1] + FunctionCount[c[q]]
      BY <2>1, <3>3
    <3> QED
      BY <3>1, <3>4
  <2>5. g = [q \in 0 .. N |-> g[q]]
    OBVIOUS
  <2>6. Eq(g)
    <3> HIDE DEF Item
    <3> QED
      BY <2>4, <2>5
  <2> QED
    BY <2>6
<1>3. Eq(f)
  <2> HIDE DEF Eq
  <2> QED
    BY <1>2
<1>4. \A p : BaseIn(c, p) = f[p - 1]
  BY Zenon DEF BaseIn
<1> HIDE DEF f
<1>5. \A q \in 0 .. N : f[q] = Item(f, q)
  <2> HIDE DEF Item
  <2> QED
    BY <1>3
<1> DEFINE S == {q \in Nat : q <= N => f[q] \in Nat}
<1>6. 0 \in S
  BY <1>1, <1>5
<1>7. \A q \in Nat : q \in S => q + 1 \in S
  <2> SUFFICES ASSUME NEW q \in Nat, q \in S, q + 1 <= N PROVE f[q + 1] \in Nat
    OBVIOUS
  <2>1. q + 1 \in 1 .. N /\ q + 1 \in 0 .. N /\ q + 1 # 0 /\ (q + 1) - 1 = q /\ q <= N
    BY <1>1
  <2>2. f[q + 1] = f[q] + FunctionCount[c[q + 1]]
    BY <1>5, <2>1
  <2> QED
    BY <1>1, <2>1, <2>2
<1>8. \A q \in Nat : q \in S
  <2> HIDE DEF S
  <2> QED
    BY <1>6, <1>7, NatSetInduction
<1>9. BaseIn(c, 1) = 0
  BY <1>1, <1>4, <1>5
<1>10. ASSUME NEW p \in 1 .. N + 1 PROVE BaseIn(c, p) \in Nat
  <2>1. p - 1 \in Nat /\ p - 1 <= N
    BY <1>1
  <2> QED
    BY <1>4, <1>8, <2>1
<1>11. ASSUME NEW p \in 1 .. N PROVE BaseIn(c, p + 1) = BaseIn(c, p) + FunctionCount[c[p]]
  <2>1. p \in 0 .. N /\ p # 0 /\ (p + 1) - 1 = p
    BY <1>1
  <2>2. f[p] = f[p - 1] + FunctionCount[c[p]]
    BY <1>5, <2>1
  <2> QED
    BY <1>4, <2>1, <2>2
<1> QED
  BY <1>9, <1>10, <1>11

LEMMA BaseGrows ==
  ASSUME NEW c \in Seq(Everything), NEW p \in 1 .. Len(c), NEW q \in 1 .. Len(c), p < q
  PROVE  BaseIn(c, p) + FunctionCount[c[p]] <= BaseIn(c, q)
<1>1. Len(c) \in Nat /\ p \in Nat /\ q \in Nat
  BY LenProperties
<1> DEFINE S == {n \in Nat : p + 1 + n <= Len(c) => BaseIn(c, p) + FunctionCount[c[p]] <= BaseIn(c, p + 1 + n)}
<1>2. \A k \in 1 .. Len(c) : /\ BaseIn(c, k) \in Nat /\ FunctionCount[c[k]] \in Nat
                             /\ BaseIn(c, k + 1) = BaseIn(c, k) + FunctionCount[c[k]]
  <2>1. ASSUME NEW k \in 1 .. Len(c) PROVE FunctionCount[c[k]] \in Nat /\ k \in 1 .. Len(c) + 1
    BY <1>1, ItemsFacts, CountFacts
  <2> QED
    BY <2>1, BaseFacts
<1>3. 0 \in S
  BY <1>1, <1>2
<1>4. \A n \in Nat : n \in S => n + 1 \in S
  <2> SUFFICES ASSUME NEW n \in Nat, n \in S, p + 1 + (n + 1) <= Len(c)
               PROVE  BaseIn(c, p) + FunctionCount[c[p]] <= BaseIn(c, p + 1 + (n + 1))
    OBVIOUS
  <2>1. PICK k : k = p + 1 + n
    OBVIOUS
  <2>2. k \in 1 .. Len(c) /\ p + 1 + (n + 1) = k + 1 /\ p + 1 + n <= Len(c)
    BY <1>1, <2>1
  <2>3. BaseIn(c, p) + FunctionCount[c[p]] <= BaseIn(c, k)
    BY <2>1, <2>2
  <2>4. BaseIn(c, k + 1) = BaseIn(c, k) + FunctionCount[c[k]] /\ BaseIn(c, k) \in Nat /\ FunctionCount[c[k]] \in Nat
    BY <1>2, <2>2
  <2>5. BaseIn(c, p) \in Nat /\ FunctionCount[c[p]] \in Nat
    BY <1>2
  <2>6. PICK x, y, z, e : x = BaseIn(c, p) /\ y = FunctionCount[c[p]] /\ z = BaseIn(c, k) /\ e = FunctionCount[c[k]]
    OBVIOUS
  <2>7. x \in Nat /\ y \in Nat /\ z \in Nat /\ e \in Nat /\ x + y <= z /\ BaseIn(c, k + 1) = z + e
    BY <2>3, <2>4, <2>5, <2>6
  <2>8. x + y <= z + e
    BY <2>7
  <2> QED
    BY <2>2, <2>6, <2>7, <2>8
<1>5. \A n \in Nat : n \in S
  <2> HIDE DEF S
  <2> QED
    BY <1>3, <1>4, NatSetInduction
<1>6. q - p - 1 \in Nat /\ p + 1 + (q - p - 1) = q /\ q <= Len(c)
  BY <1>1
<1> QED
  BY <1>5, <1>6

(* The last function of a place of the chain is that of no other.          *)
LastOf(c, p) == BaseIn(c, p) + FunctionCount[c[p]] - 1

LEMMA LastOfOne ==
  ASSUME NEW c \in Seq(Everything), NEW p \in 1 .. Len(c), NEW q \in 1 .. Len(c), LastOf(c, p) = LastOf(c, q)
  PROVE  p = q
<1>1. Len(c) \in Nat /\ p \in Nat /\ q \in Nat /\ c[p] \in Everything /\ c[q] \in Everything
  BY ItemsFacts
<1>2. FunctionCount[c[p]] \in Nat /\ FunctionCount[c[p]] > 0 /\ FunctionCount[c[q]] \in Nat /\ FunctionCount[c[q]] > 0
  BY <1>1, CountFacts
<1>3. p \in 1 .. Len(c) + 1 /\ q \in 1 .. Len(c) + 1
  BY <1>1
<1>4. BaseIn(c, p) \in Nat /\ BaseIn(c, q) \in Nat
  BY <1>3, BaseFacts
<1>5. p < q => BaseIn(c, p) + FunctionCount[c[p]] <= BaseIn(c, q)
  BY BaseGrows
<1>6. q < p => BaseIn(c, q) + FunctionCount[c[q]] <= BaseIn(c, p)
  BY BaseGrows
<1>7. PICK x, y, v, w : x = BaseIn(c, p) /\ y = FunctionCount[c[p]] /\ v = BaseIn(c, q) /\ w = FunctionCount[c[q]]
  OBVIOUS
<1>8. x \in Nat /\ y \in Nat /\ v \in Nat /\ w \in Nat /\ y > 0 /\ w > 0
  BY <1>2, <1>4, <1>7
<1>9. (p < q => x + y <= v) /\ (q < p => v + w <= x) /\ x + y - 1 = v + w - 1
  BY <1>5, <1>6, <1>7 DEF LastOf
<1> QED
  BY <1>1, <1>8, <1>9

(***************************************************************************)
(* The strings of a module, and what its functions refer to.               *)
(***************************************************************************)
Texts == {m \o " text" : m \in Everything} \cup Everything
StringsIn(is, m) == <<m \o " text">> \o InOrder(NamesOf(is[m]))

LEMMA StringsAre == \A m : StringsOf(m) = StringsIn(imports, m)
BY DEF StringsOf, StringsIn

LEMMA StringsFacts ==
  ASSUME NEW is, NEW m \in Everything, NamesOf(is[m]) \subseteq Everything
  PROVE  StringsIn(is, m) \in Seq(Texts) /\ NamesOf(is[m]) \subseteq ToSet(StringsIn(is, m))
<1>1. PICK u, k : u = <<m \o " text">> /\ k = InOrder(NamesOf(is[m]))
  OBVIOUS
<1>2. m \o " text" \in Texts
  BY DEF Texts
<1>3. u \in Seq(Texts)
  BY <1>1, <1>2, OneItem
<1>4. k \in Seq(Everything) /\ ToSet(k) = NamesOf(is[m])
  BY <1>1, InOrderFacts
<1>5. k \in Seq(Texts)
  <2>1. Everything \subseteq Texts
    BY DEF Texts
  <2> QED
    BY <1>4, <2>1
<1>6. IsJoined(StringsIn(is, m), u, k)
  BY <1>1 DEF IsJoined, StringsIn
<1> QED
  BY <1>3, <1>4, <1>5, <1>6, LongerIs

Ref == [to : {"string", "function"}, id : Nat]
StringRefs(s) == [k \in 1 .. Len(s) |-> [to |-> "string", id |-> Len(s) - k]]
FunctionRefs(f) == [g \in 1 .. (f - 1) |-> [to |-> "function", id |-> g - 1]]
RefsIn(s, f) == StringRefs(s) \o FunctionRefs(f)
MeantIn(s, m, ref) == IF ref.to = "string" THEN s[CHOOSE k \in DOMAIN s : Len(s) - k = ref.id] ELSE <<m, ref.id>>
MapIn(s, baseline) == [id \in 0 .. (Len(s) - 1) |-> (CHOOSE k \in 1 .. Len(s) : Len(s) - k = id) - 1 + baseline]
RenumberedIn(s, f, d, b) ==
  [k \in DOMAIN RefsIn(s, f) |->
     IF RefsIn(s, f)[k].to = "string" THEN [RefsIn(s, f)[k] EXCEPT !.id = MapIn(s, d)[@]]
     ELSE [RefsIn(s, f)[k] EXCEPT !.id = @ + b]]

LEMMA RefsAre ==
  ASSUME NEW m, NEW f
  PROVE  /\ RefsOf(m, f) = RefsIn(StringsOf(m), f)
         /\ \A ref : MeantHere(m, ref) = MeantIn(StringsOf(m), m, ref)
         /\ Renumbered(m, f) = RenumberedIn(StringsOf(m), f, Len(data), Len(functions))
<1>1. RefsOf(m, f) = RefsIn(StringsOf(m), f)
  BY DEF RefsOf, RefsIn, StringRefs, FunctionRefs, IdOf
<1>2. \A ref : MeantHere(m, ref) = MeantIn(StringsOf(m), m, ref)
  BY DEF MeantHere, MeantIn, IdOf
<1>3. DataMap(m, Len(data)) = MapIn(StringsOf(m), Len(data))
  BY DEF DataMap, MapIn, IdOf
<1>4. Renumbered(m, f) = RenumberedIn(StringsOf(m), f, Len(data), Len(functions))
  BY <1>1, <1>3 DEF Renumbered, RenumberedIn, FunctionBase
<1> QED
  BY <1>1, <1>2, <1>4

(* First the strings, then the functions before this one.                  *)
LEMMA RefsFacts ==
  ASSUME NEW T, NEW s \in Seq(T), NEW f \in Nat, f > 0
  PROVE  /\ RefsIn(s, f) \in Seq(Ref) /\ DOMAIN RefsIn(s, f) = 1 .. Len(s) + (f - 1)
         /\ \A k \in 1 .. Len(s) : RefsIn(s, f)[k] = [to |-> "string", id |-> Len(s) - k]
         /\ \A k \in Len(s) + 1 .. Len(s) + (f - 1) : RefsIn(s, f)[k] = [to |-> "function", id |-> k - Len(s) - 1]
<1>1. Len(s) \in Nat
  BY LenProperties
<1>2. PICK a, b : a = StringRefs(s) /\ b = FunctionRefs(f)
  OBVIOUS
<1>3. /\ a \in Seq(Ref) /\ Len(a) = Len(s)
      /\ \A k \in 1 .. Len(s) : a[k] = [to |-> "string", id |-> Len(s) - k]
  <2>1. \A k \in 1 .. Len(s) : Len(s) - k \in Nat
    BY <1>1
  <2>2. \A k \in 1 .. Len(s) : [to |-> "string", id |-> Len(s) - k] \in Ref
    BY <2>1 DEF Ref
  <2>3. a \in [1 .. Len(s) -> Ref]
    BY <1>2, <2>2 DEF StringRefs
  <2>4. a \in Seq(Ref) /\ Len(a) = Len(s)
    BY <1>1, <2>3
  <2> QED
    BY <1>2, <2>4 DEF StringRefs
<1>4. /\ b \in Seq(Ref) /\ Len(b) = f - 1
      /\ \A g \in 1 .. (f - 1) : b[g] = [to |-> "function", id |-> g - 1]
  <2>1. \A g \in 1 .. (f - 1) : g - 1 \in Nat
    OBVIOUS
  <2>2. \A g \in 1 .. (f - 1) : [to |-> "function", id |-> g - 1] \in Ref
    BY <2>1 DEF Ref
  <2>3. b \in [1 .. (f - 1) -> Ref] /\ f - 1 \in Nat
    BY <1>2, <2>2 DEF FunctionRefs
  <2>4. b \in Seq(Ref) /\ Len(b) = f - 1
    BY <2>3
  <2> QED
    BY <1>2, <2>4 DEF FunctionRefs
<1>5. PICK r : r = RefsIn(s, f)
  OBVIOUS
<1>6. IsJoined(r, a, b)
  BY <1>2, <1>5 DEF IsJoined, RefsIn
<1>7. r \in Seq(Ref) /\ Longer(r, a, b)
  BY <1>3, <1>4, <1>6, LongerIs
<1>8. DOMAIN r = 1 .. Len(s) + (f - 1)
  BY <1>3, <1>4, <1>7, ItemsFacts DEF Longer
<1>9. \A k \in 1 .. Len(s) : r[k] = [to |-> "string", id |-> Len(s) - k]
  BY <1>3, <1>7 DEF Longer
<1>10. ASSUME NEW k \in Len(s) + 1 .. Len(s) + (f - 1) PROVE r[k] = [to |-> "function", id |-> k - Len(s) - 1]
  <2>1. PICK g : g = k - Len(s)
    OBVIOUS
  <2>2. g \in 1 .. (f - 1) /\ Len(s) + g = k /\ g - 1 = k - Len(s) - 1
    BY <1>1, <2>1
  <2>3. r[Len(a) + g] = b[g]
    BY <1>4, <1>7, <2>2 DEF Longer
  <2> QED
    BY <1>3, <1>4, <2>2, <2>3
<1> QED
  BY <1>5, <1>7, <1>8, <1>9, <1>10

(* Renumbered, a reference says the same.                                  *)
Says(ref, s, m, orig, d, b) ==
  \/ ref.to = "string" /\ \E j \in 1 .. Len(s) : ref.id = d + j - 1 /\ MeantIn(s, m, orig) = s[j]
  \/ ref.to = "function" /\ ref.id - b \in Nat /\ MeantIn(s, m, orig) = <<m, ref.id - b>>

LEMMA RenumberedFacts ==
  ASSUME NEW T, NEW s \in Seq(T), NEW f \in Nat, f > 0, NEW d \in Nat, NEW b \in Nat, NEW m
  PROVE  /\ RenumberedIn(s, f, d, b) \in Seq(Ref)
         /\ \A k \in DOMAIN RefsIn(s, f) : Says(RenumberedIn(s, f, d, b)[k], s, m, RefsIn(s, f)[k], d, b)
<1>1. Len(s) \in Nat /\ DOMAIN s = 1 .. Len(s)
  BY ItemsFacts
<1>2. PICK r, n : r = RefsIn(s, f) /\ n = RenumberedIn(s, f, d, b)
  OBVIOUS
<1>3. /\ r \in Seq(Ref) /\ DOMAIN r = 1 .. Len(s) + (f - 1)
      /\ \A k \in 1 .. Len(s) : r[k] = [to |-> "string", id |-> Len(s) - k]
      /\ \A k \in Len(s) + 1 .. Len(s) + (f - 1) : r[k] = [to |-> "function", id |-> k - Len(s) - 1]
  BY <1>2, RefsFacts
<1>4. n = [k \in DOMAIN r |-> IF r[k].to = "string" THEN [r[k] EXCEPT !.id = MapIn(s, d)[@]] ELSE [r[k] EXCEPT !.id = @ + b]]
  BY <1>2 DEF RenumberedIn
<1>5. ASSUME NEW k \in 1 .. Len(s)
      PROVE  n[k] = [to |-> "string", id |-> d + k - 1] /\ MeantIn(s, m, r[k]) = s[k]
  <2>1. Len(s) - k \in 0 .. Len(s) - 1 /\ \A j \in 1 .. Len(s) : Len(s) - j = Len(s) - k => j = k
    BY <1>1
  <2>2. (CHOOSE j \in 1 .. Len(s) : Len(s) - j = Len(s) - k) = k
    BY <2>1
  <2>3. MapIn(s, d)[Len(s) - k] = k - 1 + d
    BY <2>1, <2>2 DEF MapIn
  <2>4. k \in DOMAIN r /\ r[k].to = "string" /\ r[k].id = Len(s) - k
    <3>1. k \in 1 .. Len(s) + (f - 1)
      BY <1>1
    <3>2. r[k] = [to |-> "string", id |-> Len(s) - k]
      BY <1>3
    <3> QED
      BY <1>3, <3>1, <3>2
  <2>5. n[k] = [r[k] EXCEPT !.id = MapIn(s, d)[@]]
    BY <1>4, <2>4
  <2>6. r[k] = [to |-> "string", id |-> Len(s) - k]
    BY <1>3
  <2>7. n[k] = [to |-> "string", id |-> MapIn(s, d)[Len(s) - k]]
    BY <2>5, <2>6
  <2>8. k - 1 + d = d + k - 1
    BY <1>1
  <2>9. MeantIn(s, m, r[k]) = s[CHOOSE j \in 1 .. Len(s) : Len(s) - j = Len(s) - k]
    BY <1>1, <2>4 DEF MeantIn
  <2> QED
    BY <2>2, <2>3, <2>7, <2>8, <2>9
<1>6. ASSUME NEW k \in Len(s) + 1 .. Len(s) + (f - 1)
      PROVE  n[k] = [to |-> "function", id |-> (k - Len(s) - 1) + b] /\ MeantIn(s, m, r[k]) = <<m, k - Len(s) - 1>>
  <2>1. k \in DOMAIN r /\ r[k] = [to |-> "function", id |-> k - Len(s) - 1]
    BY <1>1, <1>3
  <2>2. r[k].to = "function" /\ r[k].id = k - Len(s) - 1
    BY <2>1
  <2>3. n[k] = [r[k] EXCEPT !.id = @ + b]
    BY <1>4, <2>1, <2>2
  <2>4. n[k] = [to |-> "function", id |-> (k - Len(s) - 1) + b]
    BY <2>1, <2>3
  <2>5. MeantIn(s, m, r[k]) = <<m, k - Len(s) - 1>>
    BY <2>2 DEF MeantIn
  <2> QED
    BY <2>4, <2>5
<1>7. ASSUME NEW k \in DOMAIN r PROVE n[k] \in Ref /\ Says(n[k], s, m, r[k], d, b)
  <2>1. k \in 1 .. Len(s) \/ k \in Len(s) + 1 .. Len(s) + (f - 1)
    BY <1>1, <1>3
  <2>2. CASE k \in 1 .. Len(s)
    <3>1. d + k - 1 \in Nat
      BY <1>1, <2>2
    <3>2. PICK j : j = d + k - 1
      OBVIOUS
    <3>3. n[k] = [to |-> "string", id |-> j] /\ j \in Nat
      BY <1>5, <2>2, <3>1, <3>2
    <3>4. n[k].to = "string" /\ n[k].id = j /\ n[k] \in Ref
      BY <3>3 DEF Ref
    <3> QED
      BY <1>5, <2>2, <3>2, <3>4 DEF Says
  <2>3. CASE k \in Len(s) + 1 .. Len(s) + (f - 1)
    <3>1. PICK g : g = k - Len(s) - 1
      OBVIOUS
    <3>2. g \in Nat /\ g + b \in Nat /\ (g + b) - b = g
      BY <1>1, <2>3, <3>1
    <3>3. n[k] = [to |-> "function", id |-> g + b] /\ MeantIn(s, m, r[k]) = <<m, g>>
      BY <1>6, <2>3, <3>1
    <3>4. n[k].to = "function" /\ n[k].id = g + b /\ n[k] \in Ref
      BY <3>2, <3>3 DEF Ref
    <3> QED
      BY <3>2, <3>3, <3>4 DEF Says
  <2> QED
    BY <2>1, <2>2, <2>3
<1>8. n \in Seq(Ref)
  <2>1. PICK l : l = Len(s) + (f - 1)
    OBVIOUS
  <2>2. l \in Nat /\ DOMAIN n = 1 .. l
    BY <1>1, <1>3, <1>4, <2>1
  <2>3. \A k \in 1 .. l : n[k] \in Ref
    BY <1>3, <1>7, <2>1
  <2>4. n = [k \in 1 .. l |-> n[k]]
    BY <1>4, <2>2
  <2>5. n \in [1 .. l -> Ref]
    BY <2>3, <2>4
  <2> QED
    BY <2>2, <2>5
<1> QED
  BY <1>2, <1>7, <1>8

(***************************************************************************)
(* The merge: the modules at the first n places of the chain.              *)
(***************************************************************************)
Keeps(ref, s, m, orig, d, b) ==
  IF ref.to = "string" THEN ref.id + 1 \in 1 .. Len(d) /\ d[ref.id + 1] = MeantIn(s, m, orig)
  ELSE <<m, ref.id - b>> = MeantIn(s, m, orig)
KeepsAll(function, s, m, f, d, b) == \A k \in DOMAIN RefsIn(s, f) : Keeps(function[k], s, m, RefsIn(s, f)[k], d, b)

MergedUpTo(is, c, n, d, fs, tp) ==
  /\ d \in Seq(Texts) /\ fs \in Seq(Seq(Ref)) /\ Len(fs) = BaseIn(c, n + 1)
  /\ DOMAIN tp = {c[p] : p \in 1 .. n}
  /\ \A m \in DOMAIN tp : \E p \in 1 .. n : c[p] = m /\ tp[m] = LastOf(c, p)
  /\ \A p \in 1 .. n : ToSet(StringsIn(is, c[p])) \subseteq ToSet(d)
  /\ \A p \in 1 .. n : \A f \in 1 .. FunctionCount[c[p]] :
       KeepsAll(fs[BaseIn(c, p) + f], StringsIn(is, c[p]), c[p], f, d, BaseIn(c, p))

LEMMA KeepsMore ==
  ASSUME NEW T, NEW d \in Seq(T), NEW k \in Seq(T), NEW d2, IsJoined(d2, d, k),
         NEW function, NEW s, NEW m, NEW f, NEW b, KeepsAll(function, s, m, f, d, b)
  PROVE  KeepsAll(function, s, m, f, d2, b)
<1>1. Longer(d2, d, k) /\ Len(d) \in Nat /\ Len(k) \in Nat
  BY LongerIs, LenProperties
<1>2. \A i \in 1 .. Len(d) : i \in 1 .. Len(d2) /\ d2[i] = d[i]
  BY <1>1 DEF Longer
<1> QED
  BY <1>2 DEF KeepsAll, Keeps

LEMMA ItemsMakeSeq ==
  ASSUME NEW T, NEW n \in Nat, NEW g \in [1 .. n -> T]
  PROVE  g \in Seq(T) /\ Len(g) = n
OBVIOUS

NewFunctions(s, m, d, b) == [f \in 1 .. FunctionCount[m] |-> RenumberedIn(s, f, d, b)]
NewTops(tp, m, b) == [x \in DOMAIN tp \cup {m} |-> IF x = m THEN b + FunctionCount[m] - 1 ELSE tp[x]]

LEMMA MergeOne ==
  ASSUME NEW is, NEW c \in Seq(Everything), NEW n \in Nat, n < Len(c), NEW d, NEW fs, NEW tp, MergedUpTo(is, c, n, d, fs, tp),
         NEW m, m = c[n + 1], NamesOf(is[m]) \subseteq Everything,
         NEW s, s = StringsIn(is, m), NEW d2, IsJoined(d2, d, s),
         NEW fs2, IsJoined(fs2, fs, NewFunctions(s, m, Len(d), Len(fs))),
         NEW tp2, tp2 = NewTops(tp, m, Len(fs))
  PROVE  MergedUpTo(is, c, n + 1, d2, fs2, tp2)
<1>1. Len(c) \in Nat /\ n + 1 \in 1 .. Len(c) /\ m \in Everything
  BY ItemsFacts
<1>2. PICK C, B, new : C = FunctionCount[m] /\ B = BaseIn(c, n + 1) /\ new = NewFunctions(s, m, Len(d), Len(fs))
  OBVIOUS
<1>3. C \in Nat /\ C > 0
  BY <1>1, <1>2, CountFacts
<1>4. B \in Nat /\ BaseIn(c, (n + 1) + 1) = B + C
  <2>1. n + 1 \in 1 .. Len(c) + 1
    BY <1>1
  <2> QED
    BY <1>1, <1>2, <2>1, BaseFacts
<1>5. s \in Seq(Texts)
  BY <1>1, StringsFacts
<1>6. d \in Seq(Texts) /\ fs \in Seq(Seq(Ref)) /\ Len(fs) = B /\ Len(d) \in Nat
  BY <1>2, LenProperties DEF MergedUpTo
<1>7. /\ d2 \in Seq(Texts) /\ Longer(d2, d, s) /\ ToSet(d2) = ToSet(d) \cup ToSet(s)
  BY <1>5, <1>6, LongerIs
<1>8. \A f \in 1 .. C : /\ RenumberedIn(s, f, Len(d), B) \in Seq(Ref)
                        /\ \A k \in DOMAIN RefsIn(s, f) : Says(RenumberedIn(s, f, Len(d), B)[k], s, m, RefsIn(s, f)[k], Len(d), B)
  <2>1. \A f \in 1 .. C : f \in Nat /\ f > 0
    BY <1>3
  <2> QED
    BY <1>4, <1>5, <1>6, <2>1, RenumberedFacts
<1>9. new \in Seq(Seq(Ref)) /\ Len(new) = C /\ \A f \in 1 .. C : new[f] = RenumberedIn(s, f, Len(d), B)
  <2>1. new = [f \in 1 .. C |-> RenumberedIn(s, f, Len(d), B)]
    BY <1>2, <1>6 DEF NewFunctions
  <2>2. new \in [1 .. C -> Seq(Ref)]
    BY <1>8, <2>1
  <2>3. new \in Seq(Seq(Ref)) /\ Len(new) = C
    BY <1>3, <2>2, ItemsMakeSeq
  <2> QED
    BY <2>1, <2>3
<1>10. fs2 \in Seq(Seq(Ref)) /\ Longer(fs2, fs, new)
  BY <1>2, <1>6, <1>9, LongerIs
<1>11. Len(fs2) = B + C
  BY <1>6, <1>9, <1>10 DEF Longer
<1>12. \A p \in 1 .. n + 1 : p \in 1 .. n \/ p = n + 1
  OBVIOUS
<1>13. DOMAIN tp2 = DOMAIN tp \cup {m} /\ \A x \in DOMAIN tp2 : tp2[x] = IF x = m THEN B + C - 1 ELSE tp[x]
  BY <1>2, <1>6 DEF NewTops
<1>14. DOMAIN tp2 = {c[p] : p \in 1 .. n + 1}
  <2>1. DOMAIN tp = {c[p] : p \in 1 .. n}
    BY DEF MergedUpTo
  <2>2. {c[p] : p \in 1 .. n + 1} = {c[p] : p \in 1 .. n} \cup {m}
    <3>1. \A p : p \in 1 .. n + 1 <=> p \in 1 .. n \/ p = n + 1
      OBVIOUS
    <3> QED
      BY <3>1
  <2> QED
    BY <1>13, <2>1, <2>2
<1>15. ASSUME NEW x \in DOMAIN tp2 PROVE \E p \in 1 .. n + 1 : c[p] = x /\ tp2[x] = LastOf(c, p)
  <2>1. CASE x = m
    <3>1. tp2[x] = B + C - 1 /\ n + 1 \in 1 .. n + 1
      BY <1>13, <2>1
    <3>2. LastOf(c, n + 1) = B + C - 1
      BY <1>2 DEF LastOf
    <3> QED
      BY <2>1, <3>1, <3>2
  <2>2. CASE x # m
    <3>1. x \in DOMAIN tp /\ tp2[x] = tp[x]
      BY <1>13, <2>2
    <3>2. PICK p \in 1 .. n : c[p] = x /\ tp[x] = LastOf(c, p)
      BY <3>1 DEF MergedUpTo
    <3>3. p \in 1 .. n + 1
      OBVIOUS
    <3> QED
      BY <3>1, <3>2, <3>3
  <2> QED
    BY <2>1, <2>2
<1>16. \A p \in 1 .. n + 1 : ToSet(StringsIn(is, c[p])) \subseteq ToSet(d2)
  <2>1. \A p \in 1 .. n : ToSet(StringsIn(is, c[p])) \subseteq ToSet(d)
    BY DEF MergedUpTo
  <2> QED
    BY <1>7, <1>12, <2>1
<1>17. ASSUME NEW p \in 1 .. n + 1, NEW f \in 1 .. FunctionCount[c[p]]
       PROVE  KeepsAll(fs2[BaseIn(c, p) + f], StringsIn(is, c[p]), c[p], f, d2, BaseIn(c, p))
  <2>1. CASE p \in 1 .. n
    <3>1. KeepsAll(fs[BaseIn(c, p) + f], StringsIn(is, c[p]), c[p], f, d, BaseIn(c, p))
      BY <1>17, <2>1 DEF MergedUpTo
    <3>2. KeepsAll(fs[BaseIn(c, p) + f], StringsIn(is, c[p]), c[p], f, d2, BaseIn(c, p))
      BY <1>5, <1>6, <3>1, KeepsMore
    <3>3. BaseIn(c, p) + f \in 1 .. Len(fs)
      <4>1. p \in 1 .. Len(c) /\ p < n + 1 /\ p \in 1 .. Len(c) + 1 /\ c[p] \in Everything
        BY <1>1, <2>1, ItemsFacts
      <4>2. PICK x, y : x = BaseIn(c, p) /\ y = FunctionCount[c[p]]
        OBVIOUS
      <4>3. x \in Nat /\ y \in Nat
        BY <4>1, <4>2, BaseFacts, CountFacts
      <4>4. x + y <= B
        BY <1>1, <1>2, <4>1, <4>2, BaseGrows
      <4>5. f \in 1 .. y
        BY <1>17, <4>2
      <4>6. x + f \in 1 .. B
        BY <1>4, <4>3, <4>4, <4>5
      <4> QED
        BY <1>6, <4>2, <4>6
    <3>4. fs2[BaseIn(c, p) + f] = fs[BaseIn(c, p) + f]
      BY <1>10, <3>3 DEF Longer
    <3> QED
      BY <3>2, <3>4
  <2>2. CASE p = n + 1
    <3>1. f \in 1 .. C /\ c[p] = m /\ StringsIn(is, c[p]) = s /\ BaseIn(c, p) = B
      BY <1>2, <1>17, <2>2
    <3>2. fs2[B + f] = RenumberedIn(s, f, Len(d), B)
      BY <1>6, <1>9, <1>10, <3>1 DEF Longer
    <3>3. PICK function : function = RenumberedIn(s, f, Len(d), B)
      OBVIOUS
    <3>4. ASSUME NEW k \in DOMAIN RefsIn(s, f) PROVE Keeps(function[k], s, m, RefsIn(s, f)[k], d2, B)
      <4>1. Says(function[k], s, m, RefsIn(s, f)[k], Len(d), B)
        BY <1>8, <3>1, <3>3
      <4>2. PICK ref, orig : ref = function[k] /\ orig = RefsIn(s, f)[k]
        OBVIOUS
      <4>3. CASE ref.to = "string" /\ \E j \in 1 .. Len(s) : ref.id = Len(d) + j - 1 /\ MeantIn(s, m, orig) = s[j]
        <5>1. PICK j \in 1 .. Len(s) : ref.id = Len(d) + j - 1 /\ MeantIn(s, m, orig) = s[j]
          BY <4>3
        <5>2. Len(s) \in Nat /\ Len(d2) = Len(d) + Len(s) /\ d2[Len(d) + j] = s[j]
          BY <1>5, <1>7, LenProperties DEF Longer
        <5>3. ref.id + 1 = Len(d) + j
          BY <1>6, <5>1, <5>2
        <5>4. ref.id + 1 \in 1 .. Len(d2)
          BY <1>6, <5>2, <5>3
        <5> QED
          BY <4>2, <4>3, <5>1, <5>2, <5>3, <5>4 DEF Keeps
      <4>4. CASE ref.to = "function" /\ ref.id - B \in Nat /\ MeantIn(s, m, orig) = <<m, ref.id - B>>
        BY <4>2, <4>4 DEF Keeps
      <4> QED
        BY <4>1, <4>2, <4>3, <4>4 DEF Says
    <3> QED
      BY <3>1, <3>2, <3>3, <3>4 DEF KeepsAll
  <2> QED
    BY <1>12, <2>1, <2>2
<1> QED
  BY <1>4, <1>7, <1>10, <1>11, <1>14, <1>15, <1>16, <1>17 DEF MergedUpTo

MergeInv(n) == MergedUpTo(imports, chain, n, data, functions, top)

LEMMA MergeStarts ==
  ASSUME chain \in Seq(Everything), data = <<>>, functions = <<>>, top = <<>>
  PROVE  MergeInv(0)
<1>1. functions \in Seq(Seq(Ref)) /\ data \in Seq(Texts) /\ Len(functions) = 0 /\ DOMAIN top = {}
  OBVIOUS
<1>2. BaseIn(chain, 1) = 0
  BY BaseFacts
<1>3. \A p : p \notin 1 .. 0
  OBVIOUS
<1>4. {chain[p] : p \in 1 .. 0} = {} /\ 0 + 1 = 1
  BY <1>3
<1> QED
  BY <1>1, <1>2, <1>3, <1>4 DEF MergeInv, MergedUpTo

LEMMA ImportsNamed ==
  ASSUME ProgramOK, NEW m \in Everything
  PROVE  NamesOf(imports[m]) \subseteq Everything
BY DEF ProgramOK, NamesOf

LEMMA MergeKeeps ==
  ASSUME ProgramOK, ListsOK, MergeInv(at), Merge
  PROVE  MergeInv(at)' /\ at' \in 0 .. Len(chain) /\ UNCHANGED <<depVars, exporters, code, loadedLibs>>
<1>1. PICK m : m = chain[at + 1]
  OBVIOUS
<1>2. /\ at < Len(chain) /\ at' = at + 1
      /\ data' = data \o StringsOf(m)
      /\ functions' = functions \o [f \in 1 .. FunctionCount[m] |-> Renumbered(m, f)]
      /\ top' = [x \in DOMAIN top \cup {m} |-> IF x = m THEN Len(functions) + FunctionCount[m] - 1 ELSE top[x]]
      /\ UNCHANGED <<depVars, exporters, code, loadedLibs>>
  BY <1>1 DEF Merge
<1>3. chain' = chain /\ imports' = imports
  BY <1>2 DEF depVars
<1>4. chain \in Seq(Everything) /\ at \in Nat /\ Len(chain) \in Nat
  <2>1. chain \in Seq(Everything) /\ at \in 0 .. Len(chain)
    BY DEF ListsOK
  <2>2. Len(chain) \in Nat
    BY <2>1, LenProperties
  <2> QED
    BY <2>1, <2>2
<1>5. at + 1 \in 1 .. Len(chain) /\ m \in Everything
  BY <1>1, <1>2, <1>4, ItemsFacts
<1>6. PICK s : s = StringsIn(imports, m)
  OBVIOUS
<1>7. IsJoined(data', data, s)
  BY <1>2, <1>6, StringsAre DEF IsJoined
<1>8. IsJoined(functions', functions, NewFunctions(s, m, Len(data), Len(functions)))
  <2>1. \A f : Renumbered(m, f) = RenumberedIn(s, f, Len(data), Len(functions))
    BY <1>6, RefsAre, StringsAre
  <2>2. [f \in 1 .. FunctionCount[m] |-> Renumbered(m, f)] = NewFunctions(s, m, Len(data), Len(functions))
    BY <2>1 DEF NewFunctions
  <2> QED
    BY <1>2, <2>2 DEF IsJoined
<1>9. NamesOf(imports[m]) \subseteq Everything
  BY <1>5, ImportsNamed
<1>10. PICK d2, fs2, tp2 : d2 = data' /\ fs2 = functions' /\ tp2 = top'
  OBVIOUS
<1>11. MergedUpTo(imports, chain, at, data, functions, top)
  BY DEF MergeInv
<1>12. MergedUpTo(imports, chain, at + 1, d2, fs2, tp2)
  <2>1. tp2 = NewTops(top, m, Len(functions))
    BY <1>2, <1>10 DEF NewTops
  <2>2. IsJoined(d2, data, s) /\ IsJoined(fs2, functions, NewFunctions(s, m, Len(data), Len(functions)))
    BY <1>7, <1>8, <1>10
  <2>3. at < Len(chain)
    BY <1>2
  <2> QED
    BY <1>1, <1>4, <1>6, <1>9, <1>11, <2>1, <2>2, <2>3, MergeOne
<1> QED
  BY <1>2, <1>3, <1>4, <1>5, <1>10, <1>12 DEF MergeInv

(***************************************************************************)
(* The entry of the program: calls of the chain c, with strings in d.      *)
(***************************************************************************)
Instruction == [op : {"dynlib", "call", "set"}, id : Nat]
CallOf(i, c, m) == i.op = "call" /\ \E p \in 1 .. Len(c) : c[p] = m /\ i.id = LastOf(c, p)
LibAt(i, d, n) == i.op = "dynlib" /\ d[i.id + 1] = n
SetTo(i, d, n) == i.op = "set" /\ d[i.id + 1] = n
StoredBy(k, e, d, c, n) == \E q \in 2 .. e : SetTo(k[q], d, n) /\ CallOf(k[q - 1], c, n)
LoadedBy(k, e, d, n) == \E q \in 1 .. e : LibAt(k[q], d, n)

(* What m imports is there before place e + 1 of the code.                 *)
ThereFor(m, k, e, d, c, tab, ex) ==
  \A i \in tab[m] : IF i.name \in DOMAIN tab THEN i.name \in ex => StoredBy(k, e, d, c, i.name) ELSE LoadedBy(k, e, d, i.name)

CallsFind(k, d, c, tab, ex) ==
  \A p \in 1 .. Len(k) : k[p].op = "call" => \E m : CallOf(k[p], c, m) /\ ThereFor(m, k, p - 1, d, c, tab, ex)
LibsAre(k, d, libs) ==
  /\ \A n \in libs : LoadedBy(k, Len(k), d, n)
  /\ \A q \in 1 .. Len(k) : k[q].op = "dynlib" => d[k[q].id + 1] \in libs
  /\ \A p, q \in 1 .. Len(k) : p # q /\ k[p].op = "dynlib" /\ k[q].op = "dynlib" => d[k[p].id + 1] # d[k[q].id + 1]
ExportsStored(k, d, c, n, ex) == \A p \in 1 .. n : c[p] \in ex => StoredBy(k, Len(k), d, c, c[p])

EnteredUpTo(k, libs, n, d, c, tab, ex) ==
  k \in Seq(Instruction) /\ ExportsStored(k, d, c, n, ex) /\ CallsFind(k, d, c, tab, ex) /\ LibsAre(k, d, libs)

(* What is there stays there when code is added.                           *)
LEMMA StillThere ==
  ASSUME NEW T, NEW k \in Seq(T), NEW x \in Seq(T), NEW a, IsJoined(a, k, x), NEW d, NEW c, NEW e \in Nat, e <= Len(k),
         NEW e2 \in Nat, e <= e2
  PROVE  /\ \A n : StoredBy(k, e, d, c, n) => StoredBy(a, e2, d, c, n)
         /\ \A n : LoadedBy(k, e, d, n) => LoadedBy(a, e2, d, n)
<1>1. Longer(a, k, x) /\ Len(k) \in Nat
  BY LongerIs, LenProperties
<1>2. \A q \in 1 .. e : a[q] = k[q]
  BY <1>1 DEF Longer
<1>3. ASSUME NEW n, StoredBy(k, e, d, c, n) PROVE StoredBy(a, e2, d, c, n)
  <2>1. PICK q \in 2 .. e : SetTo(k[q], d, n) /\ CallOf(k[q - 1], c, n)
    BY <1>3 DEF StoredBy
  <2>2. q \in 1 .. e /\ q - 1 \in 1 .. e /\ q \in 2 .. e2
    OBVIOUS
  <2>3. a[q] = k[q] /\ a[q - 1] = k[q - 1]
    BY <1>2, <2>2
  <2>4. SetTo(a[q], d, n) /\ CallOf(a[q - 1], c, n)
    BY <2>1, <2>3
  <2> QED
    BY <2>2, <2>4 DEF StoredBy
<1>4. ASSUME NEW n, LoadedBy(k, e, d, n) PROVE LoadedBy(a, e2, d, n)
  <2>1. PICK q \in 1 .. e : LibAt(k[q], d, n)
    BY <1>4 DEF LoadedBy
  <2>2. q \in 1 .. e2 /\ LibAt(a[q], d, n)
    BY <1>2, <2>1
  <2> QED
    BY <2>2 DEF LoadedBy
<1> QED
  BY <1>3, <1>4

LEMMA ThereStill ==
  ASSUME NEW T, NEW k \in Seq(T), NEW x \in Seq(T), NEW a, IsJoined(a, k, x), NEW d, NEW c, NEW e \in Nat, e <= Len(k),
         NEW e2 \in Nat, e <= e2, NEW m, NEW tab, NEW ex, ThereFor(m, k, e, d, c, tab, ex)
  PROVE  ThereFor(m, a, e2, d, c, tab, ex)
BY StillThere DEF ThereFor

(* Code without calls added                                                *)
LEMMA CallsStill ==
  ASSUME NEW T, NEW k \in Seq(T), NEW x \in Seq(T), NEW a, IsJoined(a, k, x), NEW d, NEW c, NEW tab, NEW ex, NEW n,
         CallsFind(k, d, c, tab, ex),
         \A j \in 1 .. Len(x) : x[j].op = "call" => \E m : CallOf(x[j], c, m) /\ ThereFor(m, k, Len(k), d, c, tab, ex)
  PROVE  CallsFind(a, d, c, tab, ex)
<1>1. a \in Seq(T) /\ Longer(a, k, x) /\ Len(k) \in Nat /\ Len(x) \in Nat
  BY LongerIs, LenProperties
<1> SUFFICES ASSUME NEW p \in 1 .. Len(a), a[p].op = "call" PROVE \E m : CallOf(a[p], c, m) /\ ThereFor(m, a, p - 1, d, c, tab, ex)
  BY DEF CallsFind
<1>2. Len(a) = Len(k) + Len(x)
  BY <1>1 DEF Longer
<1>3. CASE p <= Len(k)
  <2>1. p \in 1 .. Len(k) /\ a[p] = k[p]
    BY <1>1, <1>3 DEF Longer
  <2>2. PICK m : CallOf(k[p], c, m) /\ ThereFor(m, k, p - 1, d, c, tab, ex)
    BY <2>1 DEF CallsFind
  <2>3. p - 1 \in Nat /\ p - 1 <= Len(k) /\ p - 1 <= p - 1
    BY <1>1, <2>1
  <2>4. PICK e : e = p - 1
    OBVIOUS
  <2>5. ThereFor(m, a, e, d, c, tab, ex)
    BY <2>2, <2>3, <2>4, ThereStill
  <2> QED
    BY <2>1, <2>2, <2>4, <2>5
<1>4. CASE p > Len(k)
  <2>1. PICK j : j = p - Len(k)
    OBVIOUS
  <2>2. j \in 1 .. Len(x) /\ Len(k) + j = p
    BY <1>1, <1>2, <1>4, <2>1
  <2>3. a[p] = x[j]
    BY <1>1, <2>2 DEF Longer
  <2>4. PICK m : CallOf(x[j], c, m) /\ ThereFor(m, k, Len(k), d, c, tab, ex)
    BY <2>2, <2>3
  <2>5. p - 1 \in Nat /\ Len(k) <= p - 1 /\ Len(k) <= Len(k)
    BY <1>1, <1>4
  <2>6. PICK e, l : e = p - 1 /\ l = Len(k)
    OBVIOUS
  <2>7. ThereFor(m, k, l, d, c, tab, ex) /\ l \in Nat /\ l <= Len(k) /\ e \in Nat /\ l <= e
    BY <1>1, <2>4, <2>5, <2>6
  <2>8. ThereFor(m, a, e, d, c, tab, ex)
    BY <2>7, ThereStill
  <2> QED
    BY <2>3, <2>4, <2>6, <2>8
<1> QED
  BY <1>1, <1>3, <1>4

LEMMA ExportsStill ==
  ASSUME NEW T, NEW k \in Seq(T), NEW x \in Seq(T), NEW a, IsJoined(a, k, x), NEW d, NEW c, NEW n, NEW ex,
         ExportsStored(k, d, c, n, ex)
  PROVE  ExportsStored(a, d, c, n, ex)
<1>1. Len(k) \in Nat /\ Len(a) \in Nat /\ Len(k) <= Len(a) /\ Len(k) <= Len(k)
  <2>1. a \in Seq(T) /\ Longer(a, k, x) /\ Len(k) \in Nat /\ Len(x) \in Nat
    BY LongerIs, LenProperties
  <2> QED
    BY <2>1 DEF Longer
<1> QED
  BY <1>1, StillThere DEF ExportsStored

(* Code that loads no library                                              *)
LEMMA LibsStill ==
  ASSUME NEW T, NEW k \in Seq(T), NEW x \in Seq(T), NEW a, IsJoined(a, k, x), NEW d, NEW libs, LibsAre(k, d, libs),
         \A j \in 1 .. Len(x) : x[j].op # "dynlib"
  PROVE  LibsAre(a, d, libs)
<1>1. a \in Seq(T) /\ Longer(a, k, x) /\ Len(k) \in Nat /\ Len(x) \in Nat /\ Len(a) \in Nat
  BY LongerIs, LenProperties
<1>2. Len(a) = Len(k) + Len(x)
  BY <1>1 DEF Longer
<1>3. ASSUME NEW q \in 1 .. Len(a), a[q].op = "dynlib" PROVE q \in 1 .. Len(k) /\ a[q] = k[q]
  <2>1. CASE q <= Len(k)
    BY <1>1, <2>1 DEF Longer
  <2>2. CASE q > Len(k)
    <3>1. PICK j : j = q - Len(k)
      OBVIOUS
    <3>2. j \in 1 .. Len(x) /\ Len(k) + j = q
      BY <1>1, <1>2, <2>2, <3>1
    <3> QED
      BY <1>1, <1>3, <3>2 DEF Longer
  <2> QED
    BY <1>1, <2>1, <2>2
<1>4. \A n \in libs : LoadedBy(a, Len(a), d, n)
  <2>1. Len(k) <= Len(k) /\ Len(k) <= Len(a)
    BY <1>1, <1>2
  <2> QED
    BY <1>1, <2>1, StillThere DEF LibsAre
<1>5. \A q \in 1 .. Len(a) : a[q].op = "dynlib" => d[a[q].id + 1] \in libs
  BY <1>3 DEF LibsAre
<1>6. \A p, q \in 1 .. Len(a) : p # q /\ a[p].op = "dynlib" /\ a[q].op = "dynlib" => d[a[p].id + 1] # d[a[q].id + 1]
  BY <1>3 DEF LibsAre
<1> QED
  BY <1>4, <1>5, <1>6 DEF LibsAre

(* Code that loads the libraries of ns, none of which was loaded           *)
LEMMA LibsMore ==
  ASSUME NEW T, NEW k \in Seq(T), NEW x \in Seq(T), NEW a, IsJoined(a, k, x), NEW d, NEW libs, LibsAre(k, d, libs),
         NEW U, NEW ns \in Seq(U), Distinct(ns), Len(x) = Len(ns), ToSet(ns) \cap libs = {},
         \A j \in 1 .. Len(x) : LibAt(x[j], d, ns[j])
  PROVE  LibsAre(a, d, libs \cup ToSet(ns))
<1>1. a \in Seq(T) /\ Longer(a, k, x) /\ Len(k) \in Nat /\ Len(x) \in Nat /\ Len(a) \in Nat
  BY LongerIs, LenProperties
<1>2. Len(a) = Len(k) + Len(x)
  BY <1>1 DEF Longer
<1>3. \A q \in 1 .. Len(k) : a[q] = k[q]
  BY <1>1 DEF Longer
<1>4. \A q \in 1 .. Len(a) : q \in 1 .. Len(k) \/ \E j \in 1 .. Len(x) : q = Len(k) + j
  <2> TAKE q \in 1 .. Len(a)
  <2>1. SUFFICES ASSUME q > Len(k) PROVE \E j \in 1 .. Len(x) : q = Len(k) + j
    BY <1>1
  <2>2. q - Len(k) \in 1 .. Len(x) /\ q = Len(k) + (q - Len(k))
    BY <1>1, <1>2, <2>1
  <2> QED
    BY <2>2
<1>5. \A j \in 1 .. Len(x) : /\ Len(k) + j \in 1 .. Len(a) /\ LibAt(a[Len(k) + j], d, ns[j])
                             /\ ns[j] \in ToSet(ns) /\ ns[j] \notin libs
  <2> TAKE j \in 1 .. Len(x)
  <2>1. Len(k) + j \in 1 .. Len(a)
    BY <1>1, <1>2
  <2>2. a[Len(k) + j] = x[j]
    BY <1>1 DEF Longer
  <2>3. ns[j] \in ToSet(ns)
    BY ItemsFacts
  <2> QED
    BY <2>1, <2>2, <2>3
<1>6. ASSUME NEW n \in libs \cup ToSet(ns) PROVE LoadedBy(a, Len(a), d, n)
  <2>1. CASE n \in libs
    <3>1. Len(k) <= Len(k) /\ Len(k) <= Len(a)
      BY <1>1, <1>2
    <3> QED
      BY <1>1, <2>1, <3>1, StillThere DEF LibsAre
  <2>2. CASE n \in ToSet(ns)
    <3>1. PICK j \in 1 .. Len(ns) : ns[j] = n
      BY <2>2, InItems
    <3> QED
      BY <1>5, <3>1 DEF LoadedBy
  <2> QED
    BY <2>1, <2>2
<1>7. ASSUME NEW q \in 1 .. Len(a), a[q].op = "dynlib" PROVE d[a[q].id + 1] \in libs \cup ToSet(ns)
  <2>1. CASE q \in 1 .. Len(k)
    BY <1>3, <1>7, <2>1 DEF LibsAre
  <2>2. ASSUME NEW j \in 1 .. Len(x), q = Len(k) + j PROVE d[a[q].id + 1] \in ToSet(ns)
    BY <1>5, <2>2 DEF LibAt
  <2> QED
    BY <1>4, <2>1, <2>2
<1>8. ASSUME NEW p \in 1 .. Len(a), NEW q \in 1 .. Len(a), p # q, a[p].op = "dynlib", a[q].op = "dynlib"
      PROVE  d[a[p].id + 1] # d[a[q].id + 1]
  <2>1. CASE p \in 1 .. Len(k) /\ q \in 1 .. Len(k)
    BY <1>3, <1>8, <2>1 DEF LibsAre
  <2>2. ASSUME NEW r \in 1 .. Len(k), a[r].op = "dynlib", NEW j \in 1 .. Len(x) PROVE d[a[r].id + 1] # d[a[Len(k) + j].id + 1]
    <3>1. d[a[r].id + 1] \in libs
      BY <1>3, <2>2 DEF LibsAre
    <3> QED
      BY <1>5, <3>1 DEF LibAt
  <2>3. ASSUME NEW i \in 1 .. Len(x), NEW j \in 1 .. Len(x), i # j PROVE d[a[Len(k) + i].id + 1] # d[a[Len(k) + j].id + 1]
    <3>1. ns[i] # ns[j]
      BY <2>3 DEF Distinct
    <3> QED
      BY <1>5, <3>1 DEF LibAt
  <2>4. CASE p \in 1 .. Len(k) /\ q \notin 1 .. Len(k)
    <3>1. PICK j \in 1 .. Len(x) : q = Len(k) + j
      BY <1>4, <2>4
    <3> QED
      BY <1>8, <2>2, <2>4, <3>1
  <2>5. CASE p \notin 1 .. Len(k) /\ q \in 1 .. Len(k)
    <3>1. PICK j \in 1 .. Len(x) : p = Len(k) + j
      BY <1>4, <2>5
    <3> QED
      BY <1>8, <2>2, <2>5, <3>1
  <2>6. CASE p \notin 1 .. Len(k) /\ q \notin 1 .. Len(k)
    <3>1. PICK i \in 1 .. Len(x) : p = Len(k) + i
      BY <1>4, <2>6
    <3>2. PICK j \in 1 .. Len(x) : q = Len(k) + j
      BY <1>4, <2>6
    <3> QED
      BY <1>8, <2>3, <3>1, <3>2
  <2> QED
    BY <2>1, <2>4, <2>5, <2>6
<1> QED
  BY <1>6, <1>7, <1>8 DEF LibsAre

(* The number of a string, for one that is there                           *)
DataItemIn(d, s) == (CHOOSE k \in DOMAIN d : d[k] = s /\ \A j \in 1 .. (k - 1) : d[j] # s) - 1

LEMMA DataItemIs == \A s : DataItem(s) = DataItemIn(data, s)
BY DEF DataItem, DataItemIn

LEMMA DataItemFacts ==
  ASSUME NEW T, NEW d \in Seq(T), NEW s \in ToSet(d)
  PROVE  DataItemIn(d, s) \in Nat /\ d[DataItemIn(d, s) + 1] = s
<1> DEFINE I == {k \in Nat : k \in 1 .. Len(d) /\ d[k] = s}
<1>1. DOMAIN d = 1 .. Len(d) /\ Len(d) \in Nat
  BY ItemsFacts
<1>2. I # {} /\ I \in SUBSET Nat
  <2>1. PICK k \in 1 .. Len(d) : d[k] = s
    BY InItems
  <2>2. k \in Nat
    OBVIOUS
  <2> QED
    BY <2>1, <2>2
<1>3. PICK k \in I : \A y \in I : k <= y
  <2> HIDE DEF I
  <2> QED
    BY <1>2, Least
<1>4. k \in DOMAIN d /\ d[k] = s
  BY <1>1, <1>3
<1>5. \A j \in 1 .. (k - 1) : d[j] # s
  <2> SUFFICES ASSUME NEW j \in 1 .. (k - 1), d[j] = s PROVE FALSE
    OBVIOUS
  <2>1. k \in Nat /\ k <= Len(d)
    BY <1>1, <1>3
  <2>2. j \in Nat /\ j \in 1 .. Len(d) /\ j < k
    BY <1>1, <2>1
  <2> QED
    BY <1>3, <2>1, <2>2
<1>6. PICK x : x = CHOOSE e \in DOMAIN d : d[e] = s /\ \A j \in 1 .. (e - 1) : d[j] # s
  OBVIOUS
<1>7. x \in DOMAIN d /\ d[x] = s
  BY <1>4, <1>5, <1>6
<1>8. x - 1 \in Nat /\ (x - 1) + 1 = x
  BY <1>1, <1>7
<1>9. DataItemIn(d, s) = x - 1
  BY <1>6 DEF DataItemIn
<1> QED
  BY <1>7, <1>8, <1>9

(***************************************************************************)
(* The parts of a turn: the libraries, the call and the exports.           *)
(***************************************************************************)
LEMMA EnterLibs ==
  ASSUME NEW k, NEW libs, NEW n, NEW d \in Seq(Texts), NEW c, NEW tab, NEW ex, EnteredUpTo(k, libs, n, d, c, tab, ex),
         NEW ns \in Seq(Everything), Distinct(ns), ToSet(ns) \cap libs = {}, ToSet(ns) \subseteq ToSet(d),
         NEW x, x = [j \in DOMAIN ns |-> [op |-> "dynlib", id |-> DataItemIn(d, ns[j])]],
         NEW a, IsJoined(a, k, x)
  PROVE  EnteredUpTo(a, libs \cup ToSet(ns), n, d, c, tab, ex)
<1>1. DOMAIN ns = 1 .. Len(ns) /\ Len(ns) \in Nat
  BY ItemsFacts
<1>2. ASSUME NEW j \in 1 .. Len(ns)
      PROVE  x[j] \in Instruction /\ x[j].op = "dynlib" /\ LibAt(x[j], d, ns[j])
  <2>1. ns[j] \in ToSet(d)
    BY ItemsFacts
  <2>2. PICK i : i = DataItemIn(d, ns[j])
    OBVIOUS
  <2>3. i \in Nat /\ d[i + 1] = ns[j]
    BY <2>1, <2>2, DataItemFacts
  <2>4. x[j] = [op |-> "dynlib", id |-> i]
    BY <1>1, <2>2
  <2>5. x[j].op = "dynlib" /\ x[j].id = i /\ x[j] \in Instruction
    BY <2>3, <2>4 DEF Instruction
  <2> QED
    BY <2>3, <2>5 DEF LibAt
<1>3. x \in Seq(Instruction) /\ Len(x) = Len(ns)
  <2>1. x = [j \in 1 .. Len(ns) |-> x[j]]
    BY <1>1
  <2>2. x \in [1 .. Len(ns) -> Instruction]
    BY <1>2, <2>1
  <2> QED
    BY <1>1, <2>2, ItemsMakeSeq
<1>4. k \in Seq(Instruction) /\ ExportsStored(k, d, c, n, ex) /\ CallsFind(k, d, c, tab, ex) /\ LibsAre(k, d, libs)
  BY DEF EnteredUpTo
<1>5. a \in Seq(Instruction)
  BY <1>3, <1>4, LongerIs
<1>6. ExportsStored(a, d, c, n, ex)
  BY <1>3, <1>4, ExportsStill
<1>7. CallsFind(a, d, c, tab, ex)
  <2>1. \A j \in 1 .. Len(x) : x[j].op # "call"
    BY <1>2, <1>3
  <2> QED
    BY <1>3, <1>4, <2>1, CallsStill
<1>8. LibsAre(a, d, libs \cup ToSet(ns))
  <2>1. \A j \in 1 .. Len(x) : LibAt(x[j], d, ns[j])
    BY <1>2, <1>3
  <2> QED
    BY <1>3, <1>4, <2>1, LibsMore
<1> QED
  BY <1>5, <1>6, <1>7, <1>8 DEF EnteredUpTo

LEMMA EnterCall ==
  ASSUME NEW k, NEW libs, NEW n, NEW d, NEW c, NEW tab, NEW ex, EnteredUpTo(k, libs, n, d, c, tab, ex),
         NEW i \in Instruction, NEW m, CallOf(i, c, m), ThereFor(m, k, Len(k), d, c, tab, ex),
         NEW b, IsJoined(b, k, <<i>>)
  PROVE  EnteredUpTo(b, libs, n, d, c, tab, ex) /\ Len(b) = Len(k) + 1 /\ b[Len(b)] = i
<1>1. PICK x : x = <<i>>
  OBVIOUS
<1>2. x \in Seq(Instruction) /\ Len(x) = 1 /\ x[1] = i /\ i.op = "call" /\ IsJoined(b, k, x)
  BY <1>1, OneItem DEF CallOf
<1>3. \A j \in 1 .. Len(x) : x[j] = i
  BY <1>2
<1>4. k \in Seq(Instruction) /\ ExportsStored(k, d, c, n, ex) /\ CallsFind(k, d, c, tab, ex) /\ LibsAre(k, d, libs)
  BY DEF EnteredUpTo
<1>5. b \in Seq(Instruction) /\ Longer(b, k, x) /\ Len(k) \in Nat
  BY <1>2, <1>4, LongerIs, LenProperties
<1>6. ExportsStored(b, d, c, n, ex)
  BY <1>2, <1>4, ExportsStill
<1>7. CallsFind(b, d, c, tab, ex)
  <2>1. \A j \in 1 .. Len(x) : \E e : CallOf(x[j], c, e) /\ ThereFor(e, k, Len(k), d, c, tab, ex)
    BY <1>3
  <2> QED
    BY <1>2, <1>4, <2>1, CallsStill
<1>8. LibsAre(b, d, libs)
  <2>1. \A j \in 1 .. Len(x) : x[j].op # "dynlib"
    BY <1>2, <1>3
  <2> QED
    BY <1>2, <1>4, <2>1, LibsStill
<1>9. Len(b) = Len(k) + 1 /\ b[Len(b)] = i
  <2>1. Len(b) = Len(k) + 1 /\ 1 \in 1 .. Len(x)
    BY <1>2, <1>5 DEF Longer
  <2> QED
    BY <1>2, <1>5, <2>1 DEF Longer
<1> QED
  BY <1>5, <1>6, <1>7, <1>8, <1>9 DEF EnteredUpTo

LEMMA EnterSet ==
  ASSUME NEW k, NEW libs, NEW n, NEW d, NEW c, NEW tab, NEW ex, EnteredUpTo(k, libs, n, d, c, tab, ex),
         NEW m, Len(k) > 0, CallOf(k[Len(k)], c, m),
         NEW i \in Instruction, SetTo(i, d, m),
         NEW b, IsJoined(b, k, <<i>>)
  PROVE  EnteredUpTo(b, libs, n, d, c, tab, ex) /\ StoredBy(b, Len(b), d, c, m)
<1>1. PICK x : x = <<i>>
  OBVIOUS
<1>2. x \in Seq(Instruction) /\ Len(x) = 1 /\ x[1] = i /\ i.op = "set" /\ IsJoined(b, k, x)
  BY <1>1, OneItem DEF SetTo
<1>3. \A j \in 1 .. Len(x) : x[j].op = "set"
  BY <1>2
<1>4. k \in Seq(Instruction) /\ ExportsStored(k, d, c, n, ex) /\ CallsFind(k, d, c, tab, ex) /\ LibsAre(k, d, libs)
  BY DEF EnteredUpTo
<1>5. b \in Seq(Instruction) /\ Longer(b, k, x) /\ Len(k) \in Nat
  BY <1>2, <1>4, LongerIs, LenProperties
<1>6. ExportsStored(b, d, c, n, ex)
  BY <1>2, <1>4, ExportsStill
<1>7. CallsFind(b, d, c, tab, ex)
  <2>1. \A j \in 1 .. Len(x) : x[j].op # "call"
    BY <1>3
  <2> QED
    BY <1>2, <1>4, <2>1, CallsStill
<1>8. LibsAre(b, d, libs)
  <2>1. \A j \in 1 .. Len(x) : x[j].op # "dynlib"
    BY <1>3
  <2> QED
    BY <1>2, <1>4, <2>1, LibsStill
<1>9. StoredBy(b, Len(b), d, c, m)
  <2>1. Len(b) = Len(k) + 1 /\ 1 \in 1 .. Len(x) /\ Len(k) \in 1 .. Len(k)
    BY <1>2, <1>5 DEF Longer
  <2>2. b[Len(k) + 1] = i /\ b[Len(k)] = k[Len(k)]
    BY <1>2, <1>5, <2>1 DEF Longer
  <2>3. PICK q : q = Len(b)
    OBVIOUS
  <2>4. q \in 2 .. Len(b) /\ q - 1 = Len(k) /\ q = Len(k) + 1
    BY <1>5, <2>1, <2>3
  <2>5. SetTo(b[q], d, m) /\ CallOf(b[q - 1], c, m)
    BY <2>2, <2>4
  <2> QED
    BY <2>4, <2>5 DEF StoredBy
<1> QED
  BY <1>5, <1>6, <1>7, <1>8, <1>9 DEF EnteredUpTo

LEMMA EnterNext ==
  ASSUME NEW k, NEW libs, NEW n \in Nat, NEW d, NEW c, NEW tab, NEW ex, EnteredUpTo(k, libs, n, d, c, tab, ex),
         c[n + 1] \in ex => StoredBy(k, Len(k), d, c, c[n + 1])
  PROVE  EnteredUpTo(k, libs, n + 1, d, c, tab, ex)
<1>1. \A p \in 1 .. n + 1 : p \in 1 .. n \/ p = n + 1
  OBVIOUS
<1> QED
  BY <1>1 DEF EnteredUpTo, ExportsStored

(***************************************************************************)
(* A turn of the loop over the chain.                                      *)
(***************************************************************************)
EnterInv(n) == EnteredUpTo(code, loadedLibs, n, data, chain, table, exporters)

(* Of the modules only those that are shared are also loaded as libraries. *)
LibsShared == \A n \in loadedLibs \cap Modules : Shared(n)

LEMMA EnterStarts ==
  ASSUME code = <<>>, loadedLibs = {}
  PROVE  EnterInv(0)
<1>1. code \in Seq(Instruction) /\ Len(code) = 0
  OBVIOUS
<1>2. \A p : p \notin 1 .. 0
  OBVIOUS
<1> QED
  BY <1>1, <1>2 DEF EnterInv, EnteredUpTo, ExportsStored, CallsFind, LibsAre

(* What the module at the next place imports                               *)
LEMMA ImportsSettled ==
  ASSUME ProgramOK, ListsOK, NeededInv, OrderInv, EnterInv(at), at < Len(chain), NEW m, m = chain[at + 1],
         NEW a \in Seq(Instruction), NEW x \in Seq(Instruction), IsJoined(a, code, x),
         LibsAre(a, data, loadedLibs \cup ToSet(Dynamic(m)))
  PROVE  ThereFor(m, a, Len(a), data, chain, table, exporters)
<1>1. chain \in Seq(Everything) /\ at \in Nat /\ Len(chain) \in Nat /\ DOMAIN chain = 1 .. Len(chain)
  <2>1. chain \in Seq(Everything) /\ at \in 0 .. Len(chain)
    BY DEF ListsOK
  <2> QED
    BY <2>1, ItemsFacts
<1>2. at + 1 \in 1 .. Len(chain) /\ m \in Needed /\ m \in Modules
  <2>1. at + 1 \in 1 .. Len(chain)
    BY <1>1
  <2> QED
    BY <1>1, <2>1, NeededFacts, ItemsFacts DEF OrderInv
<1>3. Modules = DOMAIN table
  BY DEF Modules
<1>4. ExportsStored(a, data, chain, at, exporters)
  BY ExportsStill DEF EnterInv, EnteredUpTo
<1> SUFFICES ASSUME NEW i \in table[m]
             PROVE  IF i.name \in DOMAIN table THEN i.name \in exporters => StoredBy(a, Len(a), data, chain, i.name)
                    ELSE LoadedBy(a, Len(a), data, i.name)
  BY DEF ThereFor
<1>5. CASE i.name \in DOMAIN table
  <2>1. i.name \in Succ(m)
    BY <1>3, <1>5 DEF Succ, NamesOf
  <2>2. i.name \in After(chain[at + 1], AllEdges)
    BY <1>2, <2>1, NeededFacts
  <2>3. PICK p : p = at + 1
    OBVIOUS
  <2>4. p \in DOMAIN chain /\ i.name \in After(chain[p], AllEdges)
    BY <1>1, <1>2, <2>2, <2>3
  <2>5. PICK q \in 1 .. (p - 1) : chain[q] = i.name
    BY <2>4 DEF OrderInv, Behind
  <2>6. q \in 1 .. at
    BY <1>1, <2>3
  <2> QED
    BY <1>4, <1>5, <2>5, <2>6 DEF ExportsStored
<1>6. CASE i.name \notin DOMAIN table
  <2>1. Settled(i, Modules, Available) /\ i \in Import
    BY <1>2, <1>3, NeededFacts DEF GraphAt, ListsOK, TableOK
  <2>2. i.kind = "sys" /\ ~i.static /\ i.name \in Everything
    BY <1>3, <1>6, <2>1 DEF Settled, Import
  <2>3. i.name \in loadedLibs \cup ToSet(Dynamic(m))
    <3>1. CASE i.name \in loadedLibs
      BY <3>1
    <3>2. CASE i.name \notin loadedLibs
      <4>1. PICK S : S = {e.name : e \in {j \in table[m] : j.kind = "sys" /\ ~j.static /\ Fresh(j.name)}}
        OBVIOUS
      <4>2. i.name \in S
        BY <2>2, <3>2, <4>1 DEF Fresh
      <4>3. ToSet(Dynamic(m)) = S \cap Everything
        BY <4>1, InOrderFacts DEF Dynamic
      <4> QED
        BY <2>2, <4>2, <4>3
    <3> QED
      BY <3>1, <3>2
  <2> QED
    BY <1>6, <2>3 DEF LibsAre
<1> QED
  BY <1>5, <1>6

LEMMA DynamicFacts ==
  ASSUME ProgramOK, ListsOK, NeededInv, NEW m \in Needed
  PROVE  /\ Dynamic(m) \in Seq(Everything) /\ Distinct(Dynamic(m)) /\ ToSet(Dynamic(m)) \cap loadedLibs = {}
         /\ ToSet(Dynamic(m)) \subseteq NamesOf(imports[m]) /\ ToSet(Dynamic(m)) \subseteq Everything
         /\ \A n \in ToSet(Dynamic(m)) \cap Modules : Shared(n)
<1>1. PICK S : S = {e.name : e \in {j \in table[m] : j.kind = "sys" /\ ~j.static /\ Fresh(j.name)}}
  OBVIOUS
<1>2. Dynamic(m) = InOrder(S)
  BY <1>1 DEF Dynamic
<1>3. Dynamic(m) \in Seq(Everything) /\ Distinct(Dynamic(m)) /\ ToSet(Dynamic(m)) = S \cap Everything
  BY <1>2, InOrderFacts
<1>4. S \cap loadedLibs = {}
  BY <1>1 DEF Fresh
<1>5. GraphAt(m)
  BY NeededFacts
<1>6. S \subseteq NamesOf(imports[m])
  BY <1>1, <1>5 DEF GraphAt
<1>7. \A n \in S \cap Modules : Shared(n)
  BY <1>1, <1>5 DEF GraphAt, Left
<1> QED
  BY <1>3, <1>4, <1>6, <1>7

LEMMA EnterKeeps ==
  ASSUME ProgramOK, ListsOK, NeededInv, OrderInv, MergeInv(Len(chain)), EnterInv(at), LibsShared, Enter
  PROVE  EnterInv(at)' /\ LibsShared' /\ at' \in 0 .. Len(chain) /\ loadedLibs' \subseteq Everything
         /\ UNCHANGED <<depVars, exporters, data, functions, top>>
<1>1. PICK m, x, t : m = chain[at + 1] /\ x = [k \in DOMAIN Dynamic(m) |-> [op |-> "dynlib", id |-> DataItem(Dynamic(m)[k])]]
                     /\ t = top[m]
  OBVIOUS
<1>2. PICK i, z : i = [op |-> "call", id |-> t] /\ z = (IF m \in exporters THEN <<[op |-> "set", id |-> DataItem(m)]>> ELSE <<>>)
  OBVIOUS
<1>3. /\ at < Len(chain) /\ Named(m) /\ code' = ((code \o x) \o <<i>>) \o z
      /\ loadedLibs' = loadedLibs \cup ToSet(Dynamic(m)) /\ at' = at + 1
      /\ UNCHANGED <<depVars, exporters, data, functions, top>>
  BY <1>1, <1>2 DEF Enter
<1>4. chain \in Seq(Everything) /\ at \in Nat /\ Len(chain) \in Nat /\ DOMAIN chain = 1 .. Len(chain)
  <2>1. chain \in Seq(Everything) /\ at \in 0 .. Len(chain)
    BY DEF ListsOK
  <2> QED
    BY <2>1, ItemsFacts
<1>5. at + 1 \in 1 .. Len(chain)
  BY <1>3, <1>4
<1>6. m \in Needed /\ m \in Modules /\ m \in Everything
  <2>1. m \in ToSet(chain)
    BY <1>1, <1>4, <1>5, ItemsFacts
  <2> QED
    BY <2>1, NeededFacts DEF OrderInv
<1>7. PICK a, b, ns : a = code \o x /\ b = a \o <<i>> /\ ns = Dynamic(m)
  OBVIOUS
<1>8. /\ data \in Seq(Texts) /\ NamesOf(imports[m]) \subseteq ToSet(data)
      /\ m \in DOMAIN top /\ \E p \in 1 .. Len(chain) : chain[p] = m /\ t = LastOf(chain, p)
  <2>1. data \in Seq(Texts) /\ ToSet(StringsIn(imports, m)) \subseteq ToSet(data)
    BY <1>1, <1>5 DEF MergeInv, MergedUpTo
  <2>2. NamesOf(imports[m]) \subseteq ToSet(StringsIn(imports, m))
    BY <1>6, ImportsNamed, StringsFacts
  <2>3. m \in DOMAIN top
    BY <1>1, <1>5 DEF MergeInv, MergedUpTo
  <2>4. \E p \in 1 .. Len(chain) : chain[p] = m /\ top[m] = LastOf(chain, p)
    BY <2>3 DEF MergeInv, MergedUpTo
  <2> QED
    BY <1>1, <2>1, <2>2, <2>3, <2>4
<1>9. t \in Nat
  <2>1. PICK p \in 1 .. Len(chain) : chain[p] = m /\ t = LastOf(chain, p)
    BY <1>8
  <2>2. p \in 1 .. Len(chain) + 1
    BY <1>4
  <2>3. PICK u, v : u = BaseIn(chain, p) /\ v = FunctionCount[m]
    OBVIOUS
  <2>4. u \in Nat /\ v \in Nat /\ v > 0
    BY <1>4, <1>6, <2>2, <2>3, BaseFacts, CountFacts
  <2>5. t = u + v - 1
    BY <2>1, <2>3 DEF LastOf
  <2> QED
    BY <2>4, <2>5
<1>10. /\ ns \in Seq(Everything) /\ Distinct(ns) /\ ToSet(ns) \cap loadedLibs = {}
       /\ ToSet(ns) \subseteq ToSet(data) /\ ToSet(ns) \subseteq Everything
  BY <1>6, <1>7, <1>8, DynamicFacts
<1>11. x = [j \in DOMAIN ns |-> [op |-> "dynlib", id |-> DataItemIn(data, ns[j])]]
  BY <1>1, <1>7, DataItemIs
<1>12. IsJoined(a, code, x) /\ IsJoined(b, a, <<i>>) /\ IsJoined(code', b, z)
  BY <1>3, <1>7 DEF IsJoined
<1>13. EnteredUpTo(code, loadedLibs, at, data, chain, table, exporters)
  BY DEF EnterInv
<1>14. EnteredUpTo(a, loadedLibs', at, data, chain, table, exporters)
  <2>1. PICK libs : libs = loadedLibs \cup ToSet(ns)
    OBVIOUS
  <2>2. EnteredUpTo(a, libs, at, data, chain, table, exporters)
    BY <1>8, <1>10, <1>11, <1>12, <1>13, <2>1, EnterLibs
  <2> QED
    BY <1>3, <1>7, <2>1, <2>2
<1>15. x \in Seq(Instruction)
  <2>1. DOMAIN ns = 1 .. Len(ns) /\ Len(ns) \in Nat
    BY <1>10, ItemsFacts
  <2>2. ASSUME NEW j \in 1 .. Len(ns) PROVE x[j] \in Instruction
    <3>1. ns[j] \in ToSet(data)
      BY <1>10, ItemsFacts
    <3>2. DataItemIn(data, ns[j]) \in Nat
      BY <1>8, <3>1, DataItemFacts
    <3> QED
      BY <1>11, <2>1, <3>2 DEF Instruction
  <2>3. x = [j \in 1 .. Len(ns) |-> x[j]]
    BY <1>11, <2>1
  <2>4. x \in [1 .. Len(ns) -> Instruction]
    BY <2>2, <2>3
  <2> QED
    BY <2>1, <2>4, ItemsMakeSeq
<1>16. ThereFor(m, a, Len(a), data, chain, table, exporters)
  <2>1. LibsAre(a, data, loadedLibs \cup ToSet(Dynamic(m))) /\ a \in Seq(Instruction)
    BY <1>3, <1>14 DEF EnteredUpTo
  <2> QED
    BY <1>1, <1>3, <1>12, <1>15, <2>1, ImportsSettled
<1>17. i \in Instruction /\ i.op = "call" /\ i.id = t
  BY <1>2, <1>9 DEF Instruction
<1>18. CallOf(i, chain, m)
  BY <1>8, <1>17 DEF CallOf
<1>19. /\ EnteredUpTo(b, loadedLibs', at, data, chain, table, exporters)
       /\ Len(b) = Len(a) + 1 /\ b[Len(b)] = i
  <2>1. PICK libs : libs = loadedLibs'
    OBVIOUS
  <2>2. EnteredUpTo(a, libs, at, data, chain, table, exporters)
    BY <1>14, <2>1
  <2>3. EnteredUpTo(b, libs, at, data, chain, table, exporters) /\ Len(b) = Len(a) + 1 /\ b[Len(b)] = i
    BY <1>12, <1>16, <1>17, <1>18, <2>2, EnterCall
  <2> QED
    BY <2>1, <2>3
<1>20. /\ EnteredUpTo(code', loadedLibs', at, data, chain, table, exporters)
       /\ m \in exporters => StoredBy(code', Len(code'), data, chain, m)
  <2>1. b \in Seq(Instruction)
    BY <1>19 DEF EnteredUpTo
  <2>2. CASE m \notin exporters
    <3>1. z = <<>>
      BY <1>2, <2>2
    <3>2. code' = b
      BY <1>12, <2>1, <3>1 DEF IsJoined
    <3> QED
      BY <1>19, <2>2, <3>2
  <2>3. CASE m \in exporters
    <3>1. PICK e, libs, k : e = [op |-> "set", id |-> DataItem(m)] /\ libs = loadedLibs' /\ k = code'
      OBVIOUS
    <3>2. m \in ToSet(data)
      BY <1>3, <2>3 DEF Named
    <3>3. DataItem(m) \in Nat /\ data[DataItem(m) + 1] = m
      BY <1>8, <3>2, DataItemFacts, DataItemIs
    <3>4. e \in Instruction /\ SetTo(e, data, m)
      <4>1. e.op = "set" /\ e.id = DataItem(m)
        BY <3>1
      <4>2. e \in Instruction
        BY <3>1, <3>3 DEF Instruction
      <4> QED
        BY <3>3, <4>1, <4>2 DEF SetTo
    <3>5. IsJoined(k, b, <<e>>)
      BY <1>2, <1>12, <2>3, <3>1
    <3>6. Len(b) > 0 /\ CallOf(b[Len(b)], chain, m)
      <4>1. a \in Seq(Instruction) /\ Len(a) \in Nat
        BY <1>14, LenProperties DEF EnteredUpTo
      <4> QED
        BY <1>18, <1>19, <4>1
    <3>7. EnteredUpTo(b, libs, at, data, chain, table, exporters)
      BY <1>19, <3>1
    <3>8. EnteredUpTo(k, libs, at, data, chain, table, exporters) /\ StoredBy(k, Len(k), data, chain, m)
      BY <3>4, <3>5, <3>6, <3>7, EnterSet
    <3> QED
      BY <3>1, <3>8
  <2> QED
    BY <2>2, <2>3
<1>21. EnteredUpTo(code', loadedLibs', at + 1, data, chain, table, exporters)
  <2>1. PICK k, libs : k = code' /\ libs = loadedLibs'
    OBVIOUS
  <2>2. EnteredUpTo(k, libs, at, data, chain, table, exporters)
    BY <1>20, <2>1
  <2>3. chain[at + 1] \in exporters => StoredBy(k, Len(k), data, chain, chain[at + 1])
    BY <1>1, <1>20, <2>1
  <2>4. EnteredUpTo(k, libs, at + 1, data, chain, table, exporters)
    BY <1>4, <2>2, <2>3, EnterNext
  <2> QED
    BY <2>1, <2>4
<1>22. EnterInv(at)'
  <2>1. chain' = chain /\ table' = table /\ data' = data /\ exporters' = exporters
    BY <1>3 DEF depVars
  <2> QED
    BY <1>3, <1>21, <2>1 DEF EnterInv
<1>23. loadedLibs' \subseteq Everything
  BY <1>3, <1>7, <1>10 DEF ListsOK
<1>24. LibsShared'
  <2>1. UNCHANGED <<users, imports, stdlib, loaded, table, entry>>
    BY <1>3 DEF depVars
  <2>2. Modules' = Modules /\ \A n : Shared(n)' = Shared(n)
    BY <2>1, GraphKept
  <2>3. \A n \in ToSet(Dynamic(m)) \cap Modules : Shared(n)
    BY <1>6, DynamicFacts
  <2> QED
    BY <1>3, <2>2, <2>3 DEF LibsShared
<1> QED
  BY <1>3, <1>4, <1>5, <1>22, <1>23, <1>24

(***************************************************************************)
(* What the invariants say about the program.                              *)
(***************************************************************************)
LEMMA CalleeIs ==
  ASSUME ListsOK, NeededInv, OrderInv, NEW c, NEW m, CallOf(c, chain, m)
  PROVE  CalleeOf(c) = m
<1>1. chain \in Seq(Everything) /\ DOMAIN chain = 1 .. Len(chain)
  <2>1. chain \in Seq(Everything)
    BY DEF ListsOK
  <2> QED
    BY <2>1, ItemsFacts
<1>2. PICK p \in 1 .. Len(chain) : chain[p] = m /\ c.id = LastOf(chain, p)
  BY DEF CallOf
<1>3. m \in Modules
  BY <1>1, <1>2, ItemsFacts DEF OrderInv, NeededInv
<1>4. \A q \in 1 .. Len(chain) : LastOf(chain, q) = BaseOf(q) + FunctionCount[chain[q]] - 1
  BY BaseIs DEF LastOf
<1>5. \E q \in DOMAIN chain : chain[q] = m /\ BaseOf(q) + FunctionCount[m] - 1 = c.id
  BY <1>1, <1>2, <1>4
<1>6. ASSUME NEW n \in Modules, NEW q \in DOMAIN chain, chain[q] = n, BaseOf(q) + FunctionCount[n] - 1 = c.id
      PROVE  n = m
  <2>1. LastOf(chain, q) = LastOf(chain, p)
    BY <1>1, <1>2, <1>4, <1>6
  <2>2. q = p
    BY <1>1, <2>1, LastOfOne
  <2> QED
    BY <1>2, <1>6, <2>2
<1>7. PICK n : n = CalleeOf(c)
  OBVIOUS
<1>8. n \in Modules /\ \E q \in DOMAIN chain : chain[q] = n /\ BaseOf(q) + FunctionCount[n] - 1 = c.id
  BY <1>3, <1>5, <1>7 DEF CalleeOf
<1> QED
  BY <1>6, <1>7, <1>8

LEMMA EnterMeant ==
  ASSUME ListsOK, NeededInv, OrderInv, LibsShared, NEW n, EnterInv(n)
  PROVE  ImportsThere /\ DynlibOnce
<1>1. code \in Seq(Instruction) /\ CallsFind(code, data, chain, table, exporters) /\ LibsAre(code, data, loadedLibs)
  BY DEF EnterInv, EnteredUpTo
<1>2. DOMAIN code = 1 .. Len(code) /\ Len(code) \in Nat
  BY <1>1, ItemsFacts
<1>3. DynlibOnce
  BY <1>1, <1>2 DEF DynlibOnce, LibsAre
<1>4. ASSUME NEW x \in Modules, NEW r \in DOMAIN code, LoadedAt(x, r)
      PROVE  Shared(x)
  BY <1>1, <1>2, <1>4 DEF LoadedAt, LibsAre, LibsShared
<1>5. ASSUME NEW p \in DOMAIN code, code[p].op = "call", NEW i \in table[CalleeOf(code[p])]
      PROVE  IF i.name \in Modules
             THEN i.name \in exporters =>
                    \E q \in 2..(p - 1) : /\ StoredAt(i.name, q)
                                          /\ Shared(i.name) \/ \A r \in (q + 1)..(p - 1) : ~LoadedAt(i.name, r)
             ELSE \E q \in 1..(p - 1) : LoadedAt(i.name, q)
  <2>1. PICK m : CallOf(code[p], chain, m) /\ ThereFor(m, code, p - 1, data, chain, table, exporters)
    BY <1>1, <1>2, <1>5 DEF CallsFind
  <2>2. i \in table[m]
    BY <1>5, <2>1, CalleeIs
  <2>3. IF i.name \in Modules THEN i.name \in exporters => StoredBy(code, p - 1, data, chain, i.name)
        ELSE LoadedBy(code, p - 1, data, i.name)
    BY <2>1, <2>2 DEF ThereFor, Modules
  <2>4. ASSUME StoredBy(code, p - 1, data, chain, i.name), i.name \in Modules
        PROVE  \E q \in 2..(p - 1) : /\ StoredAt(i.name, q)
                                     /\ Shared(i.name) \/ \A r \in (q + 1)..(p - 1) : ~LoadedAt(i.name, r)
    <3>1. PICK q \in 2 .. (p - 1) : SetTo(code[q], data, i.name) /\ CallOf(code[q - 1], chain, i.name)
      BY <2>4 DEF StoredBy
    <3>2. CalleeOf(code[q - 1]) = i.name /\ code[q - 1].op = "call"
      BY <3>1, CalleeIs DEF CallOf
    <3>3. StoredAt(i.name, q)
      BY <3>1, <3>2 DEF SetTo, StoredAt
    <3>4. \A r \in (q + 1)..(p - 1) : r \in DOMAIN code
      BY <1>2
    <3>5. Shared(i.name) \/ \A r \in (q + 1)..(p - 1) : ~LoadedAt(i.name, r)
      BY <1>4, <2>4, <3>4
    <3> QED
      BY <3>3, <3>5
  <2>5. LoadedBy(code, p - 1, data, i.name) => \E q \in 1..(p - 1) : LoadedAt(i.name, q)
    BY DEF LoadedBy, LibAt, LoadedAt
  <2> QED
    BY <2>3, <2>4, <2>5
<1>6. ImportsThere
  BY <1>5 DEF ImportsThere
<1> QED
  BY <1>3, <1>6

LEMMA MergeMeant ==
  ASSUME ListsOK, MergeInv(Len(chain))
  PROVE  MergedMeant
<1>1. chain \in Seq(Everything) /\ DOMAIN chain = 1 .. Len(chain)
  <2>1. chain \in Seq(Everything)
    BY DEF ListsOK
  <2> QED
    BY <2>1, ItemsFacts
<1>2. ASSUME NEW p \in DOMAIN chain, NEW f \in 1 .. FunctionCount[chain[p]], NEW k \in DOMAIN RefsOf(chain[p], f)
      PROVE  (IF functions[BaseOf(p) + f][k].to = "string" THEN data[functions[BaseOf(p) + f][k].id + 1]
              ELSE <<chain[p], functions[BaseOf(p) + f][k].id - BaseOf(p)>>) = MeantHere(chain[p], RefsOf(chain[p], f)[k])
  <2> DEFINE m == chain[p]
             ref == functions[BaseOf(p) + f][k]
  <2>1. PICK s, b : s = StringsIn(imports, m) /\ b = BaseIn(chain, p)
    OBVIOUS
  <2>2. KeepsAll(functions[b + f], s, m, f, data, b)
    BY <1>1, <1>2, <2>1 DEF MergeInv, MergedUpTo
  <2>3. b = BaseOf(p) /\ RefsOf(m, f) = RefsIn(s, f) /\ \A e : MeantHere(m, e) = MeantIn(s, m, e)
    BY <2>1, BaseIs, RefsAre, StringsAre
  <2>4. Keeps(functions[b + f][k], s, m, RefsIn(s, f)[k], data, b)
    BY <1>2, <2>2, <2>3 DEF KeepsAll
  <2> QED
    BY <2>3, <2>4 DEF Keeps
<1> QED
  BY <1>2, Zenon DEF MergedMeant

(***************************************************************************)
(* The invariant of the linker: a state for each of its phases.            *)
(***************************************************************************)
Unmerged == at = 0 /\ data = <<>> /\ functions = <<>> /\ top = <<>> /\ code = <<>> /\ loadedLibs = {}
NoPathCircle == \A m \in Modules : ~OnCircle(m, PathEdges)

WalkState == phase = "walk" /\ reason = "" /\ Unmerged /\ WalkInv
CycleState == phase = "cycle" /\ reason = "" /\ Unmerged /\ chain = <<>> /\ GraphInv /\ CycleInv
WipeState ==
  /\ phase = "wipe" /\ reason = "" /\ Unmerged /\ chain = <<>> /\ GraphInv /\ WipeInv
  /\ marked = {} => NoPathCircle
ChainState == phase = "chain" /\ reason = "" /\ Unmerged /\ NeededInv /\ ChainInv
MergeState ==
  /\ phase = "merge" /\ reason = "" /\ code = <<>> /\ loadedLibs = {}
  /\ NeededInv /\ OrderInv /\ MergeInv(at)
EnterState ==
  /\ phase \in {"enter", "linked", "crashed"} /\ reason = ""
  /\ NeededInv /\ OrderInv /\ MergeInv(Len(chain)) /\ EnterInv(at) /\ LibsShared
CrashState == phase = "crashed" /\ reason = "" /\ Unmerged
FailState ==
  /\ phase = "failed" /\ reason \in {"missing", "library", "entry", "cycle"} /\ Unmerged
  /\ reason = "cycle" => OnCircle(Head(starts), PathEdges)

LinkInv ==
  /\ ProgramOK /\ ListsOK
  /\ WalkState \/ CycleState \/ WipeState \/ ChainState \/ MergeState \/ EnterState \/ CrashState \/ FailState

LEMMA NoItems ==
  ASSUME NEW T
  PROVE  <<>> \in Seq(T) /\ ToSet(<<>>) = {} /\ Distinct(<<>>) /\ Len(<<>>) = 0
<1>1. <<>> \in Seq(T) /\ Len(<<>>) = 0
  OBVIOUS
<1> QED
  BY <1>1, ItemsFacts DEF Distinct

(* What the linker is given is a program.                                  *)
LEMMA GivenProgram ==
  ASSUME Init
  PROVE  ProgramOK
<1>1. PICK given \in Programs : users = given.users /\ imports = given.imports /\ stdlib = given.stdlib
  BY DEF Init
<1>2. Linkable(given)
  BY ProgramsAssumption
<1>3. users \in Seq(Everything) /\ IsInjective(users) /\ DOMAIN users = 1 .. Len(users)
  <2>1. users \in Seq(Everything) /\ IsInjective(users)
    BY <1>1, <1>2 DEF Linkable, Everything
  <2> QED
    BY <2>1, ItemsFacts
<1>4. Distinct(users)
  BY <1>3 DEF IsInjective, Distinct
<1> QED
  BY <1>1, <1>2, <1>3, <1>4 DEF Linkable, ProgramOK, Everything

(* It begins with the walk.                                                *)
LEMMA FirstPending ==
  ASSUME ProgramOK, pending = (IF stdlib THEN <<STD>> ELSE <<>>) \o users
  PROVE  pending \in Seq(Everything) /\ Distinct(pending) /\ ToSet(pending) = Given
<1>1. PICK u : u = IF stdlib THEN <<STD>> ELSE <<>>
  OBVIOUS
<1>2. /\ u \in Seq(Everything) /\ Distinct(u) /\ ToSet(u) = IF stdlib THEN {STD} ELSE {}
  <2>1. CASE stdlib
    <3>1. STD \in Everything
      BY <2>1 DEF ProgramOK
    <3>2. u = <<STD>>
      BY <1>1, <2>1
    <3> QED
      BY <2>1, <3>1, <3>2, OneItem
  <2>2. CASE ~stdlib
    <3>1. u = <<>>
      BY <1>1, <2>2
    <3> QED
      BY <2>2, <3>1, NoItems
  <2> QED
    BY <2>1, <2>2
<1>3. users \in Seq(Everything) /\ Distinct(users) /\ ToSet(u) \cap ToSet(users) = {}
  BY <1>2 DEF ProgramOK
<1>4. pending = u \o users
  BY <1>1
<1>5. /\ pending \in Seq(Everything) /\ ToSet(pending) = ToSet(u) \cup ToSet(users)
      /\ Distinct(pending)
  BY <1>2, <1>3, <1>4, ConcatItems
<1> QED
  BY <1>2, <1>5 DEF Given

LEMMA LinkInit ==
  ASSUME Init
  PROVE  LinkInv
<1>1. ProgramOK
  BY GivenProgram
<1>2. /\ phase = "walk" /\ reason = "" /\ loaded = {} /\ table = <<>> /\ entry = "" /\ starts = <<>> /\ marked = {}
      /\ stack = <<>> /\ chain = <<>> /\ Unmerged
      /\ pending = (IF stdlib THEN <<STD>> ELSE <<>>) \o users
  BY DEF Init, DepInit, Unmerged
<1>3. pending \in Seq(Everything) /\ Distinct(pending) /\ ToSet(pending) = Given
  BY <1>1, <1>2, FirstPending
<1>4. Modules = {}
  <2>1. DOMAIN <<>> = {}
    OBVIOUS
  <2>2. table = <<>>
    BY <1>2
  <2> QED
    BY <2>1, <2>2 DEF Modules
<1>5. ListsOK
  <2>1. starts \in Seq(Everything) /\ stack \in Seq(Everything) /\ chain \in Seq(Everything) /\ Len(chain) = 0
    BY <1>2, NoItems
  <2>2. TableOK(table)
    BY <1>4 DEF TableOK, Modules
  <2>3. at = 0 /\ loadedLibs = {}
    BY <1>2 DEF Unmerged
  <2>4. at \in 0 .. Len(chain)
    BY <2>1, <2>3
  <2> QED
    BY <1>2, <1>3, <2>1, <2>2, <2>3, <2>4 DEF ListsOK
<1>6. WalkInv
  <2>1. Met = Given
    BY <1>2, <1>3 DEF Met
  <2>2. Given \subseteq ReachedFrom(Given, SourceEdges)
    BY ReachHas
  <2> QED
    BY <1>2, <1>4, <2>1, <2>2 DEF WalkInv
<1> QED
  BY <1>1, <1>2, <1>5, <1>6 DEF LinkInv, WalkState

(***************************************************************************)
(* A failure ends the linking.                                             *)
(***************************************************************************)
LaterKept == UNCHANGED <<exporters, data, functions, top, at, code, loadedLibs>>

LEMMA UnmergedKept ==
  ASSUME Unmerged, LaterKept
  PROVE  Unmerged' /\ at' = at /\ loadedLibs' = loadedLibs /\ at = 0
BY DEF Unmerged, LaterKept

LEMMA FailKeeps ==
  ASSUME ProgramOK, ListsOK, Unmerged, LaterKept, NEW why \in {"missing", "library", "entry", "cycle"}, Fail(why),
         why = "cycle" => OnCircle(Head(starts), PathEdges)
  PROVE  LinkInv'
<1>1. /\ phase' = "failed" /\ reason' = why
      /\ UNCHANGED <<users, imports, stdlib, pending, loaded, table, entry, starts, marked, stack, chain>>
  BY DEF Fail
<1>2. Unmerged' /\ at' = at /\ loadedLibs' = loadedLibs
  BY UnmergedKept
<1>3. ProgramOK' /\ PathEdges' = PathEdges
  BY <1>1, GraphKept
<1>4. ListsOK'
  BY <1>1, <1>2 DEF ListsOK
<1>5. FailState'
  BY <1>1, <1>2, <1>3 DEF FailState
<1> QED
  BY <1>3, <1>4, <1>5 DEF LinkInv

(***************************************************************************)
(* The steps, phase by phase.                                              *)
(***************************************************************************)
LEMMA WalkStep ==
  ASSUME ProgramOK, ListsOK, WalkState, Next
  PROVE  LinkInv'
<1>1. phase = "walk" /\ reason = "" /\ Unmerged /\ WalkInv /\ chain = <<>>
  BY DEF WalkState, WalkInv
<1>2. LaterKept /\ (WalkItem \/ WalkMissing \/ WalkBroken \/ NoEntry \/ WalkDone)
  BY <1>1 DEF Next, DepNext, LaterKept, BeginStart, LookFromHere, CircleFound, NoCircle, Mark, Wipe, WipeCrashes, Visit, Merge, BeginMerge,
              BeginEntry, Enter, EnterUnnamed, EnterDone
<1>3. Unmerged' /\ at' = at /\ loadedLibs' = loadedLibs
  BY <1>1, <1>2, UnmergedKept
<1>4. CASE WalkItem
  <2>1. UNCHANGED <<users, imports, stdlib, phase, reason>>
    BY <1>4 DEF WalkItem
  <2>2. ListsOK' /\ WalkInv'
    BY <1>1, <1>3, <1>4, WalkItemKeeps
  <2>3. ProgramOK'
    BY <2>1, SameSources
  <2> QED
    BY <1>1, <1>3, <2>1, <2>2, <2>3 DEF LinkInv, WalkState
<1>5. CASE WalkMissing
  BY <1>1, <1>2, <1>5, FailKeeps DEF WalkMissing
<1>6. CASE WalkBroken
  BY <1>1, <1>2, <1>6, FailKeeps DEF WalkBroken
<1>7. CASE NoEntry
  BY <1>1, <1>2, <1>7, FailKeeps DEF NoEntry
<1>8. CASE WalkDone
  <2>1. phase' = "cycle" /\ UNCHANGED <<users, imports, stdlib, reason, chain>>
    BY <1>8 DEF WalkDone
  <2>2. ListsOK' /\ GraphInv' /\ CycleInv'
    BY <1>1, <1>3, <1>8, WalkDoneKeeps
  <2>3. ProgramOK'
    BY <2>1, SameSources
  <2> QED
    BY <1>1, <1>3, <2>1, <2>2, <2>3 DEF LinkInv, CycleState
<1> QED
  BY <1>2, <1>4, <1>5, <1>6, <1>7, <1>8

LEMMA CycleStep ==
  ASSUME ProgramOK, ListsOK, CycleState, Next
  PROVE  LinkInv'
<1>1. phase = "cycle" /\ reason = "" /\ Unmerged /\ chain = <<>> /\ GraphInv /\ CycleInv
  BY DEF CycleState
<1>2. LaterKept /\ (BeginStart \/ LookFromHere \/ CircleFound \/ NoCircle)
  BY <1>1 DEF Next, DepNext, LaterKept, WalkItem, WalkMissing, WalkBroken, NoEntry, WalkDone, Mark, Wipe, WipeCrashes, Visit, Merge, BeginMerge,
              BeginEntry, Enter, EnterUnnamed, EnterDone
<1>3. Unmerged' /\ at' = at /\ loadedLibs' = loadedLibs
  BY <1>1, <1>2, UnmergedKept
<1>4. CASE BeginStart
  <2>1. UNCHANGED <<users, imports, stdlib, phase, reason, chain>>
    BY <1>4 DEF BeginStart
  <2>2. ListsOK' /\ GraphInv' /\ CycleInv'
    BY <1>1, <1>3, <1>4, BeginStartKeeps
  <2>3. ProgramOK'
    BY <2>1, SameSources
  <2> QED
    BY <1>1, <1>3, <2>1, <2>2, <2>3 DEF LinkInv, CycleState
<1>5. CASE LookFromHere
  <2>1. UNCHANGED <<users, imports, stdlib, phase, reason, chain>>
    BY <1>5 DEF LookFromHere
  <2>2. ListsOK' /\ GraphInv' /\ CycleInv'
    BY <1>1, <1>3, <1>5, LookFromHereKeeps
  <2>3. ProgramOK'
    BY <2>1, SameSources
  <2> QED
    BY <1>1, <1>3, <2>1, <2>2, <2>3 DEF LinkInv, CycleState
<1>6. CASE CircleFound
  <2>1. OnCircle(Head(starts), PathEdges)
    BY <1>1, <1>6, CircleFoundFacts
  <2> QED
    BY <1>1, <1>2, <1>6, <2>1, FailKeeps DEF CircleFound
<1>7. CASE NoCircle
  <2>1. phase' = "wipe" /\ UNCHANGED <<users, imports, stdlib, reason, chain>>
    BY <1>7 DEF NoCircle
  <2>2. ListsOK' /\ GraphInv' /\ WipeInv' /\ NoPathCircle'
    BY <1>1, <1>3, <1>7, NoCircleKeeps DEF NoPathCircle
  <2>3. ProgramOK'
    BY <2>1, SameSources
  <2> QED
    BY <1>1, <1>3, <2>1, <2>2, <2>3 DEF LinkInv, WipeState
<1> QED
  BY <1>2, <1>4, <1>5, <1>6, <1>7

LEMMA WipeStep ==
  ASSUME ProgramOK, ListsOK, WipeState, Next
  PROVE  LinkInv'
<1>1. phase = "wipe" /\ reason = "" /\ Unmerged /\ chain = <<>> /\ GraphInv /\ WipeInv
  BY DEF WipeState
<1>2. LaterKept /\ (Mark \/ Wipe \/ WipeCrashes)
  BY <1>1 DEF Next, DepNext, LaterKept, WalkItem, WalkMissing, WalkBroken, NoEntry, WalkDone, BeginStart, LookFromHere, CircleFound,
              NoCircle, Visit, Merge, BeginMerge, BeginEntry, Enter, EnterUnnamed, EnterDone
<1>3. Unmerged' /\ at' = at /\ loadedLibs' = loadedLibs
  BY <1>1, <1>2, UnmergedKept
<1>4. CASE Mark
  <2>1. UNCHANGED <<users, imports, stdlib, phase, reason, chain>>
    BY <1>4 DEF Mark
  <2>2. ListsOK' /\ GraphInv' /\ WipeInv' /\ marked' # {}
    BY <1>1, <1>3, <1>4, MarkKeeps
  <2>3. ProgramOK'
    BY <2>1, SameSources
  <2> QED
    BY <1>1, <1>3, <2>1, <2>2, <2>3 DEF LinkInv, WipeState
<1>5. CASE Wipe
  <2>1. phase' = "chain" /\ UNCHANGED <<users, imports, stdlib, reason>>
    BY <1>5 DEF Wipe
  <2>2. ListsOK' /\ NeededInv' /\ ChainInv'
    BY <1>1, <1>3, <1>5, WipeKeeps
  <2>3. ProgramOK'
    BY <2>1, SameSources
  <2> QED
    BY <1>1, <1>3, <2>1, <2>2, <2>3 DEF LinkInv, ChainState
<1>6. CASE WipeCrashes
  <2>1. /\ phase' = "crashed"
        /\ UNCHANGED <<users, imports, stdlib, reason, pending, loaded, table, entry, starts, marked, stack, chain>>
    BY <1>6 DEF WipeCrashes
  <2>2. ProgramOK'
    BY <2>1, SameSources
  <2>3. ListsOK'
    BY <1>3, <2>1 DEF ListsOK
  <2> QED
    BY <1>1, <1>3, <2>1, <2>2, <2>3 DEF LinkInv, CrashState
<1> QED
  BY <1>2, <1>4, <1>5, <1>6

LEMMA ChainStep ==
  ASSUME ProgramOK, ListsOK, ChainState, Next
  PROVE  LinkInv'
<1>1. phase = "chain" /\ reason = "" /\ Unmerged /\ NeededInv /\ ChainInv
  BY DEF ChainState
<1>2. (LaterKept /\ Visit) \/ BeginMerge
  BY <1>1 DEF Next, DepNext, LaterKept, WalkItem, WalkMissing, WalkBroken, NoEntry, WalkDone, BeginStart, LookFromHere, CircleFound,
              NoCircle, Mark, Wipe, WipeCrashes, Merge, BeginEntry, Enter, EnterUnnamed, EnterDone
<1>3. CASE LaterKept /\ Visit
  <2>1. UNCHANGED <<users, imports, stdlib, phase, reason>>
    BY <1>3 DEF Visit
  <2>2. Unmerged' /\ at' = at /\ loadedLibs' = loadedLibs /\ at = 0
    BY <1>1, <1>3, UnmergedKept
  <2>3. ListsOK' /\ NeededInv' /\ ChainInv'
    BY <1>1, <1>3, <2>2, VisitKeeps
  <2>4. ProgramOK'
    BY <2>1, SameSources
  <2> QED
    BY <1>1, <2>1, <2>2, <2>3, <2>4 DEF LinkInv, ChainState
<1>4. CASE BeginMerge
  <2>1. /\ stack = <<>> /\ phase' = "merge" /\ LaterKept
        /\ UNCHANGED <<users, imports, stdlib, reason, pending, loaded, table, entry, starts, marked, stack, chain>>
    BY <1>4 DEF BeginMerge, LaterKept
  <2>2. Unmerged' /\ at' = at /\ loadedLibs' = loadedLibs /\ at = 0
    BY <1>1, <2>1, UnmergedKept
  <2>3. ProgramOK' /\ NeededInv' /\ ListsOK'
    BY <1>1, <2>1, <2>2, GraphKept DEF ListsOK
  <2>4. OrderInv'
    <3>1. OrderInv
      BY <1>1, <2>1, BeginMergeFacts
    <3>2. Needed' = Needed /\ AllEdges' = AllEdges
      BY <2>1, GraphKept
    <3> QED
      BY <2>1, <3>1, <3>2 DEF OrderInv
  <2>5. MergeInv(at)'
    <3>1. chain \in Seq(Everything) /\ data = <<>> /\ functions = <<>> /\ top = <<>>
      BY <1>1 DEF ListsOK, Unmerged
    <3>2. MergeInv(0)
      BY <3>1, MergeStarts
    <3>3. UNCHANGED <<imports, chain, data, functions, top>> /\ at' = 0
      BY <2>1, <2>2 DEF LaterKept
    <3> QED
      BY <3>2, <3>3 DEF MergeInv
  <2> QED
    BY <1>1, <2>1, <2>2, <2>3, <2>4, <2>5 DEF LinkInv, MergeState, Unmerged
<1> QED
  BY <1>2, <1>3, <1>4

LEMMA MergeStep ==
  ASSUME ProgramOK, ListsOK, MergeState, Next
  PROVE  LinkInv'
<1>1. /\ phase = "merge" /\ reason = "" /\ code = <<>> /\ loadedLibs = {} /\ NeededInv /\ OrderInv /\ MergeInv(at)
  BY DEF MergeState
<1>2. Merge \/ BeginEntry
  BY <1>1 DEF Next, DepNext, WalkItem, WalkMissing, WalkBroken, NoEntry, WalkDone, BeginStart, LookFromHere, CircleFound,
              NoCircle, Mark, Wipe, WipeCrashes, Visit, BeginMerge, Enter, EnterUnnamed, EnterDone
<1>3. CASE Merge
  <2>1. MergeInv(at)' /\ at' \in 0 .. Len(chain) /\ UNCHANGED <<depVars, exporters, code, loadedLibs>>
    BY <1>1, <1>3, MergeKeeps
  <2>2. UNCHANGED <<users, imports, stdlib, phase, reason, pending, loaded, table, entry, starts, marked, stack, chain>>
    BY <2>1 DEF depVars
  <2>3. ProgramOK' /\ NeededInv' /\ Needed' = Needed /\ AllEdges' = AllEdges
    BY <1>1, <2>2, GraphKept
  <2>4. ListsOK'
    BY <2>1, <2>2 DEF ListsOK
  <2>5. OrderInv'
    BY <1>1, <2>2, <2>3 DEF OrderInv
  <2> QED
    BY <1>1, <2>1, <2>2, <2>3, <2>4, <2>5 DEF LinkInv, MergeState
<1>4. CASE BeginEntry
  <2>1. /\ at = Len(chain) /\ phase' = "enter" /\ at' = 0
        /\ UNCHANGED <<users, imports, stdlib, reason, pending, loaded, table, entry, starts, marked, stack, chain,
                       exporters, data, functions, top, code, loadedLibs>>
    BY <1>4 DEF BeginEntry
  <2>2. ProgramOK' /\ NeededInv' /\ Needed' = Needed /\ AllEdges' = AllEdges
    BY <1>1, <2>1, GraphKept
  <2>3. ListsOK'
    <3>1. Len(chain) \in Nat
      BY ItemsFacts DEF ListsOK
    <3>2. at' \in 0 .. Len(chain)
      BY <2>1, <3>1
    <3> QED
      BY <2>1, <3>2 DEF ListsOK
  <2>4. OrderInv'
    BY <1>1, <2>1, <2>2 DEF OrderInv
  <2>5. MergeInv(Len(chain))'
    BY <1>1, <2>1 DEF MergeInv
  <2>6. EnterInv(at)'
    <3>1. EnterInv(0)
      BY <1>1, EnterStarts
    <3> QED
      BY <2>1, <3>1 DEF EnterInv
  <2>7. LibsShared'
    BY <1>1, <2>1 DEF LibsShared
  <2> QED
    BY <1>1, <2>1, <2>2, <2>3, <2>4, <2>5, <2>6, <2>7 DEF LinkInv, EnterState
<1> QED
  BY <1>2, <1>3, <1>4

LEMMA EnterStep ==
  ASSUME ProgramOK, ListsOK, EnterState, Next
  PROVE  LinkInv'
<1>1. /\ phase \in {"enter", "linked", "crashed"} /\ reason = ""
      /\ NeededInv /\ OrderInv /\ MergeInv(Len(chain)) /\ EnterInv(at) /\ LibsShared
  BY DEF EnterState
<1>2. Enter \/ EnterUnnamed \/ EnterDone
  BY <1>1 DEF Next, DepNext, WalkItem, WalkMissing, WalkBroken, NoEntry, WalkDone, BeginStart, LookFromHere, CircleFound,
              NoCircle, Mark, Wipe, WipeCrashes, Visit, Merge, BeginMerge, BeginEntry
<1>3. CASE Enter
  <2>1. /\ EnterInv(at)' /\ LibsShared' /\ at' \in 0 .. Len(chain) /\ loadedLibs' \subseteq Everything
        /\ UNCHANGED <<depVars, exporters, data, functions, top>>
    BY <1>1, <1>3, EnterKeeps
  <2>2. UNCHANGED <<users, imports, stdlib, phase, reason, pending, loaded, table, entry, starts, marked, stack, chain>>
    BY <2>1 DEF depVars
  <2>3. ProgramOK' /\ NeededInv' /\ Needed' = Needed /\ AllEdges' = AllEdges
    BY <1>1, <2>2, GraphKept
  <2>4. ListsOK'
    BY <2>1, <2>2 DEF ListsOK
  <2>5. OrderInv'
    BY <1>1, <2>2, <2>3 DEF OrderInv
  <2>6. MergeInv(Len(chain))'
    BY <1>1, <2>1, <2>2 DEF MergeInv
  <2> QED
    BY <1>1, <2>1, <2>2, <2>3, <2>4, <2>5, <2>6 DEF LinkInv, EnterState
<1>4. CASE EnterUnnamed \/ EnterDone
  <2>1. /\ phase' \in {"linked", "crashed"}
        /\ UNCHANGED <<users, imports, stdlib, reason, pending, loaded, table, entry, starts, marked, stack, chain,
                       exporters, data, functions, top, at, code, loadedLibs>>
    BY <1>4 DEF EnterUnnamed, EnterDone
  <2>2. ProgramOK' /\ NeededInv' /\ Needed' = Needed /\ AllEdges' = AllEdges
    BY <1>1, <2>1, GraphKept
  <2>3. ListsOK'
    BY <2>1 DEF ListsOK
  <2>4. OrderInv'
    BY <1>1, <2>1, <2>2 DEF OrderInv
  <2>5. MergeInv(Len(chain))'
    BY <1>1, <2>1 DEF MergeInv
  <2>6. EnterInv(at)' /\ LibsShared'
    <3>1. Modules' = Modules /\ \A n : Shared(n)' = Shared(n)
      BY <2>1, GraphKept
    <3> QED
      BY <1>1, <2>1, <3>1 DEF EnterInv, LibsShared
  <2> QED
    BY <1>1, <2>1, <2>2, <2>3, <2>4, <2>5, <2>6 DEF LinkInv, EnterState
<1> QED
  BY <1>2, <1>3, <1>4

LEMMA FailStep ==
  ASSUME CrashState \/ FailState
  PROVE  ~Next
BY DEF CrashState, FailState, Next, DepNext, WalkItem, WalkMissing, WalkBroken, NoEntry, WalkDone, BeginStart, LookFromHere, CircleFound,
       NoCircle, Mark, Wipe, WipeCrashes, Visit, Merge, BeginMerge, BeginEntry, Enter, EnterUnnamed, EnterDone

(* A stuttering step changes none of it.                                   *)
LEMMA LinkStutters ==
  ASSUME LinkInv, UNCHANGED vars
  PROVE  LinkInv'
<1>1. UNCHANGED <<users, imports, stdlib, phase, reason, pending, loaded, table, entry, starts, marked, stack, chain,
                  exporters, data, functions, top, at, code, loadedLibs>>
  BY DEF vars, depVars
<1>2. /\ Given' = Given /\ SourceEdges' = SourceEdges /\ Available' = Available
      /\ ProgramOK' = ProgramOK /\ GraphInv' = GraphInv /\ Modules' = Modules /\ PathEdges' = PathEdges /\ AllEdges' = AllEdges
      /\ NeededInv' = NeededInv /\ Needed' = Needed /\ \A x : Path(x)' = Path(x) /\ Succ(x)' = Succ(x) /\ Shared(x)' = Shared(x) /\ \A y : AsksFor(y, x)' = AsksFor(y, x)
  BY <1>1, GraphKept DEF AsksFor
<1>3. ListsOK' = ListsOK /\ Unmerged' = Unmerged /\ NoPathCircle' = NoPathCircle /\ Met' = Met
  BY <1>1, <1>2 DEF ListsOK, Unmerged, NoPathCircle, Met
<1>4. WalkInv' = WalkInv
  BY <1>1, <1>2, <1>3 DEF WalkInv
<1>5. CycleInv' = CycleInv
  BY <1>1, <1>2 DEF CycleInv
<1>6. WipeInv' = WipeInv
  BY <1>1, <1>2 DEF WipeInv
<1>7. ChainInv' = ChainInv /\ OrderInv' = OrderInv
  BY <1>1, <1>2 DEF ChainInv, OrderInv
<1>8. MergeInv(at)' = MergeInv(at) /\ MergeInv(Len(chain))' = MergeInv(Len(chain)) /\ EnterInv(at)' = EnterInv(at) /\ LibsShared' = LibsShared
  BY <1>1, <1>2 DEF MergeInv, EnterInv, LibsShared
<1>9. /\ WalkState' = WalkState /\ CycleState' = CycleState /\ WipeState' = WipeState /\ ChainState' = ChainState
      /\ MergeState' = MergeState /\ EnterState' = EnterState /\ CrashState' = CrashState /\ FailState' = FailState
  BY <1>1, <1>2, <1>3, <1>4, <1>5, <1>6, <1>7, <1>8
     DEF WalkState, CycleState, WipeState, ChainState, MergeState, EnterState, CrashState, FailState
<1> QED
  BY <1>2, <1>3, <1>9 DEF LinkInv

LEMMA LinkStep ==
  ASSUME LinkInv, [Next]_vars
  PROVE  LinkInv'
<1>1. CASE Next
  BY <1>1, WalkStep, CycleStep, WipeStep, ChainStep, MergeStep, EnterStep, FailStep DEF LinkInv
<1>2. CASE UNCHANGED vars
  BY <1>2, LinkStutters
<1> QED
  BY <1>1, <1>2

(* Every state of the linker is one of these.                              *)
THEOREM LinkerStates == Spec => []LinkInv
<1>1. Init => LinkInv
  BY LinkInit
<1>2. LinkInv /\ [Next]_vars => LinkInv'
  BY LinkStep
<1> QED
  BY <1>1, <1>2, PTL DEF Spec

-----------------------------------------------------------------------------
(* What the invariant says.                                                *)
LEMMA StateTyped ==
  ASSUME LinkInv
  PROVE  TypeOK
<1>1. ProgramOK /\ ListsOK
  BY DEF LinkInv
<1>2. /\ phase \in {"walk", "cycle", "wipe", "chain", "merge", "enter", "linked", "failed", "crashed"}
      /\ reason \in {"", "missing", "library", "entry", "cycle"} /\ (reason # "") = (phase = "failed")
  BY DEF LinkInv, WalkState, CycleState, WipeState, ChainState, MergeState, EnterState, CrashState, FailState
<1>3. ToSet(pending) \subseteq Everything /\ ToSet(starts) \subseteq Everything /\ ToSet(stack) \subseteq Everything
      /\ ToSet(chain) \subseteq Everything
  BY <1>1, ItemsFacts DEF ListsOK
<1>4. Modules \subseteq Everything /\ \A m \in Modules : \A i \in table[m] : i.static \in BOOLEAN
  BY <1>1 DEF ListsOK, TableOK, Modules, Import
<1> QED
  BY <1>1, <1>2, <1>3, <1>4 DEF TypeOK, ListsOK, Everything

LEMMA StateOrdered ==
  ASSUME LinkInv
  PROVE  LoadsInOrder
<1>1. ProgramOK /\ ListsOK
  BY DEF LinkInv
<1>2. TypeOK
  BY StateTyped
<1>3. WalkedOnce
  <2>1. IsInjective(pending)
    <3>1. pending \in Seq(Everything) /\ Distinct(pending)
      BY <1>1 DEF ListsOK
    <3>2. DOMAIN pending = 1 .. Len(pending)
      BY <3>1, ItemsFacts
    <3> QED
      BY <3>1, <3>2 DEF Distinct, IsInjective
  <2>2. phase = "walk" => Modules = loaded /\ loaded \cap ToSet(pending) = {}
    BY DEF LinkInv, WalkState, WalkInv, CycleState, WipeState, ChainState, MergeState, EnterState, CrashState, FailState
  <2>3. phase = "cycle" => Modules = ReachedFrom(Given, SourceEdges)
    BY DEF LinkInv, WalkState, CycleState, CycleInv, WipeState, ChainState, MergeState, EnterState, CrashState, FailState
  <2> QED
    BY <2>1, <2>2, <2>3 DEF WalkedOnce, Given
<1>4. WipedExact
  <2>1. phase = "chain" => NeededInv
    BY DEF LinkInv, WalkState, CycleState, WipeState, ChainState, MergeState, EnterState, CrashState, FailState
  <2> QED
    BY <2>1 DEF NeededInv, WipedExact
<1>5. ChainInOrder
  <2> SUFFICES ASSUME phase = "merge"
      PROVE  /\ ToSet(chain) = Needed /\ Last(chain) = entry
             /\ \A p \in DOMAIN chain : \A n \in NamesOf(table[chain[p]]) \cap Modules : \E q \in 1..(p - 1) : chain[q] = n
    BY DEF ChainInOrder
  <2>1. OrderInv /\ NeededInv
    BY DEF LinkInv, WalkState, CycleState, WipeState, ChainState, MergeState, EnterState, CrashState, FailState
  <2>2. ASSUME NEW p \in DOMAIN chain, NEW n \in NamesOf(table[chain[p]]) \cap Modules PROVE \E q \in 1..(p - 1) : chain[q] = n
    <3>1. chain[p] \in Modules
      <4>1. chain \in Seq(Everything)
        BY <1>1 DEF ListsOK
      <4>2. p \in 1 .. Len(chain)
        BY <4>1, ItemsFacts
      <4>3. chain[p] \in ToSet(chain)
        BY <4>1, <4>2, ItemsFacts
      <4> QED
        BY <2>1, <4>3 DEF OrderInv, NeededInv
    <3>2. n \in After(chain[p], AllEdges)
      <4>1. After(chain[p], AllEdges) = Succ(chain[p])
        BY <1>1, <3>1, GraphFacts
      <4> QED
        BY <2>2, <4>1 DEF Succ
    <3> QED
      BY <2>1, <3>2 DEF OrderInv, Behind
  <2> QED
    BY <2>1, <2>2 DEF OrderInv
<1> QED
  BY <1>2, <1>3, <1>4, <1>5 DEF LoadsInOrder

LEMMA StateExact ==
  ASSUME LinkInv
  PROVE  CircleExact
<1>1. Edges({"user"}) = PathEdges
  BY EdgesHere DEF PathEdges
<1>2. reason = "cycle" => OnCircle(Head(starts), PathEdges)
  BY DEF LinkInv, WalkState, CycleState, WipeState, ChainState, MergeState, EnterState, CrashState, FailState
<1>3. phase = "wipe" /\ marked = {} => NoPathCircle
  BY DEF LinkInv, WalkState, CycleState, WipeState, ChainState, MergeState, EnterState, CrashState, FailState
<1> QED
  BY <1>1, <1>2, <1>3 DEF CircleExact, NoPathCircle

LEMMA StateMeant ==
  ASSUME LinkInv
  PROVE  ProgramMeant
<1>1. CASE EnterState
  <2>1. ListsOK /\ NeededInv /\ OrderInv /\ MergeInv(Len(chain)) /\ EnterInv(at) /\ LibsShared
    BY <1>1 DEF LinkInv, EnterState
  <2>2. MergedMeant
    BY <2>1, MergeMeant
  <2>3. ImportsThere /\ DynlibOnce
    BY <2>1, EnterMeant
  <2> QED
    BY <2>2, <2>3 DEF ProgramMeant
<1>2. CASE ~EnterState
  <2>1. phase \notin {"enter", "linked"} /\ code = <<>>
    BY <1>2 DEF LinkInv, WalkState, CycleState, WipeState, ChainState, MergeState, CrashState, FailState, Unmerged
  <2>2. DOMAIN code = {}
    BY <2>1
  <2> QED
    BY <2>1, <2>2 DEF ProgramMeant, MergedMeant, ImportsThere, DynlibOnce
<1> QED
  BY <1>1, <1>2

(* Of the modules exactly those that the entry needs are linked, each      *)
(* loaded behind what it imports: the walk of xjs_depwalk.c takes every    *)
(* module once, and the wipe and the loading chain of xjs_l1.c keep what   *)
(* is needed, in order.                                                    *)
THEOREM ModulesLoadInOrder == Spec => []LoadsInOrder
<1>1. LinkInv => LoadsInOrder
  BY StateOrdered
<1> QED
  BY <1>1, LinkerStates, PTL

(* xjs_l1_cycleref_detect reports a circle when a module imports itself by *)
(* paths, directly or through others, and only then.                       *)
THEOREM CirclesAreExact == Spec => []CircleExact
<1>1. LinkInv => CircleExact
  BY StateExact
<1> QED
  BY <1>1, LinkerStates, PTL

(* In the program that xjs_l1_merge_ir makes every reference to a string   *)
(* or a function means what it meant in its module, the top level of a     *)
(* module is called when its imports are there - stored by their modules,  *)
(* and not stored over unless they are Shared - and no library is loaded   *)
(* by the program twice.                                                   *)
THEOREM ProgramIsItsModules == Spec => []ProgramMeant
<1>1. LinkInv => ProgramMeant
  BY StateMeant
<1> QED
  BY <1>1, LinkerStates, PTL
==============================================================================
