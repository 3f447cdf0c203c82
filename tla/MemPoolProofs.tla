---------------------------- MODULE MemPoolProofs ----------------------------
(***************************************************************************)
(* Proofs about the memory pool, for every size and number of sub pools,   *)
(* every size of the header and every request.                             *)
(***************************************************************************)
EXTENDS MemPool, Lemmas

(***************************************************************************)
(* Sequences and their sums.                                               *)
(***************************************************************************)
LEMMA SumsRecursive ==
  ASSUME NEW s, Len(s) \in Nat
  PROVE  Sums(s) = [n \in 0 .. Len(s) |-> IF n = 0 THEN 0 ELSE Sums(s)[n - 1] + s[n]]
<1> DEFINE Run(g, m) == g = [n \in 0 .. m |-> IF n = 0 THEN 0 ELSE g[n - 1] + s[n]]
           M == {m \in Nat : \E g : Run(g, m)}
<1>1. 0 \in M
  <2>1. Run([n \in 0 .. 0 |-> 0], 0)
    OBVIOUS
  <2> QED
    BY <2>1
<1>2. ASSUME NEW m \in Nat, m \in M PROVE m + 1 \in M
  <2>1. PICK g : Run(g, m)
    BY <1>2
  <2> DEFINE h == [n \in 0 .. m + 1 |-> IF n = m + 1 THEN g[m] + s[m + 1] ELSE g[n]]
  <2>2. ASSUME NEW n \in 0 .. m + 1 PROVE h[n] = IF n = 0 THEN 0 ELSE h[n - 1] + s[n]
    <3>1. CASE n = 0
      BY <2>1, <3>1
    <3>2. CASE n = m + 1
      <4>1. n # 0 /\ n - 1 = m /\ m \in 0 .. m + 1 /\ m # m + 1
        BY <3>2
      <4> QED
        BY <3>2, <4>1
    <3>3. CASE n # 0 /\ n # m + 1
      <4>1. n \in 0 .. m /\ n - 1 \in 0 .. m + 1 /\ n - 1 # m + 1
        BY <3>3
      <4>2. g[n] = g[n - 1] + s[n]
        BY <2>1, <3>3, <4>1
      <4> QED
        BY <3>3, <4>1, <4>2
    <3> QED
      BY <3>1, <3>2, <3>3
  <2>3. h = [n \in 0 .. m + 1 |-> h[n]]
    OBVIOUS
  <2> HIDE DEF h
  <2>4. Run(h, m + 1)
    BY <2>2, <2>3
  <2> QED
    BY <2>4
<1>3. Len(s) \in M
  <2> HIDE DEF M
  <2> QED
    BY <1>1, <1>2, NatSetInduction
<1>4. PICK g : Run(g, Len(s))
  BY <1>3
<1>5. g = [n \in 0 .. Len(s) |-> IF n = 0 THEN 0 ELSE g[n - 1] + s[n]]
  BY <1>4
<1> QED
  BY <1>5, Zenon DEF Sums

LEMMA SumsFacts ==
  ASSUME NEW s \in Seq(Nat)
  PROVE  /\ Len(s) \in Nat /\ DOMAIN Sums(s) = 0 .. Len(s) /\ Sums(s)[0] = 0
         /\ \A n \in 0 .. Len(s) : Sums(s)[n] \in Nat
         /\ \A n \in 1 .. Len(s) : n - 1 \in 0 .. Len(s) /\ Sums(s)[n] = Sums(s)[n - 1] + s[n]
         /\ SumOf(s) = Sums(s)[Len(s)] /\ SumOf(s) \in Nat
<1> PICK sum : sum = Sums(s)
  OBVIOUS
<1>1. Len(s) \in Nat /\ \A n \in 1 .. Len(s) : s[n] \in Nat
  BY LenProperties, ElementOfSeq
<1>2. sum = [n \in 0 .. Len(s) |-> IF n = 0 THEN 0 ELSE sum[n - 1] + s[n]]
  BY <1>1, SumsRecursive
<1>3. sum[0] = 0 /\ DOMAIN sum = 0 .. Len(s)
  BY <1>1, <1>2
<1>4. \A n \in 1 .. Len(s) : n - 1 \in 0 .. Len(s) /\ sum[n] = sum[n - 1] + s[n]
  BY <1>1, <1>2
<1> DEFINE M == {m \in Nat : m \in 0 .. Len(s) => sum[m] \in Nat}
<1>5. 0 \in M
  BY <1>3
<1>6. ASSUME NEW m \in Nat, m \in M PROVE m + 1 \in M
  <2> SUFFICES ASSUME m + 1 \in 0 .. Len(s) PROVE sum[m + 1] \in Nat
    OBVIOUS
  <2>1. m + 1 \in 1 .. Len(s) /\ m \in 0 .. Len(s) /\ (m + 1) - 1 = m
    BY <1>1
  <2>2. sum[m + 1] = sum[m] + s[m + 1]
    BY <1>4, <2>1
  <2> QED
    BY <1>1, <1>6, <2>1, <2>2
<1>7. \A m \in Nat : m \in M
  <2> HIDE DEF M
  <2> QED
    BY <1>5, <1>6, NatSetInduction
<1>8. \A n \in 0 .. Len(s) : sum[n] \in Nat
  BY <1>7
<1>9. Len(s) \in 0 .. Len(s)
  BY <1>1
<1> QED
  BY <1>1, <1>3, <1>4, <1>8, <1>9 DEF SumOf

(* t is s with x put at place i.                                           *)
Inserted(s, t, i, x) ==
  /\ Len(t) = Len(s) + 1 /\ i \in 1 .. Len(t)
  /\ \A j \in 1 .. i - 1 : t[j] = s[j]
  /\ t[i] = x
  /\ \A j \in i .. Len(s) : t[j + 1] = s[j]

LEMMA ConcatFacts ==
  ASSUME NEW S, NEW a \in Seq(S), NEW c \in Seq(S)
  PROVE  /\ a \o c \in Seq(S) /\ Len(a \o c) = Len(a) + Len(c)
         /\ \A j \in 1 .. Len(a) : (a \o c)[j] = a[j]
         /\ \A j \in 1 .. Len(c) : (a \o c)[Len(a) + j] = c[j]
<1>1. /\ a \o c \in Seq(S) /\ Len(a \o c) = Len(a) + Len(c)
      /\ \A j \in 1 .. Len(a) + Len(c) : (a \o c)[j] = IF j <= Len(a) THEN a[j] ELSE c[j - Len(a)]
  BY ConcatProperties
<1>2. Len(a) \in Nat /\ Len(c) \in Nat
  BY LenProperties
<1>3. ASSUME NEW j \in 1 .. Len(a) PROVE (a \o c)[j] = a[j]
  <2>1. j \in 1 .. Len(a) + Len(c) /\ j <= Len(a)
    BY <1>2
  <2> QED
    BY <1>1, <2>1
<1>4. ASSUME NEW j \in 1 .. Len(c) PROVE (a \o c)[Len(a) + j] = c[j]
  <2>1. Len(a) + j \in 1 .. Len(a) + Len(c) /\ ~(Len(a) + j <= Len(a)) /\ (Len(a) + j) - Len(a) = j
    BY <1>2
  <2>2. (a \o c)[Len(a) + j] = IF Len(a) + j <= Len(a) THEN a[Len(a) + j] ELSE c[(Len(a) + j) - Len(a)]
    BY <1>1, <2>1
  <2> QED
    BY <2>1, <2>2
<1> QED
  BY <1>1, <1>3, <1>4

LEMMA SubSeqFacts ==
  ASSUME NEW S, NEW s \in Seq(S), NEW i \in Nat, NEW n \in Nat, i >= 1, i <= n + 1, n <= Len(s)
  PROVE  /\ SubSeq(s, i, n) \in Seq(S) /\ Len(SubSeq(s, i, n)) = n + 1 - i
         /\ \A j \in 1 .. n + 1 - i : SubSeq(s, i, n)[j] = s[i + j - 1]
<1>1. i \in Int /\ n \in Int /\ \A j \in i .. n : s[j] \in S
  <2> SUFFICES ASSUME NEW j \in i .. n PROVE s[j] \in S
    OBVIOUS
  <2>1. j \in 1 .. Len(s)
    BY LenProperties
  <2> QED
    BY <2>1, ElementOfSeq
<1>2. /\ SubSeq(s, i, n) \in Seq(S)
      /\ Len(SubSeq(s, i, n)) = IF i <= n THEN n - i + 1 ELSE 0
      /\ \A j \in 1 .. n - i + 1 : SubSeq(s, i, n)[j] = s[i + j - 1]
  BY <1>1, SubSeqProperties
<1>3. Len(SubSeq(s, i, n)) = n + 1 - i /\ n + 1 - i = n - i + 1
  BY <1>2
<1> QED
  BY <1>2, <1>3

LEMMA InsertFacts ==
  ASSUME NEW S, NEW s \in Seq(S), NEW i \in 1 .. Len(s) + 1, NEW e \in S
  PROVE  InsertAt(s, i, e) \in Seq(S) /\ Inserted(s, InsertAt(s, i, e), i, e)
<1>01. PICK n : n = Len(s)
  OBVIOUS
<1>1. n \in Nat /\ i \in Nat /\ i >= 1 /\ i <= n + 1
  BY <1>01, LenProperties
<1>02. PICK a : a = SubSeq(s, 1, i - 1)
  OBVIOUS
<1>03. PICK c : c = SubSeq(s, i, n)
  OBVIOUS
<1>2. a \in Seq(S) /\ Len(a) = i - 1 /\ \A j \in 1 .. i - 1 : a[j] = s[j]
  <2>1. i - 1 \in Nat /\ 1 <= (i - 1) + 1 /\ i - 1 <= Len(s) /\ (i - 1) + 1 - 1 = i - 1 /\ 1 \in Nat
    BY <1>01, <1>1
  <2>2. /\ a \in Seq(S) /\ Len(a) = (i - 1) + 1 - 1
        /\ \A j \in 1 .. (i - 1) + 1 - 1 : a[j] = s[1 + j - 1]
    BY <1>02, <2>1, SubSeqFacts
  <2>3. \A j \in 1 .. i - 1 : 1 + j - 1 = j
    BY <1>1
  <2> QED
    BY <2>1, <2>2, <2>3
<1>3. c \in Seq(S) /\ Len(c) = n + 1 - i /\ \A j \in 1 .. n + 1 - i : c[j] = s[i + j - 1]
  BY <1>01, <1>03, <1>1, SubSeqFacts
<1>4. <<e>> \in Seq(S) /\ Len(<<e>>) = 1 /\ <<e>>[1] = e
  OBVIOUS
<1>04. PICK b : b = a \o <<e>>
  OBVIOUS
<1>5. b \in Seq(S) /\ Len(b) = i /\ b[i] = e /\ \A j \in 1 .. i - 1 : b[j] = s[j]
  <2>1. /\ b \in Seq(S) /\ Len(b) = Len(a) + Len(<<e>>)
        /\ \A j \in 1 .. Len(a) : b[j] = a[j]
        /\ \A j \in 1 .. Len(<<e>>) : b[Len(a) + j] = <<e>>[j]
    BY <1>04, <1>2, <1>4, ConcatFacts
  <2>2. Len(b) = i /\ \A j \in 1 .. i - 1 : b[j] = s[j]
    BY <1>1, <1>2, <1>4, <2>1
  <2>3. 1 \in 1 .. Len(<<e>>) /\ Len(a) + 1 = i
    BY <1>1, <1>2, <1>4
  <2>4. b[i] = e
    BY <1>4, <2>1, <2>3
  <2> QED
    BY <2>1, <2>2, <2>4
<1>05. PICK t : t = b \o c
  OBVIOUS
<1>6. t \in Seq(S) /\ Inserted(s, t, i, e)
  <2>1. /\ t \in Seq(S) /\ Len(t) = Len(b) + Len(c)
        /\ \A j \in 1 .. Len(b) : t[j] = b[j]
        /\ \A j \in 1 .. Len(c) : t[Len(b) + j] = c[j]
    <3>1. b \in Seq(S) /\ c \in Seq(S)
      BY <1>3, <1>5
    <3> QED
      BY <1>05, <3>1, ConcatFacts
  <2>6. Len(t) = Len(s) + 1 /\ i \in 1 .. Len(t)
    BY <1>01, <1>1, <1>3, <1>5, <2>1
  <2>2. /\ Len(t) = Len(s) + 1 /\ i \in 1 .. Len(t)
        /\ \A j \in 1 .. i : t[j] = b[j]
        /\ \A j \in 1 .. n + 1 - i : t[i + j] = c[j]
    BY <1>3, <1>5, <2>1, <2>6
  <2>3. i \in 1 .. i /\ \A j \in 1 .. i - 1 : j \in 1 .. i
    BY <1>1
  <2>4. t[i] = e /\ \A j \in 1 .. i - 1 : t[j] = s[j]
    BY <1>5, <2>2, <2>3
  <2>5. ASSUME NEW j \in i .. Len(s) PROVE t[j + 1] = s[j]
    <3> PICK m : m = j + 1 - i
      OBVIOUS
    <3>1. m \in 1 .. n + 1 - i /\ i + m = j + 1 /\ i + m - 1 = j
      BY <1>01, <1>1
    <3>2. t[i + m] = c[m] /\ c[m] = s[i + m - 1]
      BY <1>3, <2>2, <3>1
    <3> QED
      BY <3>1, <3>2
  <2> QED
    BY <2>1, <2>2, <2>4, <2>5 DEF Inserted
<1> QED
  BY <1>01, <1>02, <1>03, <1>04, <1>05, <1>6 DEF InsertAt

LEMMA RemoveFacts ==
  ASSUME NEW S, NEW s \in Seq(S), NEW i \in 1 .. Len(s)
  PROVE  RemoveAt(s, i) \in Seq(S) /\ Inserted(RemoveAt(s, i), s, i, s[i])
<1>01. PICK n : n = Len(s)
  OBVIOUS
<1>1. n \in Nat /\ i \in Nat /\ i >= 1 /\ i <= n
  BY <1>01, LenProperties
<1>02. PICK a : a = SubSeq(s, 1, i - 1)
  OBVIOUS
<1>03. PICK c : c = SubSeq(s, i + 1, n)
  OBVIOUS
<1>2. a \in Seq(S) /\ Len(a) = i - 1 /\ \A j \in 1 .. i - 1 : a[j] = s[j]
  <2>1. i - 1 \in Nat /\ 1 <= (i - 1) + 1 /\ i - 1 <= Len(s) /\ (i - 1) + 1 - 1 = i - 1 /\ 1 \in Nat
    BY <1>01, <1>1
  <2>2. /\ a \in Seq(S) /\ Len(a) = (i - 1) + 1 - 1
        /\ \A j \in 1 .. (i - 1) + 1 - 1 : a[j] = s[1 + j - 1]
    BY <1>02, <2>1, SubSeqFacts
  <2>3. \A j \in 1 .. i - 1 : 1 + j - 1 = j
    BY <1>1
  <2> QED
    BY <2>1, <2>2, <2>3
<1>3. c \in Seq(S) /\ Len(c) = n - i /\ \A j \in 1 .. n - i : c[j] = s[i + j]
  <2>1. i + 1 \in Nat /\ i + 1 >= 1 /\ i + 1 <= n + 1 /\ n + 1 - (i + 1) = n - i
    BY <1>1
  <2>2. /\ c \in Seq(S) /\ Len(c) = n + 1 - (i + 1)
        /\ \A j \in 1 .. n + 1 - (i + 1) : c[j] = s[(i + 1) + j - 1]
    BY <1>01, <1>03, <1>1, <2>1, SubSeqFacts
  <2>3. \A j \in 1 .. n - i : (i + 1) + j - 1 = i + j
    BY <1>1
  <2> QED
    BY <2>1, <2>2, <2>3
<1>05. PICK t : t = a \o c
  OBVIOUS
<1>4. t \in Seq(S) /\ Inserted(t, s, i, s[i])
  <2>1. /\ t \in Seq(S) /\ Len(t) = Len(a) + Len(c)
        /\ \A j \in 1 .. Len(a) : t[j] = a[j]
        /\ \A j \in 1 .. Len(c) : t[Len(a) + j] = c[j]
    <3>1. a \in Seq(S) /\ c \in Seq(S)
      BY <1>2, <1>3
    <3> QED
      BY <1>05, <3>1, ConcatFacts
  <2>4. Len(t) = n - 1 /\ Len(s) = Len(t) + 1
    BY <1>01, <1>1, <1>2, <1>3, <2>1
  <2>2. /\ Len(t) = n - 1 /\ Len(s) = Len(t) + 1
        /\ \A j \in 1 .. i - 1 : s[j] = t[j]
        /\ \A j \in 1 .. n - i : t[(i - 1) + j] = c[j]
    BY <1>2, <1>3, <2>1, <2>4
  <2>3. ASSUME NEW j \in i .. Len(t) PROVE s[j + 1] = t[j]
    <3> PICK m : m = j + 1 - i
      OBVIOUS
    <3>1. m \in 1 .. n - i /\ (i - 1) + m = j /\ i + m = j + 1
      BY <1>1, <2>2
    <3>2. t[(i - 1) + m] = c[m] /\ c[m] = s[i + m]
      BY <1>3, <2>2, <3>1
    <3> QED
      BY <3>1, <3>2
  <2> QED
    BY <2>1, <2>2, <2>3 DEF Inserted
<1> QED
  BY <1>01, <1>02, <1>03, <1>05, <1>4 DEF RemoveAt

LEMMA AppendFacts ==
  ASSUME NEW S, NEW s \in Seq(S), NEW e \in S
  PROVE  Append(s, e) \in Seq(S) /\ Inserted(s, Append(s, e), Len(s) + 1, e)
<1>1. Len(s) \in Nat
  BY LenProperties
<1>2. /\ Append(s, e) \in Seq(S) /\ Len(Append(s, e)) = Len(s) + 1
      /\ \A j \in 1 .. Len(s) : Append(s, e)[j] = s[j]
      /\ Append(s, e)[Len(s) + 1] = e
  BY AppendProperties
<1>3. /\ \A j \in 1 .. (Len(s) + 1) - 1 : j \in 1 .. Len(s)
      /\ \A j \in Len(s) + 1 .. Len(s) : FALSE
      /\ Len(s) + 1 \in 1 .. Len(s) + 1
  BY <1>1
<1> QED
  BY <1>2, <1>3 DEF Inserted

LEMMA SumInserted ==
  ASSUME NEW s \in Seq(Nat), NEW t \in Seq(Nat), NEW i, NEW x \in Nat, Inserted(s, t, i, x)
  PROVE  SumOf(t) = SumOf(s) + x
<1> PICK n : n = Len(s)
  OBVIOUS
<1> PICK p : p = Sums(s)
  OBVIOUS
<1> PICK q : q = Sums(t)
  OBVIOUS
<1>1. /\ n \in Nat /\ i \in 1 .. n + 1 /\ Len(t) = n + 1
      /\ p[0] = 0 /\ q[0] = 0
      /\ \A m \in 0 .. n : p[m] \in Nat
      /\ \A m \in 1 .. n : p[m] = p[m - 1] + s[m]
      /\ \A m \in 1 .. n + 1 : q[m] = q[m - 1] + t[m]
      /\ SumOf(s) = p[n] /\ SumOf(t) = q[n + 1]
  BY SumsFacts DEF Inserted
<1>2. /\ \A j \in 1 .. i - 1 : t[j] = s[j]
      /\ t[i] = x
      /\ \A j \in i .. n : t[j + 1] = s[j]
      /\ \A j \in 1 .. n : s[j] \in Nat
  BY ElementOfSeq DEF Inserted
<1> DEFINE M == {m \in Nat : m \in 0 .. n + 1 => q[m] = IF m < i THEN p[m] ELSE p[m - 1] + x}
<1>3. 0 \in M
  BY <1>1
<1>4. ASSUME NEW m \in Nat, m \in M PROVE m + 1 \in M
  <2> SUFFICES ASSUME m + 1 \in 0 .. n + 1
               PROVE  q[m + 1] = IF m + 1 < i THEN p[m + 1] ELSE p[(m + 1) - 1] + x
    OBVIOUS
  <2>1. m + 1 \in 1 .. n + 1 /\ (m + 1) - 1 = m /\ m \in 0 .. n + 1 /\ m \in 0 .. n
    BY <1>1
  <2>2. q[m + 1] = q[m] + t[m + 1] /\ q[m] = IF m < i THEN p[m] ELSE p[m - 1] + x
    BY <1>1, <1>4, <2>1
  <2>3. CASE m + 1 < i
    <3>1. m + 1 \in 1 .. i - 1 /\ m + 1 \in 1 .. n /\ m < i
      BY <1>1, <2>1, <2>3
    <3>2. t[m + 1] = s[m + 1] /\ p[m + 1] = p[m] + s[m + 1]
      BY <1>1, <1>2, <2>1, <3>1
    <3> QED
      BY <2>2, <2>3, <3>1, <3>2
  <2>4. CASE m + 1 = i
    <3>1. m < i /\ ~(m + 1 < i) /\ t[m + 1] = x
      BY <1>1, <1>2, <2>4
    <3> QED
      BY <2>1, <2>2, <3>1
  <2>5. CASE m + 1 > i
    <3>1. m \in i .. n /\ m \in 1 .. n /\ m - 1 \in 0 .. n /\ ~(m < i) /\ ~(m + 1 < i)
      BY <1>1, <2>1, <2>5
    <3>2. t[m + 1] = s[m] /\ p[m] = p[m - 1] + s[m] /\ s[m] \in Nat /\ p[m - 1] \in Nat
      BY <1>1, <1>2, <3>1
    <3>3. q[m + 1] = (p[m - 1] + x) + s[m]
      BY <2>2, <3>1, <3>2
    <3>4. q[m + 1] = p[m] + x
      BY <3>2, <3>3
    <3> QED
      BY <2>1, <3>1, <3>4
  <2>6. m + 1 < i \/ m + 1 = i \/ m + 1 > i
    BY <1>1
  <2> QED
    BY <2>3, <2>4, <2>5, <2>6
<1>5. \A m \in Nat : m \in M
  <2> HIDE DEF M
  <2> QED
    BY <1>3, <1>4, NatSetInduction
<1>6. n + 1 \in 0 .. n + 1 /\ ~(n + 1 < i) /\ (n + 1) - 1 = n
  BY <1>1
<1>7. q[n + 1] = p[n] + x
  <2>1. n + 1 \in Nat
    BY <1>1
  <2>2. q[n + 1] = IF n + 1 < i THEN p[n + 1] ELSE p[(n + 1) - 1] + x
    BY <1>5, <1>6, <2>1
  <2> QED
    BY <1>6, <2>2
<1> QED
  BY <1>1, <1>7

(* One number is replaced.                                                 *)
Replaced(s, t, k) == Len(t) = Len(s) /\ \A j \in 1 .. Len(s) : j # k => t[j] = s[j]

LEMMA SumReplaced ==
  ASSUME NEW s \in Seq(Nat), NEW t \in Seq(Nat), NEW k \in 1 .. Len(s), Replaced(s, t, k)
  PROVE  SumOf(t) + s[k] = SumOf(s) + t[k]
<1> PICK r : r = RemoveAt(s, k)
  OBVIOUS
<1>1. r \in Seq(Nat) /\ Inserted(r, s, k, s[k])
  BY RemoveFacts
<1>2. Len(s) \in Nat /\ Len(r) \in Nat /\ s[k] \in Nat /\ t[k] \in Nat
  <2>1. k \in 1 .. Len(t)
    BY DEF Replaced
  <2> QED
    BY <1>1, <2>1, LenProperties, ElementOfSeq
<1>3. Inserted(r, t, k, t[k])
  <2>0. Len(t) = Len(s) /\ \A j \in 1 .. Len(s) : j # k => t[j] = s[j]
    BY DEF Replaced
  <2>1. /\ Len(s) = Len(r) + 1 /\ k \in 1 .. Len(t)
        /\ \A j \in 1 .. k - 1 : s[j] = r[j]
        /\ \A j \in k .. Len(r) : s[j + 1] = r[j]
    BY <1>1, <2>0 DEF Inserted
  <2>2. /\ \A j \in 1 .. k - 1 : j \in 1 .. Len(s) /\ j # k
        /\ \A j \in k .. Len(r) : j + 1 \in 1 .. Len(s) /\ j + 1 # k
    BY <1>2, <2>1, SMTT(30)
  <2>3. /\ \A j \in 1 .. k - 1 : t[j] = r[j]
        /\ \A j \in k .. Len(r) : t[j + 1] = r[j]
    BY <2>0, <2>1, <2>2
  <2> QED
    BY <2>0, <2>1, <2>3 DEF Inserted
<1>4. SumOf(s) = SumOf(r) + s[k]
  BY <1>1, <1>2, SumInserted
<1>5. SumOf(t) = SumOf(r) + t[k]
  BY <1>1, <1>2, <1>3, SumInserted
<1>6. SumOf(r) \in Nat
  BY <1>1, SumsFacts
<1> QED
  BY <1>2, <1>4, <1>5, <1>6, SMTT(30)

LEMMA SumMonotone ==
  ASSUME NEW s \in Seq(Nat), NEW t \in Seq(Nat), Len(t) = Len(s),
         \A j \in 1 .. Len(s) : s[j] <= t[j]
  PROVE  SumOf(s) <= SumOf(t)
<1> PICK n : n = Len(s)
  OBVIOUS
<1> PICK p : p = Sums(s)
  OBVIOUS
<1> PICK q : q = Sums(t)
  OBVIOUS
<1>1. /\ n \in Nat /\ p[0] = 0 /\ q[0] = 0
      /\ \A m \in 0 .. n : p[m] \in Nat /\ q[m] \in Nat
      /\ \A m \in 1 .. n : p[m] = p[m - 1] + s[m] /\ q[m] = q[m - 1] + t[m]
      /\ SumOf(s) = p[n] /\ SumOf(t) = q[n]
  BY SumsFacts
<1>2. \A j \in 1 .. n : s[j] \in Nat /\ t[j] \in Nat
  BY ElementOfSeq
<1> DEFINE M == {m \in Nat : m \in 0 .. n => p[m] <= q[m]}
<1>3. 0 \in M
  BY <1>1
<1>4. ASSUME NEW m \in Nat, m \in M PROVE m + 1 \in M
  <2> SUFFICES ASSUME m + 1 \in 0 .. n PROVE p[m + 1] <= q[m + 1]
    OBVIOUS
  <2>1. m + 1 \in 1 .. n /\ (m + 1) - 1 = m /\ m \in 0 .. n
    BY <1>1
  <2>2. p[m + 1] = p[m] + s[m + 1] /\ q[m + 1] = q[m] + t[m + 1] /\ p[m] <= q[m]
    BY <1>1, <1>4, <2>1
  <2>3. p[m] \in Nat /\ q[m] \in Nat /\ s[m + 1] \in Nat /\ t[m + 1] \in Nat /\ s[m + 1] <= t[m + 1]
    BY <1>1, <1>2, <2>1
  <2> QED
    BY <2>2, <2>3, SMTT(30)
<1>5. \A m \in Nat : m \in M
  <2> HIDE DEF M
  <2> QED
    BY <1>3, <1>4, NatSetInduction
<1> QED
  BY <1>1, <1>5

LEMMA FunctionIsSeq ==
  ASSUME NEW S, NEW n \in Nat, NEW f \in [1 .. n -> S]
  PROVE  f \in Seq(S) /\ Len(f) = n
<1>1. f \in Seq(S)
  BY SeqDef
<1>2. Len(f) \in Nat /\ 1 .. n = 1 .. Len(f)
  BY <1>1, LenProperties
<1> QED
  BY <1>1, <1>2

(* Where the items of the longer sequence are from.                        *)
LEMMA InsertedItems ==
  ASSUME NEW S, NEW s \in Seq(S), NEW t \in Seq(S), NEW i, NEW x, Inserted(s, t, i, x)
  PROVE  /\ i \in 1 .. Len(s) + 1 /\ Len(t) = Len(s) + 1 /\ t[i] = x
         /\ \A j \in 1 .. Len(t) :
              \/ j < i /\ j \in 1 .. Len(s) /\ t[j] = s[j]
              \/ j = i
              \/ j > i /\ j - 1 \in 1 .. Len(s) /\ t[j] = s[j - 1]
         /\ \A j \in 1 .. Len(s) :
              \/ j < i /\ j \in 1 .. Len(t) /\ t[j] = s[j]
              \/ j >= i /\ j + 1 \in 1 .. Len(t) /\ t[j + 1] = s[j]
<1>1. Len(s) \in Nat /\ Len(t) = Len(s) + 1 /\ i \in 1 .. Len(s) + 1 /\ t[i] = x
  BY LenProperties DEF Inserted
<1>2. /\ \A j \in 1 .. i - 1 : t[j] = s[j]
      /\ \A j \in i .. Len(s) : t[j + 1] = s[j]
  BY DEF Inserted
<1>3. ASSUME NEW j \in 1 .. Len(t)
      PROVE  \/ j < i /\ j \in 1 .. Len(s) /\ t[j] = s[j]
             \/ j = i
             \/ j > i /\ j - 1 \in 1 .. Len(s) /\ t[j] = s[j - 1]
  <2>1. CASE j < i
    <3>1. j \in 1 .. i - 1 /\ j \in 1 .. Len(s)
      BY <1>1, <2>1
    <3> QED
      BY <1>2, <2>1, <3>1
  <2>2. CASE j > i
    <3>1. j - 1 \in i .. Len(s) /\ j - 1 \in 1 .. Len(s) /\ (j - 1) + 1 = j
      BY <1>1, <2>2
    <3>2. t[(j - 1) + 1] = s[j - 1]
      BY <1>2, <3>1
    <3> QED
      BY <2>2, <3>1, <3>2
  <2> QED
    BY <1>1, <2>1, <2>2
<1>4. ASSUME NEW j \in 1 .. Len(s)
      PROVE  \/ j < i /\ j \in 1 .. Len(t) /\ t[j] = s[j]
             \/ j >= i /\ j + 1 \in 1 .. Len(t) /\ t[j + 1] = s[j]
  <2>1. CASE j < i
    <3>1. j \in 1 .. i - 1 /\ j \in 1 .. Len(t)
      BY <1>1, <2>1
    <3> QED
      BY <1>2, <2>1, <3>1
  <2>2. CASE j >= i
    <3>1. j \in i .. Len(s) /\ j + 1 \in 1 .. Len(t)
      BY <1>1, <2>2
    <3> QED
      BY <1>2, <2>2, <3>1
  <2> QED
    BY <1>1, <2>1, <2>2
<1> QED
  BY <1>1, <1>3, <1>4

LEMMA InsertedRange ==
  ASSUME NEW S, NEW s \in Seq(S), NEW t \in Seq(S), NEW i, NEW x, Inserted(s, t, i, x)
  PROVE  Range(t) = Range(s) \cup {x}
<1>1. DOMAIN s = 1 .. Len(s) /\ DOMAIN t = 1 .. Len(t)
  BY LenProperties
<1>2. /\ i \in 1 .. Len(t) /\ t[i] = x
      /\ \A j \in 1 .. Len(t) : \/ j \in 1 .. Len(s) /\ t[j] = s[j]
                                \/ t[j] = x
                                \/ j - 1 \in 1 .. Len(s) /\ t[j] = s[j - 1]
      /\ \A j \in 1 .. Len(s) : \/ j \in 1 .. Len(t) /\ t[j] = s[j]
                                \/ j + 1 \in 1 .. Len(t) /\ t[j + 1] = s[j]
  BY InsertedItems
<1>3. ASSUME NEW y \in Range(t) PROVE y \in Range(s) \cup {x}
  <2>1. PICK j \in 1 .. Len(t) : y = t[j]
    BY <1>1 DEF Range
  <2> QED
    BY <1>1, <1>2, <2>1 DEF Range
<1>4. ASSUME NEW y \in Range(s) \cup {x} PROVE y \in Range(t)
  <2>1. CASE y = x
    BY <1>1, <1>2, <2>1 DEF Range
  <2>2. CASE y \in Range(s)
    <3>1. PICK j \in 1 .. Len(s) : y = s[j]
      BY <1>1, <2>2 DEF Range
    <3> QED
      BY <1>1, <1>2, <3>1 DEF Range
  <2> QED
    BY <2>1, <2>2
<1> QED
  BY <1>3, <1>4

(***************************************************************************)
(* Blocks and chains.                                                      *)
(***************************************************************************)
LEMMA Numbers ==
  /\ Hdr \in Nat /\ Hdr > 0 /\ SubSize \in Nat
  /\ Final \in Nat /\ Final = SubSize - Hdr /\ Final > Hdr
BY PoolAssumption DEF Final

LEMMA BlockFacts ==
  ASSUME NEW b \in Block
  PROVE  /\ b.off \in Nat /\ b.off <= Final /\ b.urid \in Urids /\ b.bit \in BOOLEAN
         /\ b.size \in Nat /\ b.size <= SubSize /\ b.data \in Contents
         /\ Span(b) \in Nat /\ Span(b) = b.size + Hdr /\ Span(b) > 0
BY Numbers DEF Block, Span

LEMMA ChainFacts ==
  ASSUME NEW c \in Seq(Block)
  PROVE  /\ Len(c) \in Nat /\ DOMAIN c = 1 .. Len(c)
         /\ \A i \in 1 .. Len(c) : c[i] \in Block /\ OffsetNext(c, i) \in Nat /\ OffsetNext(c, i) <= Final
<1>1. Len(c) \in Nat /\ DOMAIN c = 1 .. Len(c)
  BY LenProperties
<1>2. ASSUME NEW i \in 1 .. Len(c)
      PROVE  c[i] \in Block /\ OffsetNext(c, i) \in Nat /\ OffsetNext(c, i) <= Final
  <2>1. c[i] \in Block
    BY ElementOfSeq
  <2>2. CASE i = Len(c)
    BY <2>1, <2>2, Numbers DEF OffsetNext
  <2>3. CASE i # Len(c)
    <3>0. Len(c) \in Nat /\ i \in Int /\ i >= 1 /\ i <= Len(c)
      BY <1>1
    <3>1. i + 1 \in 1 .. Len(c)
      BY <2>3, <3>0
    <3>2. c[i + 1] \in Block
      BY <3>1, ElementOfSeq
    <3>3. c[i + 1].off \in Nat /\ c[i + 1].off <= Final
      BY <3>2, BlockFacts
    <3> QED
      BY <2>1, <2>3, <3>3 DEF OffsetNext
  <2> QED
    BY <2>2, <2>3
<1> QED
  BY <1>1, <1>2

LEMMA SpansFacts ==
  ASSUME NEW c \in Seq(Block)
  PROVE  /\ Spans(c) \in Seq(Nat) /\ Len(Spans(c)) = Len(c)
         /\ \A i \in 1 .. Len(c) : Spans(c)[i] = Span(c[i])
<1>1. Len(c) \in Nat /\ DOMAIN c = 1 .. Len(c) /\ \A i \in 1 .. Len(c) : c[i] \in Block
  BY ChainFacts
<1>2. Spans(c) = [i \in 1 .. Len(c) |-> Span(c[i])]
  BY <1>1 DEF Spans
<1>3. \A i \in 1 .. Len(c) : Span(c[i]) \in Nat
  BY <1>1, BlockFacts
<1>4. Spans(c) \in [1 .. Len(c) -> Nat] /\ \A i \in 1 .. Len(c) : Spans(c)[i] = Span(c[i])
  BY <1>2, <1>3
<1> QED
  BY <1>1, <1>4, FunctionIsSeq

LEMMA SpansInserted ==
  ASSUME NEW c \in Seq(Block), NEW d \in Seq(Block), NEW i, NEW b \in Block, Inserted(c, d, i, b)
  PROVE  SumOf(Spans(d)) = SumOf(Spans(c)) + Span(b)
<1>1. /\ Spans(c) \in Seq(Nat) /\ Len(Spans(c)) = Len(c)
      /\ \A j \in 1 .. Len(c) : Spans(c)[j] = Span(c[j])
  BY SpansFacts
<1>2. /\ Spans(d) \in Seq(Nat) /\ Len(Spans(d)) = Len(d)
      /\ \A j \in 1 .. Len(d) : Spans(d)[j] = Span(d[j])
  BY SpansFacts
<1>3. /\ Len(c) \in Nat /\ Len(d) = Len(c) + 1 /\ i \in 1 .. Len(d) /\ d[i] = b
      /\ \A j \in 1 .. i - 1 : d[j] = c[j]
      /\ \A j \in i .. Len(c) : d[j + 1] = c[j]
  BY LenProperties DEF Inserted
<1>4. Inserted(Spans(c), Spans(d), i, Span(b))
  <2>1. /\ \A j \in 1 .. i - 1 : j \in 1 .. Len(c) /\ j \in 1 .. Len(d)
        /\ \A j \in i .. Len(c) : j \in 1 .. Len(c) /\ j + 1 \in 1 .. Len(d)
    BY <1>3
  <2>2. /\ \A j \in 1 .. i - 1 : Spans(d)[j] = Spans(c)[j]
        /\ \A j \in i .. Len(c) : Spans(d)[j + 1] = Spans(c)[j]
        /\ Spans(d)[i] = Span(b)
    BY <1>1, <1>2, <1>3, <2>1
  <2> QED
    BY <1>1, <1>2, <1>3, <2>2 DEF Inserted
<1> QED
  BY <1>1, <1>2, <1>4, BlockFacts, SumInserted

(***************************************************************************)
(* Sub pools.  The blocks lie apart, have urids of their own and leave     *)
(* size_free bytes.                                                        *)
(***************************************************************************)
Apart(c) == \A i \in 1 .. Len(c) : c[i].off + Span(c[i]) <= OffsetNext(c, i)

OwnUrids(c) == \A i, j \in 1 .. Len(c) : c[i].urid = c[j].urid => i = j

SubOK(sp) ==
  /\ sp \in SubPool
  /\ Apart(sp.chain)
  /\ OwnUrids(sp.chain)
  /\ sp.free = Final - SumOf(Spans(sp.chain))

LEMMA SubFacts ==
  ASSUME NEW sp \in SubPool
  PROVE  /\ sp.base \in 1 .. MaxPools /\ sp.free \in Nat /\ sp.free <= Final /\ sp.chain \in Seq(Block)
         /\ sp = [base |-> sp.base, free |-> sp.free, chain |-> sp.chain]
BY Numbers DEF SubPool

LEMMA SubMade ==
  ASSUME NEW base \in 1 .. MaxPools, NEW free \in Nat, free <= Final, NEW chain \in Seq(Block)
  PROVE  [base |-> base, free |-> free, chain |-> chain] \in SubPool
BY Numbers DEF SubPool

(* A block in a chain, at a place between its neighbours.                  *)
Between(c, i, b) ==
  /\ i = 1 \/ c[i - 1].off + Span(c[i - 1]) <= b.off
  /\ b.off + Span(b) <= (IF i = Len(c) + 1 THEN Final ELSE c[i].off)

LEMMA PutApart ==
  ASSUME NEW c \in Seq(Block), NEW d \in Seq(Block), NEW i, NEW b \in Block,
         Inserted(c, d, i, b), Apart(c), Between(c, i, b)
  PROVE  Apart(d)
<1>1. /\ Len(c) \in Nat /\ Len(d) = Len(c) + 1 /\ i \in Nat /\ i >= 1 /\ i <= Len(c) + 1 /\ d[i] = b
      /\ \A j \in 1 .. Len(d) :
           \/ j < i /\ j \in 1 .. Len(c) /\ d[j] = c[j]
           \/ j = i
           \/ j > i /\ j - 1 \in 1 .. Len(c) /\ d[j] = c[j - 1]
  BY InsertedItems, LenProperties
<1>2. SUFFICES ASSUME NEW j \in 1 .. Len(d) PROVE d[j].off + Span(d[j]) <= OffsetNext(d, j)
  BY DEF Apart
<1>3. CASE j < i /\ j + 1 # i
  <2>1. j \in 1 .. Len(c) /\ j + 1 \in 1 .. Len(d) /\ j + 1 < i /\ j # Len(c) /\ j # Len(d)
    BY <1>1, <1>3
  <2>2. d[j] = c[j] /\ d[j + 1] = c[j + 1]
    BY <1>1, <1>3, <2>1
  <2>3. OffsetNext(d, j) = OffsetNext(c, j)
    BY <2>1, <2>2 DEF OffsetNext
  <2> QED
    BY <2>1, <2>2, <2>3 DEF Apart
<1>4. CASE j + 1 = i
  <2>1. j \in 1 .. Len(c) /\ j < i /\ j # Len(d) /\ i # 1 /\ i - 1 = j
    BY <1>1, <1>4
  <2>2. d[j] = c[j]
    BY <1>1, <2>1
  <2>3. OffsetNext(d, j) = b.off
    BY <1>1, <1>4, <2>1 DEF OffsetNext
  <2>4. c[j].off + Span(c[j]) <= b.off
    BY <2>1 DEF Between
  <2> QED
    BY <2>2, <2>3, <2>4
<1>5. CASE j = i
  <2>1. b.off + Span(b) <= (IF i = Len(c) + 1 THEN Final ELSE c[i].off)
    BY DEF Between
  <2>2. CASE i = Len(c) + 1
    BY <1>1, <1>5, <2>1, <2>2 DEF OffsetNext
  <2>3. CASE i # Len(c) + 1
    <3>1. i + 1 \in 1 .. Len(d) /\ i + 1 > i /\ (i + 1) - 1 = i /\ i # Len(d) /\ ~(i + 1 < i) /\ i + 1 # i
      BY <1>1, <2>3
    <3>2. d[i + 1] = c[i]
      <4>1. d[i + 1] = c[(i + 1) - 1]
        BY <1>1, <3>1
      <4> QED
        BY <3>1, <4>1
    <3>3. OffsetNext(d, j) = c[i].off
      BY <1>5, <3>1, <3>2 DEF OffsetNext
    <3> QED
      BY <1>1, <1>5, <2>1, <2>3, <3>3
  <2> QED
    BY <2>2, <2>3
<1>6. CASE j > i
  <2>1. j - 1 \in 1 .. Len(c) /\ d[j] = c[j - 1]
    <3>1. j # i /\ ~(j < i)
      BY <1>1, <1>6
    <3> QED
      BY <1>1, <3>1
  <2>2. OffsetNext(d, j) = OffsetNext(c, j - 1)
    <3>1. CASE j = Len(d)
      <4>1. j - 1 = Len(c)
        BY <1>1, <3>1
      <4> QED
        BY <3>1, <4>1 DEF OffsetNext
    <3>2. CASE j # Len(d)
      <4>3. Len(c) \in Nat /\ Len(d) = Len(c) + 1 /\ i \in Nat /\ i >= 1 /\ j \in Nat /\ j <= Len(d)
        BY <1>1
      <4>1. j + 1 \in 1 .. Len(d) /\ j + 1 # i /\ ~(j + 1 < i) /\ (j + 1) - 1 = j /\ (j - 1) + 1 = j /\ j - 1 # Len(c)
        BY <1>6, <3>2, <4>3
      <4>2. d[j + 1] = c[(j + 1) - 1]
        BY <1>1, <4>1
      <4> QED
        BY <3>2, <4>1, <4>2 DEF OffsetNext
    <3> QED
      BY <3>1, <3>2
  <2> QED
    BY <2>1, <2>2 DEF Apart
<1> QED
  BY <1>1, <1>3, <1>4, <1>5, <1>6

LEMMA RemoveApart ==
  ASSUME NEW c \in Seq(Block), NEW d \in Seq(Block), NEW i, NEW b \in Block,
         Inserted(c, d, i, b), Apart(d)
  PROVE  Apart(c)
<1>1. /\ Len(c) \in Nat /\ Len(d) = Len(c) + 1 /\ i \in Nat /\ i >= 1 /\ i <= Len(c) + 1 /\ d[i] = b
      /\ \A j \in 1 .. Len(c) :
           \/ j < i /\ j \in 1 .. Len(d) /\ d[j] = c[j]
           \/ j >= i /\ j + 1 \in 1 .. Len(d) /\ d[j + 1] = c[j]
  BY InsertedItems, LenProperties
<1>2. \A j \in 1 .. Len(d) : d[j].off + Span(d[j]) <= OffsetNext(d, j)
  BY DEF Apart
<1>3. SUFFICES ASSUME NEW j \in 1 .. Len(c) PROVE c[j].off + Span(c[j]) <= OffsetNext(c, j)
  BY DEF Apart
<1>4. CASE j >= i
  <2>1. j + 1 \in 1 .. Len(d) /\ d[j + 1] = c[j]
    BY <1>1, <1>4
  <2>2. OffsetNext(d, j + 1) = OffsetNext(c, j)
    <3>1. CASE j = Len(c)
      BY <1>1, <3>1 DEF OffsetNext
    <3>2. CASE j # Len(c)
      <4>1. j + 1 \in 1 .. Len(c) /\ ~(j + 1 < i) /\ j + 1 # Len(d)
        BY <1>1, <1>4, <3>2
      <4>2. d[(j + 1) + 1] = c[j + 1]
        BY <1>1, <4>1
      <4> QED
        BY <3>2, <4>1, <4>2 DEF OffsetNext
    <3> QED
      BY <3>1, <3>2
  <2> QED
    BY <1>2, <2>1, <2>2
<1>5. CASE j < i /\ j + 1 # i
  <2>1. j \in 1 .. Len(d) /\ j + 1 \in 1 .. Len(c) /\ j + 1 < i /\ j # Len(c) /\ j # Len(d) /\ ~(j >= i) /\ ~(j + 1 >= i)
    BY <1>1, <1>5
  <2>2. d[j] = c[j] /\ d[j + 1] = c[j + 1]
    BY <1>1, <2>1
  <2>3. OffsetNext(d, j) = OffsetNext(c, j)
    BY <2>1, <2>2 DEF OffsetNext
  <2> QED
    BY <1>2, <2>1, <2>2, <2>3
<1>6. CASE j + 1 = i
  <2>1. j \in 1 .. Len(d) /\ i \in 1 .. Len(d) /\ j # Len(d) /\ ~(j >= i)
    BY <1>1, <1>6
  <2>2. d[j] = c[j]
    BY <1>1, <2>1
  <2>3. OffsetNext(d, j) = b.off
    BY <1>1, <1>6, <2>1 DEF OffsetNext
  <2>4. b.off + Span(b) <= OffsetNext(d, i)
    BY <1>1, <1>2, <2>1
  <2>5. OffsetNext(d, i) = OffsetNext(c, j)
    <3>1. CASE j = Len(c)
      <4>1. i = Len(d)
        BY <1>1, <1>6, <3>1
      <4> QED
        BY <3>1, <4>1 DEF OffsetNext
    <3>2. CASE j # Len(c)
      <4>1. i \in 1 .. Len(c) /\ ~(i < i) /\ i # Len(d)
        BY <1>1, <1>6, <3>2
      <4>2. d[i + 1] = c[i]
        BY <1>1, <4>1
      <4> QED
        BY <1>6, <3>2, <4>1, <4>2 DEF OffsetNext
    <3> QED
      BY <3>1, <3>2
  <2>6. c[j].off + Span(c[j]) <= b.off
    BY <1>2, <2>1, <2>2, <2>3
  <2>7. c[j].off \in Nat /\ Span(c[j]) \in Nat /\ b.off \in Nat /\ Span(b) \in Nat /\ OffsetNext(c, j) \in Nat
    BY ChainFacts, BlockFacts
  <2> QED
    BY <2>4, <2>5, <2>6, <2>7
<1> QED
  BY <1>1, <1>4, <1>5, <1>6

LEMMA PutOwnUrids ==
  ASSUME NEW c \in Seq(Block), NEW d \in Seq(Block), NEW i, NEW b \in Block,
         Inserted(c, d, i, b), OwnUrids(c), \A j \in 1 .. Len(c) : c[j].urid # b.urid
  PROVE  OwnUrids(d)
<1>1. /\ Len(c) \in Nat /\ Len(d) = Len(c) + 1 /\ i \in Nat /\ i >= 1 /\ i <= Len(c) + 1 /\ d[i] = b
      /\ \A j \in 1 .. Len(d) :
           \/ j < i /\ j \in 1 .. Len(c) /\ d[j] = c[j]
           \/ j = i
           \/ j > i /\ j - 1 \in 1 .. Len(c) /\ d[j] = c[j - 1]
  BY InsertedItems, LenProperties
<1>2. SUFFICES ASSUME NEW j \in 1 .. Len(d), NEW k \in 1 .. Len(d), d[j].urid = d[k].urid PROVE j = k
  BY DEF OwnUrids
<1>3. \A m, n \in 1 .. Len(c) : c[m].urid = c[n].urid => m = n
  BY DEF OwnUrids
<1> DEFINE At(x, m) == IF x < i THEN m = x ELSE m = x - 1
<1>4. ASSUME NEW x \in 1 .. Len(d), x # i PROVE \E m \in 1 .. Len(c) : At(x, m) /\ d[x] = c[m]
  <2>1. CASE x < i
    BY <1>1, <2>1
  <2>2. CASE ~(x < i)
    <3>1. x - 1 \in 1 .. Len(c) /\ d[x] = c[x - 1]
      BY <1>1, <1>4, <2>2
    <3> QED
      BY <2>2, <3>1
  <2> QED
    BY <2>1, <2>2
<1>5. CASE j = i /\ k = i
  BY <1>5
<1>6. CASE j = i /\ k # i
  BY <1>1, <1>2, <1>4, <1>6
<1>7. CASE j # i /\ k = i
  BY <1>1, <1>2, <1>4, <1>7
<1>8. CASE j # i /\ k # i
  <2>1. PICK m \in 1 .. Len(c) : At(j, m) /\ d[j] = c[m]
    BY <1>4, <1>8
  <2>2. PICK n \in 1 .. Len(c) : At(k, n) /\ d[k] = c[n]
    BY <1>4, <1>8
  <2>3. m = n
    BY <1>2, <1>3, <2>1, <2>2
  <2>4. i \in Nat /\ j \in Nat /\ k \in Nat
    BY <1>1
  <2> QED
    BY <1>8, <2>1, <2>2, <2>3, <2>4
<1> QED
  BY <1>5, <1>6, <1>7, <1>8

LEMMA RemoveOwnUrids ==
  ASSUME NEW c \in Seq(Block), NEW d \in Seq(Block), NEW i, NEW b \in Block,
         Inserted(c, d, i, b), OwnUrids(d)
  PROVE  OwnUrids(c) /\ \A j \in 1 .. Len(c) : c[j].urid # b.urid
<1>1. /\ Len(c) \in Nat /\ Len(d) = Len(c) + 1 /\ i \in Nat /\ i \in 1 .. Len(d) /\ d[i] = b
      /\ \A j \in 1 .. Len(c) :
           \/ j < i /\ j \in 1 .. Len(d) /\ d[j] = c[j]
           \/ j >= i /\ j + 1 \in 1 .. Len(d) /\ d[j + 1] = c[j]
  BY InsertedItems, LenProperties
<1>2. \A m, n \in 1 .. Len(d) : d[m].urid = d[n].urid => m = n
  BY DEF OwnUrids
<1> DEFINE At(x, m) == IF x < i THEN m = x ELSE m = x + 1
<1>3. ASSUME NEW x \in 1 .. Len(c) PROVE \E m \in 1 .. Len(d) : At(x, m) /\ m # i /\ c[x] = d[m]
  <2>1. x \in Nat /\ i \in Nat
    BY <1>1
  <2>2. CASE x < i
    BY <1>1, <2>1, <2>2
  <2>3. CASE ~(x < i)
    <3>1. x + 1 \in 1 .. Len(d) /\ d[x + 1] = c[x]
      BY <1>1, <2>3
    <3>2. x + 1 # i
      BY <2>1, <2>3
    <3> QED
      BY <2>3, <3>1, <3>2
  <2> QED
    BY <2>2, <2>3
<1>4. ASSUME NEW j \in 1 .. Len(c) PROVE c[j].urid # b.urid
  <2>1. PICK m \in 1 .. Len(d) : m # i /\ c[j] = d[m]
    BY <1>3
  <2> QED
    BY <1>1, <1>2, <2>1
<1>5. ASSUME NEW j \in 1 .. Len(c), NEW k \in 1 .. Len(c), c[j].urid = c[k].urid PROVE j = k
  <2>1. PICK m \in 1 .. Len(d) : At(j, m) /\ c[j] = d[m]
    BY <1>3
  <2>2. PICK n \in 1 .. Len(d) : At(k, n) /\ c[k] = d[n]
    BY <1>3
  <2>3. m = n
    BY <1>2, <1>5, <2>1, <2>2
  <2>4. i \in Nat /\ j \in Nat /\ k \in Nat
    BY <1>1
  <2> QED
    BY <2>1, <2>2, <2>3, <2>4
<1> QED
  BY <1>4, <1>5 DEF OwnUrids

LEMMA UridsOfSub ==
  ASSUME NEW sp, sp.chain \in Seq(Block), NEW u
  PROVE  u \in UridsOf(sp) <=> \E i \in 1 .. Len(sp.chain) : sp.chain[i].urid = u
BY ChainFacts DEF UridsOf, Range

(* A block is put in a sub pool.                                           *)
PutIn(sp, q, b) ==
  /\ SubOK(q) /\ q.base = sp.base
  /\ q.free = sp.free - Span(b) /\ Len(q.chain) = Len(sp.chain) + 1
  /\ Range(q.chain) = Range(sp.chain) \cup {b}

LEMMA PutBlockOK ==
  ASSUME NEW sp, SubOK(sp), NEW i \in 1 .. Len(sp.chain) + 1,
         NEW off \in 0 .. Final, NEW urid \in Urids, NEW bit \in BOOLEAN, NEW size \in 0 .. SubSize,
         NEW data \in Contents, NEW b,
         b = [off |-> off, urid |-> urid, bit |-> bit, size |-> size, data |-> data],
         urid \notin UridsOf(sp), size + Hdr <= sp.free, Between(sp.chain, i, b)
  PROVE  PutIn(sp, PutBlock(sp, i, off, urid, bit, size, data), b)
<1>1. b \in Block /\ b.urid = urid /\ b.size = size /\ Span(b) = size + Hdr /\ Span(b) \in Nat
  <2>1. b \in Block /\ b.urid = urid /\ b.size = size
    BY DEF Block
  <2> QED
    BY <2>1, BlockFacts
<1>2. /\ sp \in SubPool /\ Apart(sp.chain) /\ OwnUrids(sp.chain) /\ sp.free = Final - SumOf(Spans(sp.chain))
      /\ sp.base \in 1 .. MaxPools /\ sp.free \in Nat /\ sp.free <= Final /\ sp.chain \in Seq(Block)
      /\ sp = [base |-> sp.base, free |-> sp.free, chain |-> sp.chain]
  BY SubFacts DEF SubOK
<1>3. PICK d : d = InsertAt(sp.chain, i, b)
  OBVIOUS
<1>4. d \in Seq(Block) /\ Inserted(sp.chain, d, i, b)
  BY <1>1, <1>2, <1>3, InsertFacts
<1>5. PICK f : f = sp.free - (size + Hdr)
  OBVIOUS
<1>6. PICK q : q = PutBlock(sp, i, off, urid, bit, size, data)
  OBVIOUS
<1>7. q = [sp EXCEPT !.chain = d, !.free = f]
  BY <1>3, <1>5, <1>6 DEF PutBlock
<1>8. q = [base |-> sp.base, free |-> f, chain |-> d]
  BY <1>2, <1>7
<1>9. f \in Nat /\ f <= Final
  BY <1>2, <1>5, Numbers
<1>10. q \in SubPool /\ q.base = sp.base /\ q.free = f /\ q.chain = d
  BY <1>2, <1>4, <1>8, <1>9, SubMade
<1>11. Apart(d)
  BY <1>1, <1>2, <1>4, PutApart
<1>12. OwnUrids(d)
  <2>1. \A j \in 1 .. Len(sp.chain) : sp.chain[j].urid # b.urid
    BY <1>1, <1>2, UridsOfSub
  <2> QED
    BY <1>1, <1>2, <1>4, <2>1, PutOwnUrids, SMTT(30)
<1>13. f = Final - SumOf(Spans(d))
  <2>1. SumOf(Spans(d)) = SumOf(Spans(sp.chain)) + Span(b)
    BY <1>1, <1>2, <1>4, SpansInserted
  <2>2. SumOf(Spans(sp.chain)) \in Nat
    BY <1>2, SpansFacts, SumsFacts
  <2>3. PICK x : x = SumOf(Spans(sp.chain))
    OBVIOUS
  <2>4. x \in Nat /\ Final \in Nat /\ size + Hdr \in Nat /\ sp.free = Final - x
    BY <1>1, <1>2, <2>2, <2>3, Numbers
  <2>5. Final - (x + (size + Hdr)) = (Final - x) - (size + Hdr)
    BY <2>4
  <2>6. SumOf(Spans(d)) = x + (size + Hdr)
    BY <1>1, <2>1, <2>3
  <2> QED
    BY <1>5, <2>4, <2>5, <2>6
<1>14. Range(d) = Range(sp.chain) \cup {b} /\ Len(d) = Len(sp.chain) + 1
  <2>1. Range(d) = Range(sp.chain) \cup {b}
    BY <1>2, <1>4, InsertedRange
  <2> QED
    BY <1>4, <2>1 DEF Inserted
<1> QED
  BY <1>1, <1>5, <1>6, <1>10, <1>11, <1>12, <1>13, <1>14 DEF PutIn, SubOK

LEMMA FindFacts ==
  ASSUME NEW sp, sp.chain \in Seq(Block), OwnUrids(sp.chain), NEW u \in UridsOf(sp)
  PROVE  Find(sp, u) \in 1 .. Len(sp.chain) /\ sp.chain[Find(sp, u)].urid = u
<1>1. Len(sp.chain) \in Nat /\ DOMAIN sp.chain = 1 .. Len(sp.chain)
  BY LenProperties
<1>2. PICK i \in 1 .. Len(sp.chain) : sp.chain[i].urid = u
  BY UridsOfSub
<1>3. \A j \in 1 .. i - 1 : sp.chain[j].urid # u
  <2> SUFFICES ASSUME NEW j \in 1 .. i - 1, sp.chain[j].urid = u PROVE FALSE
    OBVIOUS
  <2>1. j \in 1 .. Len(sp.chain) /\ j # i
    BY <1>1
  <2> QED
    BY <1>2, <2>1 DEF OwnUrids
<1>4. \E k \in DOMAIN sp.chain : sp.chain[k].urid = u /\ \A j \in 1 .. k - 1 : sp.chain[j].urid # u
  BY <1>1, <1>2, <1>3
<1>5. /\ Find(sp, u) \in DOMAIN sp.chain
      /\ sp.chain[Find(sp, u)].urid = u
  BY <1>4 DEF Find
<1> QED
  BY <1>1, <1>5

(* A block is taken out of a sub pool.                                     *)
TakenFrom(sp, q, b) ==
  /\ SubOK(q) /\ q.base = sp.base
  /\ b \in Range(sp.chain) /\ b \in Block
  /\ q.free = sp.free + Span(b) /\ Len(sp.chain) = Len(q.chain) + 1
  /\ Range(q.chain) = {x \in Range(sp.chain) : x.urid # b.urid}

LEMMA SubFreeOK ==
  ASSUME NEW sp, SubOK(sp), NEW u \in UridsOf(sp)
  PROVE  \E b : b.urid = u /\ TakenFrom(sp, SubFree(sp, u), b)
<1>1. /\ sp \in SubPool /\ Apart(sp.chain) /\ OwnUrids(sp.chain) /\ sp.free = Final - SumOf(Spans(sp.chain))
      /\ sp.base \in 1 .. MaxPools /\ sp.free \in Nat /\ sp.free <= Final /\ sp.chain \in Seq(Block)
      /\ sp = [base |-> sp.base, free |-> sp.free, chain |-> sp.chain]
  BY SubFacts DEF SubOK
<1>2. PICK i : i = Find(sp, u)
  OBVIOUS
<1>3. i \in 1 .. Len(sp.chain) /\ sp.chain[i].urid = u /\ sp.chain[i] \in Range(sp.chain)
  <2>1. i \in 1 .. Len(sp.chain) /\ sp.chain[i].urid = u
    BY <1>1, <1>2, FindFacts
  <2> QED
    BY <1>1, <2>1, LenProperties DEF Range
<1>4. PICK b : b = sp.chain[i]
  OBVIOUS
<1>5. b \in Block /\ Span(b) \in Nat
  BY <1>1, <1>3, <1>4, ElementOfSeq, BlockFacts
<1>6. PICK d : d = RemoveAt(sp.chain, i)
  OBVIOUS
<1>7. d \in Seq(Block) /\ Inserted(d, sp.chain, i, b)
  BY <1>1, <1>3, <1>4, <1>6, RemoveFacts
<1>8. PICK f : f = sp.free + Span(b)
  OBVIOUS
<1>9. PICK q : q = SubFree(sp, u)
  OBVIOUS
<1>10. q = [sp EXCEPT !.chain = d, !.free = f]
  BY <1>2, <1>4, <1>6, <1>8, <1>9 DEF SubFree
<1>11. q = [base |-> sp.base, free |-> f, chain |-> d]
  BY <1>1, <1>10
<1>12. f = Final - SumOf(Spans(d)) /\ f \in Nat /\ f <= Final
  <2>1. PICK x : x = SumOf(Spans(d))
    OBVIOUS
  <2>2. SumOf(Spans(sp.chain)) = x + Span(b)
    BY <1>1, <1>5, <1>7, <2>1, SpansInserted
  <2>3. x \in Nat /\ Final \in Nat /\ Span(b) \in Nat /\ sp.free = Final - (x + Span(b)) /\ sp.free \in Nat
    <3>1. SumOf(Spans(d)) \in Nat
      BY <1>7, SpansFacts, SumsFacts
    <3> QED
      BY <1>1, <1>5, <2>1, <2>2, <3>1, Numbers
  <2>4. sp.free + Span(b) = Final - x
    BY <2>3
  <2> QED
    BY <1>8, <2>1, <2>3, <2>4
<1>13. q \in SubPool /\ q.base = sp.base /\ q.free = f /\ q.chain = d
  BY <1>1, <1>7, <1>11, <1>12, SubMade
<1>14. Apart(d)
  BY <1>1, <1>5, <1>7, RemoveApart
<1>15. OwnUrids(d) /\ \A j \in 1 .. Len(d) : d[j].urid # b.urid
  BY <1>1, <1>5, <1>7, RemoveOwnUrids
<1>16. Range(sp.chain) = Range(d) \cup {b}
  BY <1>1, <1>7, InsertedRange
<1>17. Range(d) = {x \in Range(sp.chain) : x.urid # b.urid}
  <2>1. \A x \in Range(d) : x.urid # b.urid
    <3>1. DOMAIN d = 1 .. Len(d)
      BY <1>7, LenProperties
    <3> QED
      BY <1>15, <3>1 DEF Range
  <2> QED
    BY <1>16, <2>1
<1>18. Len(sp.chain) = Len(d) + 1
  BY <1>7 DEF Inserted
<1>19. SubOK(q)
  BY <1>12, <1>13, <1>14, <1>15 DEF SubOK
<1>20. TakenFrom(sp, q, b)
  BY <1>3, <1>4, <1>5, <1>8, <1>13, <1>17, <1>18, <1>19 DEF TakenFrom
<1> QED
  BY <1>3, <1>4, <1>9, <1>20

LEMMA SumsBelow ==
  ASSUME NEW s \in Seq(Nat), NEW n \in 0 .. Len(s)
  PROVE  Sums(s)[n] <= SumOf(s)
<1>1. PICK p : p = Sums(s)
  OBVIOUS
<1>2. PICK k : k = Len(s)
  OBVIOUS
<1>3. /\ k \in Nat /\ SumOf(s) = p[k] /\ \A m \in 0 .. k : p[m] \in Nat
      /\ \A m \in 1 .. k : p[m] = p[m - 1] + s[m] /\ s[m] \in Nat
  BY <1>1, <1>2, SumsFacts, ElementOfSeq
<1> DEFINE M == {m \in Nat : k - m \in 0 .. k => p[k - m] <= p[k]}
<1>4. 0 \in M
  <2>1. k - 0 = k /\ k \in 0 .. k
    BY <1>3
  <2>2. p[k] <= p[k]
    BY <1>3, <2>1
  <2> QED
    BY <2>1, <2>2
<1>5. ASSUME NEW m \in Nat, m \in M PROVE m + 1 \in M
  <2> SUFFICES ASSUME k - (m + 1) \in 0 .. k PROVE p[k - (m + 1)] <= p[k]
    OBVIOUS
  <2>1. PICK j : j = k - m
    OBVIOUS
  <2>2. j \in 1 .. k /\ j \in 0 .. k /\ j - 1 \in 0 .. k /\ k - (m + 1) = j - 1 /\ k \in 0 .. k
    BY <1>3, <2>1
  <2>3. p[j] <= p[k] /\ p[j] = p[j - 1] + s[j] /\ s[j] \in Nat
    BY <1>3, <1>5, <2>1, <2>2
  <2>4. p[j - 1] \in Nat /\ p[j] \in Nat /\ p[k] \in Nat
    BY <1>3, <2>2
  <2>5. p[j - 1] <= p[k]
    BY <2>3, <2>4
  <2> QED
    BY <2>2, <2>5
<1>6. \A m \in Nat : m \in M
  <2> HIDE DEF M
  <2> QED
    BY <1>4, <1>5, NatSetInduction
<1>7. k - n \in Nat /\ k - (k - n) = n /\ n \in 0 .. k
  BY <1>2, <1>3
<1>8. p[k - (k - n)] <= p[k]
  BY <1>6, <1>7
<1> QED
  BY <1>1, <1>3, <1>7, <1>8

(***************************************************************************)
(* What a block is to the rest of the system: its urid and its cell.       *)
(***************************************************************************)
Entry(b) == <<b.urid, [size |-> b.size, bit |-> b.bit, data |-> b.data]>>

EntriesOf(sp) == {Entry(b) : b \in Range(sp.chain)}

LEMMA EntriesPut ==
  ASSUME NEW sp, NEW q, NEW b, Range(q.chain) = Range(sp.chain) \cup {b}
  PROVE  EntriesOf(q) = EntriesOf(sp) \cup {Entry(b)}
BY DEF EntriesOf

LEMMA EntriesOfChain ==
  ASSUME NEW sp, sp.chain \in Seq(Block)
  PROVE  EntriesOf(sp) = {Entry(sp.chain[i]) : i \in 1 .. Len(sp.chain)}
BY LenProperties DEF EntriesOf, Range

LEMMA MovedBlock ==
  ASSUME NEW b \in Block, NEW o \in Nat, o <= Final, NEW d, d = [b EXCEPT !.off = o]
  PROVE  /\ d \in Block /\ d.off = o /\ d.urid = b.urid /\ d.size = b.size
         /\ Span(d) = Span(b) /\ Entry(d) = Entry(b)
<1>1. /\ d = [off |-> o, urid |-> b.urid, bit |-> b.bit, size |-> b.size, data |-> b.data]
      /\ b.urid \in Urids /\ b.bit \in BOOLEAN /\ b.size \in 0 .. SubSize /\ b.data \in Contents
  BY DEF Block
<1>2. o \in 0 .. Final
  BY Numbers
<1> QED
  BY <1>1, <1>2 DEF Block, Span, Entry

LEMMA CompactOK ==
  ASSUME NEW sp, SubOK(sp)
  PROVE  /\ SubOK(Compact(sp)) /\ Compact(sp).base = sp.base /\ Compact(sp).free = sp.free
         /\ Len(Compact(sp).chain) = Len(sp.chain)
         /\ EntriesOf(Compact(sp)) = EntriesOf(sp) /\ UridsOf(Compact(sp)) = UridsOf(sp)
         /\ Len(sp.chain) # 0 =>
              Hole(Compact(sp).chain, Len(sp.chain)) = sp.free
<1>1. /\ sp \in SubPool /\ Apart(sp.chain) /\ OwnUrids(sp.chain) /\ sp.free = Final - SumOf(Spans(sp.chain))
      /\ sp.base \in 1 .. MaxPools /\ sp.free \in Nat /\ sp.free <= Final /\ sp.chain \in Seq(Block)
      /\ sp = [base |-> sp.base, free |-> sp.free, chain |-> sp.chain]
  BY SubFacts DEF SubOK
<1>2. PICK c : c = sp.chain
  OBVIOUS
<1>3. PICK n : n = Len(c)
  OBVIOUS
<1>4. PICK s : s = Spans(c)
  OBVIOUS
<1>5. PICK before : before = Sums(s)
  OBVIOUS
<1>6. n \in Nat /\ DOMAIN c = 1 .. n /\ \A i \in 1 .. n : c[i] \in Block
  BY <1>1, <1>2, <1>3, ChainFacts
<1>7. s \in Seq(Nat) /\ Len(s) = n /\ \A i \in 1 .. n : s[i] = Span(c[i])
  BY <1>1, <1>2, <1>3, <1>4, SpansFacts
<1>8. PICK d : d = [i \in 1 .. n |-> [c[i] EXCEPT !.off = before[i - 1]]]
  OBVIOUS
<1>9. PICK q : q = Compact(sp)
  OBVIOUS
<1>10. q = [sp EXCEPT !.chain = d]
  BY <1>2, <1>4, <1>5, <1>6, <1>8, <1>9 DEF Compact
<1>11. q = [base |-> sp.base, free |-> sp.free, chain |-> d]
  BY <1>1, <1>10
<1>12. /\ before[0] = 0 /\ SumOf(s) = before[n] /\ before[n] = Final - sp.free
       /\ \A i \in 0 .. n : before[i] \in Nat /\ before[i] <= before[n]
       /\ \A i \in 1 .. n : i - 1 \in 0 .. n /\ before[i] = before[i - 1] + Span(c[i])
  <2>1. /\ before[0] = 0 /\ SumOf(s) = before[n] /\ SumOf(s) \in Nat
        /\ \A i \in 0 .. n : before[i] \in Nat
        /\ \A i \in 1 .. n : i - 1 \in 0 .. n /\ before[i] = before[i - 1] + s[i]
    BY <1>5, <1>7, SumsFacts
  <2>2. \A i \in 0 .. n : before[i] <= SumOf(s)
    BY <1>5, <1>7, SumsBelow
  <2>3. SumOf(s) = Final - sp.free
    BY <1>1, <1>2, <1>4, <2>1, Numbers
  <2> QED
    BY <1>7, <2>1, <2>2, <2>3
<1>13. ASSUME NEW i \in 1 .. n
       PROVE  /\ d[i] \in Block /\ d[i].off = before[i - 1] /\ d[i].urid = c[i].urid
              /\ Span(d[i]) = Span(c[i]) /\ Entry(d[i]) = Entry(c[i])
  <2>1. PICK o : o = before[i - 1]
    OBVIOUS
  <2>2. o \in Nat /\ o <= Final
    <3>1. i - 1 \in 0 .. n /\ n \in 0 .. n
      BY <1>6
    <3>2. o \in Nat /\ o <= before[n] /\ before[n] \in Nat /\ before[n] = Final - sp.free
      BY <1>12, <2>1, <3>1
    <3> QED
      BY <1>1, <3>2, Numbers
  <2>3. c[i] \in Block /\ d[i] = [c[i] EXCEPT !.off = o]
    BY <1>6, <1>8, <2>1
  <2> QED
    BY <2>1, <2>2, <2>3, MovedBlock
<1>14. d \in Seq(Block) /\ Len(d) = n
  <2>1. d \in [1 .. n -> Block]
    BY <1>8, <1>13
  <2> QED
    BY <1>6, <2>1, FunctionIsSeq
<1>15. q \in SubPool /\ q.base = sp.base /\ q.free = sp.free /\ q.chain = d
  BY <1>1, <1>11, <1>14, SubMade
<1>16. \A i \in 1 .. n : OffsetNext(d, i) >= before[i] /\ d[i].off + Span(d[i]) = before[i]
  <2> SUFFICES ASSUME NEW i \in 1 .. n
               PROVE  OffsetNext(d, i) >= before[i] /\ d[i].off + Span(d[i]) = before[i]
    OBVIOUS
  <2>1. d[i].off + Span(d[i]) = before[i]
    BY <1>12, <1>13
  <2>2. CASE i = n
    BY <1>1, <1>6, <1>12, <1>14, <2>1, <2>2, Numbers DEF OffsetNext
  <2>3. CASE i # n
    <3>1. i + 1 \in 1 .. n /\ (i + 1) - 1 = i /\ i \in 0 .. n
      BY <1>6, <2>3
    <3>2. d[i + 1].off = before[i] /\ before[i] \in Nat
      BY <1>12, <1>13, <3>1
    <3> QED
      BY <1>14, <2>1, <2>3, <3>2 DEF OffsetNext
  <2> QED
    BY <2>2, <2>3
<1>17. Apart(d)
  <2> SUFFICES ASSUME NEW i \in 1 .. n PROVE d[i].off + Span(d[i]) <= OffsetNext(d, i)
    BY <1>14 DEF Apart
  <2>1. OffsetNext(d, i) \in Nat /\ OffsetNext(d, i) >= before[i] /\ d[i].off + Span(d[i]) = before[i] /\ before[i] \in Nat
    BY <1>12, <1>14, <1>16, ChainFacts
  <2> QED
    BY <2>1
<1>18. OwnUrids(d)
  BY <1>1, <1>2, <1>3, <1>13, <1>14 DEF OwnUrids
<1>19. Spans(d) = s
  <2>1. Spans(d) \in Seq(Nat) /\ Len(Spans(d)) = n /\ \A i \in 1 .. n : Spans(d)[i] = Span(d[i])
    BY <1>14, SpansFacts
  <2>2. PICK t : t = Spans(d)
    OBVIOUS
  <2>3. t \in Seq(Nat) /\ s \in Seq(Nat) /\ Len(t) = Len(s) /\ \A i \in 1 .. Len(t) : t[i] = s[i]
    BY <1>7, <1>13, <2>1, <2>2
  <2>4. t = s
    BY <2>3, SeqEqual
  <2> QED
    BY <2>2, <2>4
<1>20. SubOK(q)
  BY <1>1, <1>2, <1>4, <1>15, <1>17, <1>18, <1>19 DEF SubOK
<1>21. EntriesOf(q) = EntriesOf(sp)
  <2>1. EntriesOf(q) = {Entry(d[i]) : i \in 1 .. n}
    BY <1>14, <1>15, EntriesOfChain
  <2>2. EntriesOf(sp) = {Entry(c[i]) : i \in 1 .. n}
    BY <1>1, <1>2, <1>3, EntriesOfChain
  <2> QED
    BY <1>13, <2>1, <2>2
<1>22. UridsOf(q) = UridsOf(sp)
  <2>1. UridsOf(q) = {d[i].urid : i \in 1 .. n}
    BY <1>14, <1>15, LenProperties DEF UridsOf, Range
  <2>2. UridsOf(sp) = {c[i].urid : i \in 1 .. n}
    BY <1>2, <1>6 DEF UridsOf, Range
  <2> QED
    BY <1>13, <2>1, <2>2
<1>23. ASSUME n # 0 PROVE Hole(d, n) = sp.free
  <2>1. n \in 1 .. n
    BY <1>6, <1>23
  <2>2. d[n].off + Span(d[n]) = before[n] /\ OffsetNext(d, n) = Final
    BY <1>14, <1>16, <2>1 DEF OffsetNext
  <2>3. Hole(d, n) = Final - before[n]
    BY <2>2 DEF Hole
  <2>4. Final \in Nat /\ sp.free \in Nat /\ before[n] = Final - sp.free
    BY <1>1, <1>12, Numbers
  <2> QED
    BY <2>3, <2>4
<1> QED
  BY <1>2, <1>3, <1>9, <1>14, <1>15, <1>20, <1>21, <1>22, <1>23

LEMMA MinFacts ==
  ASSUME NEW S \in SUBSET Nat, S # {}
  PROVE  Min(S) \in S /\ \A x \in S : Min(S) <= x
<1>1. \E x \in S : \A y \in S : x <= y
  BY Least
<1> QED
  BY <1>1 DEF Min

MadeOf(b, urid, bit, size, data) ==
  /\ b \in Block
  /\ b.urid = urid /\ b.bit = bit /\ b.size = size /\ b.data = data

LEMMA BlockMade ==
  ASSUME NEW off \in Nat, off <= Final, NEW urid \in Urids, NEW bit \in BOOLEAN,
         NEW size \in Nat, size <= SubSize, NEW data \in Contents, NEW b,
         b = [off |-> off, urid |-> urid, bit |-> bit, size |-> size, data |-> data]
  PROVE  MadeOf(b, urid, bit, size, data) /\ b.off = off /\ Span(b) = size + Hdr
<1>1. off \in 0 .. Final /\ size \in 0 .. SubSize
  BY Numbers
<1> QED
  BY <1>1 DEF MadeOf, Block, Span

LEMMA PutInFrontOK ==
  ASSUME NEW sp, SubOK(sp), NEW urid \in Urids, urid \notin UridsOf(sp), NEW bit \in BOOLEAN,
         NEW size \in Nat, size + Hdr <= sp.free, NEW data \in Contents,
         FitsInFront(sp, size)
  PROVE  \E b : /\ MadeOf(b, urid, bit, size, data)
                /\ PutIn(sp, PutBlock(sp, 1, 0, urid, bit, size, data), b)
<1>1. /\ sp.free \in Nat /\ sp.free <= Final /\ sp.chain \in Seq(Block)
      /\ Len(sp.chain) \in Nat
  BY SubFacts, LenProperties DEF SubOK
<1>2. 0 \in Nat /\ 0 <= Final /\ 0 \in 0 .. Final /\ size <= SubSize /\ size \in 0 .. SubSize
  BY <1>1, Numbers
<1>3. PICK b : b = [off |-> 0, urid |-> urid, bit |-> bit, size |-> size, data |-> data]
  OBVIOUS
<1>4. MadeOf(b, urid, bit, size, data) /\ b.off = 0 /\ Span(b) = size + Hdr
  BY <1>2, <1>3, BlockMade
<1>5. 1 \in 1 .. Len(sp.chain) + 1
  BY <1>1
<1>6. Between(sp.chain, 1, b)
  <2>1. size + Hdr \in Nat /\ size + Hdr <= Final
    BY <1>1, Numbers
  <2>2. CASE Len(sp.chain) = 0
    <3>1. 1 = Len(sp.chain) + 1
      BY <2>2
    <3> QED
      BY <1>4, <2>1, <3>1 DEF Between
  <2>3. CASE Len(sp.chain) # 0
    <3>1. sp.chain # <<>>
      BY <2>3
    <3>2. ~IsEmpty(sp)
      BY <3>1 DEF IsEmpty
    <3>3. sp.chain[1].off >= size + Hdr
      BY <3>2 DEF FitsInFront, OffsetBegin
    <3>4. 1 # Len(sp.chain) + 1 /\ 1 \in 1 .. Len(sp.chain)
      BY <1>1, <2>3
    <3>5. sp.chain[1].off \in Nat
      BY <1>1, <3>4, ChainFacts, BlockFacts
    <3> QED
      BY <1>4, <2>1, <3>3, <3>4, <3>5 DEF Between
  <2> QED
    BY <2>2, <2>3
<1>7. PutIn(sp, PutBlock(sp, 1, 0, urid, bit, size, data), b)
  BY <1>2, <1>3, <1>5, <1>6, PutBlockOK
<1> QED
  BY <1>4, <1>7

LEMMA PutBehindOK ==
  ASSUME NEW sp, SubOK(sp), NEW urid \in Urids, urid \notin UridsOf(sp), NEW bit \in BOOLEAN,
         NEW size \in Nat, size + Hdr <= sp.free, NEW data \in Contents,
         Roomy(sp, size) # {}
  PROVE  \E b : /\ MadeOf(b, urid, bit, size, data)
                /\ PutIn(sp, PutBehind(sp, urid, bit, size, data), b)
<1>1. PICK c : c = sp.chain
  OBVIOUS
<1>2. /\ sp.free \in Nat /\ sp.free <= Final /\ c \in Seq(Block)
      /\ Len(c) \in Nat /\ DOMAIN c = 1 .. Len(c)
  BY <1>1, SubFacts, LenProperties DEF SubOK
<1>3. size <= SubSize /\ size \in 0 .. SubSize /\ size + Hdr \in Nat
  BY <1>2, Numbers
<1>4. PICK i : i = Min(Roomy(sp, size))
  OBVIOUS
<1>5. i \in 1 .. Len(c) /\ Hole(c, i) >= size + Hdr
  <2>1. Roomy(sp, size) \in SUBSET Nat
    BY <1>1, <1>2 DEF Roomy
  <2>2. i \in Roomy(sp, size)
    BY <1>4, <2>1, MinFacts
  <2> QED
    BY <1>1, <1>2, <2>2 DEF Roomy
<1>6. PICK off : off = c[i].off + Span(c[i])
  OBVIOUS
<1>7. off \in Nat /\ OffsetNext(c, i) \in Nat /\ OffsetNext(c, i) <= Final /\ off + (size + Hdr) <= OffsetNext(c, i)
  <2>1. /\ c[i].off \in Nat /\ Span(c[i]) \in Nat
        /\ OffsetNext(c, i) \in Nat /\ OffsetNext(c, i) <= Final
    BY <1>2, <1>5, ChainFacts, BlockFacts
  <2>2. OffsetNext(c, i) - off >= size + Hdr /\ off \in Nat
    BY <1>5, <1>6, <2>1 DEF Hole
  <2> QED
    BY <1>3, <2>1, <2>2
<1>8. off <= Final /\ off \in 0 .. Final
  BY <1>3, <1>7, Numbers
<1>9. PICK b : b = [off |-> off, urid |-> urid, bit |-> bit, size |-> size, data |-> data]
  OBVIOUS
<1>10. MadeOf(b, urid, bit, size, data) /\ b.off = off /\ Span(b) = size + Hdr
  BY <1>3, <1>7, <1>8, <1>9, BlockMade
<1>11. i + 1 \in 1 .. Len(c) + 1 /\ (i + 1) - 1 = i /\ (i + 1 = Len(c) + 1 <=> i = Len(c))
  <2>1. Len(c) \in Nat /\ i \in Nat /\ i >= 1 /\ i <= Len(c)
    BY <1>2, <1>5
  <2> QED
    BY <2>1
<1>12. Between(c, i + 1, b)
  <2>1. (IF i + 1 = Len(c) + 1 THEN Final ELSE c[i + 1].off) = OffsetNext(c, i)
    BY <1>11 DEF OffsetNext
  <2>2. c[(i + 1) - 1].off + Span(c[(i + 1) - 1]) <= b.off
    BY <1>6, <1>7, <1>10, <1>11
  <2>3. b.off + Span(b) <= OffsetNext(c, i)
    BY <1>7, <1>10
  <2> QED
    BY <2>1, <2>2, <2>3 DEF Between
<1>13. PutIn(sp, PutBlock(sp, i + 1, off, urid, bit, size, data), b)
  BY <1>1, <1>3, <1>8, <1>9, <1>11, <1>12, PutBlockOK
<1>14. PutBehind(sp, urid, bit, size, data) = PutBlock(sp, i + 1, off, urid, bit, size, data)
  BY <1>1, <1>4, <1>6 DEF PutBehind
<1> QED
  BY <1>10, <1>13, <1>14

(* Once compacted, the last hole is all the free space.                    *)
LEMMA CompactRoomy ==
  ASSUME NEW sp, SubOK(sp), NEW size \in Nat, size + Hdr <= sp.free, ~FitsInFront(sp, size)
  PROVE  Roomy(Compact(sp), size) # {}
<1>1. sp.chain \in Seq(Block) /\ Len(sp.chain) \in Nat
  BY SubFacts, LenProperties DEF SubOK
<1>2. Len(sp.chain) # 0
  <2>1. sp.chain # <<>>
    BY DEF FitsInFront, IsEmpty
  <2> QED
    BY <1>1, <2>1, EmptySeq
<1>3. /\ Compact(sp).chain \in Seq(Block) /\ Len(Compact(sp).chain) = Len(sp.chain)
      /\ Hole(Compact(sp).chain, Len(sp.chain)) = sp.free
  BY <1>2, CompactOK, SubFacts DEF SubOK
<1>4. Len(sp.chain) \in DOMAIN Compact(sp).chain
  BY <1>1, <1>2, <1>3, LenProperties
<1>5. sp.free >= size + Hdr
  BY SubFacts, Numbers DEF SubOK
<1> QED
  BY <1>3, <1>4, <1>5 DEF Roomy

(* A request of a sub pool is served.                                      *)
Served(sp, q, b) ==
  /\ SubOK(q) /\ q.base = sp.base
  /\ q.free = sp.free - Span(b) /\ Len(q.chain) = Len(sp.chain) + 1
  /\ EntriesOf(q) = EntriesOf(sp) \cup {Entry(b)}

LEMMA MallocWithUridOK ==
  ASSUME NEW sp, SubOK(sp), NEW urid \in Urids, urid \notin UridsOf(sp), NEW bit \in BOOLEAN,
         NEW size \in Nat, size + Hdr <= sp.free, NEW data \in Contents
  PROVE  \E b : /\ MadeOf(b, urid, bit, size, data)
                /\ Served(sp, MallocWithUrid(sp, urid, bit, size, data), b)
                /\ FitsInFront(sp, size) \/ Roomy(sp, size) # {} =>
                     PutIn(sp, MallocWithUrid(sp, urid, bit, size, data), b)
<1>1. PICK q : q = MallocWithUrid(sp, urid, bit, size, data)
  OBVIOUS
<1>2. CASE FitsInFront(sp, size)
  <2>1. q = PutBlock(sp, 1, 0, urid, bit, size, data)
    BY <1>1, <1>2 DEF MallocWithUrid
  <2>2. PICK b : MadeOf(b, urid, bit, size, data) /\ PutIn(sp, q, b)
    BY <1>2, <2>1, PutInFrontOK
  <2>3. Served(sp, q, b)
    BY <2>2, EntriesPut DEF PutIn, Served
  <2> QED
    BY <1>1, <2>2, <2>3
<1>3. CASE ~FitsInFront(sp, size) /\ Roomy(sp, size) # {}
  <2>1. q = PutBehind(sp, urid, bit, size, data)
    BY <1>1, <1>3 DEF MallocWithUrid
  <2>2. PICK b : MadeOf(b, urid, bit, size, data) /\ PutIn(sp, q, b)
    BY <1>3, <2>1, PutBehindOK
  <2>3. Served(sp, q, b)
    BY <2>2, EntriesPut DEF PutIn, Served
  <2> QED
    BY <1>1, <2>2, <2>3
<1>4. CASE ~FitsInFront(sp, size) /\ Roomy(sp, size) = {}
  <2>1. PICK s : s = Compact(sp)
    OBVIOUS
  <2>2. q = PutBehind(s, urid, bit, size, data)
    BY <1>1, <1>4, <2>1 DEF MallocWithUrid
  <2>3. /\ SubOK(s) /\ s.base = sp.base /\ s.free = sp.free /\ Len(s.chain) = Len(sp.chain)
        /\ EntriesOf(s) = EntriesOf(sp) /\ UridsOf(s) = UridsOf(sp)
    BY <2>1, CompactOK
  <2>4. Roomy(s, size) # {}
    BY <1>4, <2>1, CompactRoomy
  <2>5. urid \notin UridsOf(s) /\ size + Hdr <= s.free
    BY <2>3
  <2>6. PICK b : MadeOf(b, urid, bit, size, data) /\ PutIn(s, q, b)
    BY <2>2, <2>3, <2>4, <2>5, PutBehindOK
  <2>7. EntriesOf(q) = EntriesOf(s) \cup {Entry(b)}
    BY <2>6, EntriesPut DEF PutIn
  <2>8. Served(sp, q, b)
    BY <2>3, <2>6, <2>7 DEF PutIn, Served
  <2> QED
    BY <1>1, <1>4, <2>6, <2>8
<1> QED
  BY <1>2, <1>3, <1>4

(***************************************************************************)
(* A run of steps.  Each of the loops of the pool is the last value of a   *)
(* function g over 0 .. n, g[m] what the loop has after m rounds.  There   *)
(* is such a function when each round leads from the m-th of a family of   *)
(* sets to the next, and its values are in these sets.                     *)
(***************************************************************************)
LEMMA RunStaysWithin ==
  ASSUME NEW Q, NEW n \in Nat, NEW g, g[0] \in Q[0],
         \A m \in 1 .. n : g[m - 1] \in Q[m - 1] => g[m] \in Q[m]
  PROVE  \A m \in 0 .. n : g[m] \in Q[m]
<1> DEFINE M == {m \in Nat : m \in 0 .. n => g[m] \in Q[m]}
<1>1. 0 \in M
  OBVIOUS
<1>2. ASSUME NEW m \in Nat, m \in M PROVE m + 1 \in M
  <2> SUFFICES ASSUME m + 1 \in 0 .. n PROVE g[m + 1] \in Q[m + 1]
    OBVIOUS
  <2>1. m + 1 \in 1 .. n /\ (m + 1) - 1 = m /\ m \in 0 .. n
    OBVIOUS
  <2>2. g[m] \in Q[m]
    BY <1>2, <2>1
  <2>3. g[(m + 1) - 1] \in Q[(m + 1) - 1]
    BY <2>1, <2>2
  <2> QED
    BY <2>1, <2>3
<1>3. \A m \in Nat : m \in M
  <2> HIDE DEF M
  <2> QED
    BY <1>1, <1>2, NatSetInduction
<1> QED
  BY <1>3

Series(g, n) == g = [m \in 0 .. n |-> g[m]]

Rounds(Q, n, x, F) == x \in Q[0] /\ \A m \in 1 .. n : F[m] \in [Q[m - 1] -> Q[m]]

LEMMA RunExists ==
  ASSUME NEW Q, NEW n \in Nat, NEW x, NEW F, Rounds(Q, n, x, F)
  PROVE  \E g : /\ Series(g, n) /\ g[0] = x /\ \A m \in 1 .. n : g[m] = F[m][g[m - 1]]
                /\ \A m \in 0 .. n : g[m] \in Q[m]
<1> DEFINE Run(g, k) == g = [m \in 0 .. k |-> IF m = 0 THEN x ELSE F[m][g[m - 1]]]
           M == {k \in Nat : \E g : Run(g, k)}
<1>1. 0 \in M
  <2>1. Run([m \in 0 .. 0 |-> x], 0)
    OBVIOUS
  <2> QED
    BY <2>1
<1>2. ASSUME NEW k \in Nat, k \in M PROVE k + 1 \in M
  <2>1. PICK g : Run(g, k)
    BY <1>2
  <2> DEFINE h == [m \in 0 .. k + 1 |-> IF m = k + 1 THEN F[k + 1][g[k]] ELSE g[m]]
  <2>2. ASSUME NEW m \in 0 .. k + 1 PROVE h[m] = IF m = 0 THEN x ELSE F[m][h[m - 1]]
    <3>1. CASE m = 0
      BY <2>1, <3>1
    <3>2. CASE m = k + 1
      <4>1. m # 0 /\ m - 1 = k /\ k \in 0 .. k + 1 /\ k # k + 1
        BY <3>2
      <4> QED
        BY <3>2, <4>1
    <3>3. CASE m # 0 /\ m # k + 1
      <4>1. m \in 0 .. k /\ m - 1 \in 0 .. k + 1 /\ m - 1 # k + 1
        BY <3>3
      <4>2. g[m] = F[m][g[m - 1]]
        BY <2>1, <3>3, <4>1
      <4> QED
        BY <3>3, <4>1, <4>2
    <3> QED
      BY <3>1, <3>2, <3>3
  <2>3. h = [m \in 0 .. k + 1 |-> h[m]]
    OBVIOUS
  <2> HIDE DEF h
  <2>4. Run(h, k + 1)
    BY <2>2, <2>3
  <2> QED
    BY <2>4
<1>3. n \in M
  <2> HIDE DEF M
  <2> QED
    BY <1>1, <1>2, NatSetInduction
<1>4. PICK g : Run(g, n)
  BY <1>3
<1>5. g[0] = x /\ \A m \in 1 .. n : g[m] = F[m][g[m - 1]]
  BY <1>4
<1>6. \A m \in 1 .. n : g[m - 1] \in Q[m - 1] => g[m] \in Q[m]
  BY <1>5 DEF Rounds
<1>7. g[0] \in Q[0]
  BY <1>5 DEF Rounds
<1>8. \A m \in 0 .. n : g[m] \in Q[m]
  BY <1>6, <1>7, RunStaysWithin
<1>9. Series(g, n)
  BY <1>4 DEF Series
<1> QED
  BY <1>5, <1>8, <1>9

(* A sweep of a sub pool leaves the marked blocks.                         *)
SweptSub(sp, q) ==
  /\ SubOK(q) /\ q.base = sp.base
  /\ q.free >= sp.free /\ Len(q.chain) <= Len(sp.chain)
  /\ Range(q.chain) = {b \in Range(sp.chain) : b.bit}

LEMMA SweepSubOK ==
  ASSUME NEW sp, SubOK(sp)
  PROVE  SweptSub(sp, SweepSub(sp))
<1>1. PICK c : c = sp.chain
  OBVIOUS
<1>2. PICK n : n = Len(c)
  OBVIOUS
<1>3. /\ sp \in SubPool /\ c \in Seq(Block) /\ n \in Nat /\ DOMAIN c = 1 .. n
      /\ sp.free \in Nat /\ \A i, j \in 1 .. n : c[i].urid = c[j].urid => i = j
      /\ \A i \in 1 .. n : c[i] \in Block
  BY <1>1, <1>2, SubFacts, ChainFacts DEF SubOK, OwnUrids
<1> DEFINE Rest(m) == {c[i] : i \in {j \in 1 .. n : c[j].bit \/ j > m}}
           Done(m, s) == /\ SubOK(s) /\ s.base = sp.base
                         /\ s.free >= sp.free /\ Len(s.chain) <= n
                         /\ Range(s.chain) = Rest(m)
           Step(m, s) == IF c[m].bit THEN s ELSE SubFree(s, c[m].urid)
           Q == [m \in 0 .. n |-> {s \in SubPool : Done(m, s)}]
           F == [m \in 1 .. n |-> [s \in Q[m - 1] |-> Step(m, s)]]
<1>4. ASSUME NEW m \in 1 .. n, NEW s, Done(m - 1, s) PROVE Done(m, Step(m, s))
  <2>0. m \in Nat /\ m - 1 \in Nat
    BY <1>3
  <2>1. CASE c[m].bit
    <3>1. Rest(m - 1) = Rest(m)
      <4>1. ASSUME NEW j \in 1 .. n PROVE (c[j].bit \/ j > m - 1) <=> (c[j].bit \/ j > m)
        <5>1. j > m - 1 <=> j > m \/ j = m
          BY <2>0
        <5> QED
          BY <2>1, <5>1
      <4> QED
        BY <4>1
    <3>2. Step(m, s) = s
      BY <2>1
    <3> QED
      BY <1>4, <3>1, <3>2
  <2>2. CASE ~c[m].bit
    <3>1. m > m - 1
      BY <2>0
    <3>2. c[m] \in Range(s.chain)
      BY <1>4, <3>1
    <3>3. c[m].urid \in UridsOf(s)
      BY <3>2 DEF UridsOf
    <3>4. Step(m, s) = SubFree(s, c[m].urid)
      BY <2>2
    <3>5. SubOK(s)
      BY <1>4
    <3>6. PICK b : b.urid = c[m].urid /\ TakenFrom(s, Step(m, s), b)
      BY <3>3, <3>4, <3>5, SubFreeOK
    <3> HIDE DEF Step
    <3>7. Range(Step(m, s).chain) = Rest(m)
      <4>1. Range(Step(m, s).chain) = {x \in Rest(m - 1) : x.urid # c[m].urid}
        BY <1>4, <3>6 DEF TakenFrom
      <4>2. ASSUME NEW j \in 1 .. n
            PROVE (c[j].bit \/ j > m - 1) /\ c[j].urid # c[m].urid <=> (c[j].bit \/ j > m)
        <5>1. j > m - 1 <=> j > m \/ j = m
          BY <2>0
        <5>2. c[j].urid = c[m].urid <=> j = m
          BY <1>3
        <5>3. j = m => ~(j > m)
          BY <2>0
        <5> QED
          BY <2>2, <5>1, <5>2, <5>3
      <4>3. ASSUME NEW x PROVE x \in {y \in Rest(m - 1) : y.urid # c[m].urid} <=> x \in Rest(m)
        BY <4>2
      <4> QED
        BY <4>1, <4>3
    <3>8. /\ SubOK(Step(m, s)) /\ Step(m, s).base = s.base /\ Span(b) \in Nat
          /\ Step(m, s).free = s.free + Span(b) /\ Len(s.chain) = Len(Step(m, s).chain) + 1
      BY <3>6, BlockFacts DEF TakenFrom
    <3>9. Step(m, s).free >= sp.free /\ Len(Step(m, s).chain) <= n
      <4>1. s.free \in Nat /\ sp.free \in Nat /\ s.free >= sp.free
        BY <1>3, <1>4, SubFacts DEF SubOK
      <4>2. Len(s.chain) \in Nat /\ Len(Step(m, s).chain) \in Nat /\ Len(s.chain) <= n
        BY <1>4, <3>8, SubFacts, LenProperties DEF SubOK
      <4> QED
        BY <1>3, <3>8, <4>1, <4>2
    <3> QED
      BY <1>4, <3>7, <3>8, <3>9
  <2> QED
    BY <2>1, <2>2
<1>5. Done(0, sp)
  <2>1. Range(c) = Rest(0)
    <3>1. \A j \in 1 .. n : j > 0
      BY <1>3
    <3> QED
      BY <1>3, <3>1 DEF Range
  <2> QED
    BY <1>1, <1>2, <1>3, <2>1
<1> HIDE DEF Done, Step, Rest
<1>6. \A m \in 1 .. n : m - 1 \in 0 .. n /\ m \in 0 .. n
  BY <1>3
<1>7. ASSUME NEW m \in 1 .. n, NEW s \in Q[m - 1] PROVE Step(m, s) \in Q[m]
  <2>1. Done(m - 1, s)
    BY <1>6
  <2>2. Done(m, Step(m, s))
    BY <1>4, <2>1
  <2>3. Step(m, s) \in SubPool
    BY <2>2 DEF Done, SubOK
  <2> QED
    BY <1>6, <2>2, <2>3
<1>8. sp \in Q[0]
  BY <1>3, <1>5
<1>9. \A m \in 1 .. n : F[m] \in [Q[m - 1] -> Q[m]]
  <2> HIDE DEF Q
  <2> QED
    BY <1>7
<1>10. PICK g : /\ Series(g, n) /\ g[0] = sp /\ \A m \in 1 .. n : g[m] = F[m][g[m - 1]]
                /\ \A m \in 0 .. n : g[m] \in Q[m]
  <2>1. n \in Nat
    BY <1>3
  <2> HIDE DEF Q, F
  <2>2. Rounds(Q, n, sp, F)
    BY <1>8, <1>9 DEF Rounds
  <2> QED
    BY <2>1, <2>2, RunExists, SMTT(30)
<1>11. \A m \in 1 .. n : g[m] = Step(m, g[m - 1])
  <2> SUFFICES ASSUME NEW m \in 1 .. n PROVE g[m] = Step(m, g[m - 1])
    OBVIOUS
  <2>1. g[m - 1] \in Q[m - 1] /\ g[m] = F[m][g[m - 1]]
    BY <1>6, <1>10
  <2> HIDE DEF Q
  <2> QED
    BY <2>1
<1>12. g = [m \in 0 .. n |-> IF m = 0 THEN sp
                             ELSE IF c[m].bit THEN g[m - 1] ELSE SubFree(g[m - 1], c[m].urid)]
  <2>1. \A m \in 0 .. n : g[m] = IF m = 0 THEN sp
                                 ELSE IF c[m].bit THEN g[m - 1] ELSE SubFree(g[m - 1], c[m].urid)
    <3> SUFFICES ASSUME NEW m \in 0 .. n, m # 0 PROVE g[m] = Step(m, g[m - 1])
      BY <1>10 DEF Step
    <3>1. m \in 1 .. n
      BY <1>3
    <3> QED
      BY <1>11, <3>1
  <2> QED
    BY <1>10, <2>1 DEF Series
<1>13. g = [m \in 0 .. Len(sp.chain) |->
              IF m = 0 THEN sp
              ELSE IF sp.chain[m].bit THEN g[m - 1] ELSE SubFree(g[m - 1], sp.chain[m].urid)]
  BY <1>1, <1>2, <1>12
<1>14. \E h : /\ h = [m \in 0 .. Len(sp.chain) |->
                        IF m = 0 THEN sp
                        ELSE IF sp.chain[m].bit THEN h[m - 1] ELSE SubFree(h[m - 1], sp.chain[m].urid)]
              /\ SweepSub(sp) = h[Len(sp.chain)]
  BY <1>13, Zenon DEF SweepSub
<1>15. PICK h : /\ h = [m \in 0 .. n |->
                        IF m = 0 THEN sp
                        ELSE IF c[m].bit THEN h[m - 1] ELSE SubFree(h[m - 1], c[m].urid)]
                /\ SweepSub(sp) = h[n]
  BY <1>1, <1>2, <1>14
<1>16. h[0] = sp /\ \A m \in 1 .. n : h[m] = Step(m, h[m - 1])
  BY <1>3, <1>15 DEF Step
<1>17. \A m \in 0 .. n : h[m] \in Q[m]
  <2>1. h[0] \in Q[0] /\ \A m \in 1 .. n : h[m - 1] \in Q[m - 1] => h[m] \in Q[m]
    BY <1>7, <1>8, <1>16
  <2>2. n \in Nat
    BY <1>3
  <2> HIDE DEF Q
  <2> QED
    BY <2>1, <2>2, RunStaysWithin, Zenon
<1>18. n \in 0 .. n
  BY <1>3
<1>19. Done(n, SweepSub(sp))
  BY <1>15, <1>17, <1>18
<1>20. Rest(n) = {b \in Range(sp.chain) : b.bit}
  <2>1. \A j \in 1 .. n : ~(j > n)
    BY <1>3
  <2> QED
    BY <1>1, <1>3, <2>1 DEF Rest, Range
<1> QED
  BY <1>1, <1>2, <1>19, <1>20 DEF SweptSub, Done

(***************************************************************************)
(* The pool: sound sub pools without a urid in common.                     *)
(***************************************************************************)
PoolsOK(ps) ==
  /\ ps \in Seq(SubPool)
  /\ \A k \in 1 .. Len(ps) : SubOK(ps[k])
  /\ \A k, l \in 1 .. Len(ps) : k # l => UridsOf(ps[k]) \cap UridsOf(ps[l]) = {}

Entries(ps) == UNION {EntriesOf(ps[k]) : k \in 1 .. Len(ps)}

Frees(ps) == [k \in DOMAIN ps |-> ps[k].free]
Lengths(ps) == [k \in DOMAIN ps |-> Len(ps[k].chain)]

LEMMA PoolsFacts ==
  ASSUME NEW ps \in Seq(SubPool)
  PROVE  /\ Len(ps) \in Nat /\ DOMAIN ps = 1 .. Len(ps)
         /\ \A k \in 1 .. Len(ps) : ps[k] \in SubPool
         /\ Frees(ps) \in Seq(Nat) /\ Len(Frees(ps)) = Len(ps)
         /\ \A k \in 1 .. Len(ps) : Frees(ps)[k] = ps[k].free
         /\ Lengths(ps) \in Seq(Nat) /\ Len(Lengths(ps)) = Len(ps)
         /\ \A k \in 1 .. Len(ps) : Lengths(ps)[k] = Len(ps[k].chain)
         /\ SizeFree(ps) = SumOf(Frees(ps)) /\ NumberOfBlocks(ps) = SumOf(Lengths(ps))
         /\ SizeFree(ps) \in Nat /\ NumberOfBlocks(ps) \in Nat
<1>1. Len(ps) \in Nat /\ DOMAIN ps = 1 .. Len(ps)
  BY LenProperties
<1>2. \A k \in 1 .. Len(ps) : ps[k] \in SubPool
  BY ElementOfSeq
<1>3. \A k \in 1 .. Len(ps) : ps[k].free \in Nat /\ ps[k].chain \in Seq(Block)
  BY <1>2, SubFacts
<1>4. \A k \in 1 .. Len(ps) : Len(ps[k].chain) \in Nat
  BY <1>3, LenProperties
<1>5. Frees(ps) \in [1 .. Len(ps) -> Nat] /\ \A k \in 1 .. Len(ps) : Frees(ps)[k] = ps[k].free
  BY <1>1, <1>3 DEF Frees
<1>6. Lengths(ps) \in [1 .. Len(ps) -> Nat] /\ \A k \in 1 .. Len(ps) : Lengths(ps)[k] = Len(ps[k].chain)
  BY <1>1, <1>4 DEF Lengths
<1>7. Frees(ps) \in Seq(Nat) /\ Len(Frees(ps)) = Len(ps)
  BY <1>1, <1>5, FunctionIsSeq
<1>8. Lengths(ps) \in Seq(Nat) /\ Len(Lengths(ps)) = Len(ps)
  BY <1>1, <1>6, FunctionIsSeq
<1>9. SizeFree(ps) = SumOf(Frees(ps)) /\ NumberOfBlocks(ps) = SumOf(Lengths(ps))
  BY DEF SizeFree, NumberOfBlocks, Frees, Lengths
<1>10. SumOf(Frees(ps)) \in Nat /\ SumOf(Lengths(ps)) \in Nat
  BY <1>7, <1>8, SumsFacts
<1> QED
  BY <1>1, <1>2, <1>5, <1>6, <1>7, <1>8, <1>9, <1>10

LEMMA UridsOfEntries ==
  ASSUME NEW sp, NEW u
  PROVE  u \in UridsOf(sp) <=> \E e \in EntriesOf(sp) : e[1] = u
<1>1. \A b \in Range(sp.chain) : Entry(b)[1] = b.urid
  BY DEF Entry
<1> QED
  BY <1>1 DEF UridsOf, EntriesOf

LEMMA LiveUridsFacts ==
  ASSUME NEW ps \in Seq(SubPool), NEW u
  PROVE  /\ u \in LiveUrids(ps) <=> \E k \in 1 .. Len(ps) : u \in UridsOf(ps[k])
         /\ u \in LiveUrids(ps) <=> \E e \in Entries(ps) : e[1] = u
<1>1. u \in LiveUrids(ps) <=> \E k \in 1 .. Len(ps) : u \in UridsOf(ps[k])
  BY PoolsFacts DEF LiveUrids
<1>2. (\E k \in 1 .. Len(ps) : u \in UridsOf(ps[k])) <=> \E e \in Entries(ps) : e[1] = u
  BY UridsOfEntries DEF Entries
<1> QED
  BY <1>1, <1>2

(* qs is ps but for its k-th sub pool.                                     *)
Changed(ps, qs, k) ==
  /\ qs \in Seq(SubPool) /\ Len(qs) = Len(ps)
  /\ \A l \in 1 .. Len(ps) : l # k => qs[l] = ps[l]

LEMMA ExceptChanged ==
  ASSUME NEW ps \in Seq(SubPool), NEW k \in 1 .. Len(ps), NEW q \in SubPool
  PROVE  Changed(ps, [ps EXCEPT ![k] = q], k) /\ [ps EXCEPT ![k] = q][k] = q
BY ExceptSeq DEF Changed

LEMMA ChangedSums ==
  ASSUME NEW ps \in Seq(SubPool), NEW qs, NEW k \in 1 .. Len(ps), Changed(ps, qs, k)
  PROVE  /\ SizeFree(qs) + ps[k].free = SizeFree(ps) + qs[k].free
         /\ NumberOfBlocks(qs) + Len(ps[k].chain) = NumberOfBlocks(ps) + Len(qs[k].chain)
<1>1. qs \in Seq(SubPool) /\ Len(qs) = Len(ps) /\ \A l \in 1 .. Len(ps) : l # k => qs[l] = ps[l]
  BY DEF Changed
<1>2. /\ Frees(ps) \in Seq(Nat) /\ Frees(qs) \in Seq(Nat)
      /\ Len(Frees(ps)) = Len(ps) /\ Len(Frees(qs)) = Len(ps)
      /\ \A l \in 1 .. Len(ps) : Frees(ps)[l] = ps[l].free /\ Frees(qs)[l] = qs[l].free
      /\ SizeFree(ps) = SumOf(Frees(ps)) /\ SizeFree(qs) = SumOf(Frees(qs))
  BY <1>1, PoolsFacts
<1>3. Replaced(Frees(ps), Frees(qs), k) /\ k \in 1 .. Len(Frees(ps))
  BY <1>1, <1>2 DEF Replaced
<1>4. SumOf(Frees(qs)) + Frees(ps)[k] = SumOf(Frees(ps)) + Frees(qs)[k]
  BY <1>2, <1>3, SumReplaced
<1>5. /\ Lengths(ps) \in Seq(Nat) /\ Lengths(qs) \in Seq(Nat)
      /\ Len(Lengths(ps)) = Len(ps) /\ Len(Lengths(qs)) = Len(ps)
      /\ \A l \in 1 .. Len(ps) : Lengths(ps)[l] = Len(ps[l].chain) /\ Lengths(qs)[l] = Len(qs[l].chain)
      /\ NumberOfBlocks(ps) = SumOf(Lengths(ps)) /\ NumberOfBlocks(qs) = SumOf(Lengths(qs))
  BY <1>1, PoolsFacts
<1>6. Replaced(Lengths(ps), Lengths(qs), k) /\ k \in 1 .. Len(Lengths(ps))
  BY <1>1, <1>5 DEF Replaced
<1>7. SumOf(Lengths(qs)) + Lengths(ps)[k] = SumOf(Lengths(ps)) + Lengths(qs)[k]
  BY <1>5, <1>6, SumReplaced
<1> QED
  BY <1>2, <1>4, <1>5, <1>7

LEMMA ChangedOK ==
  ASSUME NEW ps, PoolsOK(ps), NEW k \in 1 .. Len(ps), NEW qs, Changed(ps, qs, k), SubOK(qs[k]),
         \A l \in 1 .. Len(ps) : l # k => UridsOf(qs[k]) \cap UridsOf(ps[l]) = {}
  PROVE  PoolsOK(qs)
<1>1. \A l \in 1 .. Len(qs) : SubOK(qs[l])
  BY DEF PoolsOK, Changed
<1>2. ASSUME NEW i \in 1 .. Len(qs), NEW j \in 1 .. Len(qs), i # j
      PROVE  UridsOf(qs[i]) \cap UridsOf(qs[j]) = {}
  <2>1. i \in 1 .. Len(ps) /\ j \in 1 .. Len(ps)
    BY DEF Changed
  <2>2. CASE i = k
    <3>1. qs[j] = ps[j] /\ UridsOf(qs[k]) \cap UridsOf(ps[j]) = {}
      BY <1>2, <2>1, <2>2 DEF Changed
    <3> QED
      BY <2>2, <3>1
  <2>3. CASE j = k
    <3>1. qs[i] = ps[i] /\ UridsOf(qs[k]) \cap UridsOf(ps[i]) = {}
      BY <1>2, <2>1, <2>3 DEF Changed
    <3> QED
      BY <2>3, <3>1
  <2>4. CASE i # k /\ j # k
    <3>1. qs[i] = ps[i] /\ qs[j] = ps[j]
      BY <2>1, <2>4 DEF Changed
    <3> QED
      BY <1>2, <2>1, <3>1 DEF PoolsOK
  <2> QED
    BY <2>2, <2>3, <2>4
<1> QED
  BY <1>1, <1>2 DEF PoolsOK, Changed

LEMMA EntriesAdded ==
  ASSUME NEW ps \in Seq(SubPool), NEW k \in 1 .. Len(ps), NEW qs, Changed(ps, qs, k), NEW X,
         EntriesOf(qs[k]) = EntriesOf(ps[k]) \cup X
  PROVE  Entries(qs) = Entries(ps) \cup X
<1>1. Len(qs) = Len(ps) /\ \A l \in 1 .. Len(ps) : l # k => qs[l] = ps[l]
  BY DEF Changed
<1>2. ASSUME NEW e \in Entries(qs) PROVE e \in Entries(ps) \cup X
  <2>1. PICK l \in 1 .. Len(ps) : e \in EntriesOf(qs[l])
    BY <1>1 DEF Entries
  <2>2. CASE l = k
    BY <2>1, <2>2 DEF Entries
  <2>3. CASE l # k
    BY <1>1, <2>1, <2>3 DEF Entries
  <2> QED
    BY <2>2, <2>3
<1>3. ASSUME NEW e \in Entries(ps) \cup X PROVE e \in Entries(qs)
  <2>1. CASE e \in X
    BY <1>1, <2>1 DEF Entries
  <2>2. CASE e \in Entries(ps)
    <3>1. PICK l \in 1 .. Len(ps) : e \in EntriesOf(ps[l])
      BY <2>2 DEF Entries
    <3>2. CASE l = k
      BY <1>1, <3>1, <3>2 DEF Entries
    <3>3. CASE l # k
      BY <1>1, <3>1, <3>3 DEF Entries
    <3> QED
      BY <3>2, <3>3
  <2> QED
    BY <2>1, <2>2
<1> QED
  BY <1>2, <1>3

LEMMA EntriesTaken ==
  ASSUME NEW sp, NEW q, NEW b, TakenFrom(sp, q, b)
  PROVE  EntriesOf(q) = {e \in EntriesOf(sp) : e[1] # b.urid} /\ Entry(b) \in EntriesOf(sp)
<1>1. Range(q.chain) = {x \in Range(sp.chain) : x.urid # b.urid} /\ b \in Range(sp.chain)
  BY DEF TakenFrom
<1>2. \A x : Entry(x)[1] = x.urid
  BY DEF Entry
<1> QED
  BY <1>1, <1>2 DEF EntriesOf

LEMMA AllocateUridFacts ==
  ASSUME NEW ps, AllocateUrid(ps) # Invalid
  PROVE  AllocateUrid(ps) \in Urids /\ AllocateUrid(ps) \notin LiveUrids(ps)
<1>1. ~(Urids \subseteq LiveUrids(ps)) /\ AllocateUrid(ps) = Min(Urids \ LiveUrids(ps))
  BY DEF AllocateUrid
<1>2. Urids \subseteq Nat
  BY PoolAssumption DEF Urids
<1>3. Urids \ LiveUrids(ps) \in SUBSET Nat /\ Urids \ LiveUrids(ps) # {}
  BY <1>1, <1>2
<1>4. Min(Urids \ LiveUrids(ps)) \in Urids \ LiveUrids(ps)
  BY <1>3, MinFacts
<1> QED
  BY <1>1, <1>4

(* A block is served in the k-th sub pool.                                 *)
ServedAt(ps, qs, k, b) ==
  /\ PoolsOK(qs) /\ Changed(ps, qs, k)
  /\ Served(ps[k], qs[k], b) /\ b \in Block
  /\ b.urid \notin LiveUrids(ps)

LEMMA ServedAtFacts ==
  ASSUME NEW ps, PoolsOK(ps), NEW k \in 1 .. Len(ps), NEW qs, NEW b, ServedAt(ps, qs, k, b)
  PROVE  /\ PoolsOK(qs) /\ Len(qs) = Len(ps)
         /\ SizeFree(qs) + Span(b) = SizeFree(ps) /\ NumberOfBlocks(qs) = NumberOfBlocks(ps) + 1
         /\ Entries(qs) = Entries(ps) \cup {Entry(b)}
<1>1. /\ ps \in Seq(SubPool) /\ PoolsOK(qs) /\ Changed(ps, qs, k) /\ Served(ps[k], qs[k], b) /\ b \in Block
      /\ qs \in Seq(SubPool) /\ Len(qs) = Len(ps)
  BY DEF PoolsOK, ServedAt, Changed
<1>2. /\ SizeFree(qs) + ps[k].free = SizeFree(ps) + qs[k].free
      /\ NumberOfBlocks(qs) + Len(ps[k].chain) = NumberOfBlocks(ps) + Len(qs[k].chain)
  BY <1>1, ChangedSums
<1>3. /\ qs[k].free = ps[k].free - Span(b) /\ Len(qs[k].chain) = Len(ps[k].chain) + 1
      /\ EntriesOf(qs[k]) = EntriesOf(ps[k]) \cup {Entry(b)}
  BY <1>1 DEF Served
<1>4. /\ ps[k].free \in Nat /\ Span(b) \in Nat /\ Len(ps[k].chain) \in Nat
      /\ SizeFree(ps) \in Nat /\ SizeFree(qs) \in Nat
      /\ NumberOfBlocks(ps) \in Nat /\ NumberOfBlocks(qs) \in Nat
  BY <1>1, PoolsFacts, SubFacts, BlockFacts, LenProperties
<1>5. SizeFree(qs) + Span(b) = SizeFree(ps) /\ NumberOfBlocks(qs) = NumberOfBlocks(ps) + 1
  <2>1. PICK f, g, s, m, n, c, d :
          /\ f = SizeFree(qs) /\ g = SizeFree(ps) /\ s = Span(b) /\ m = NumberOfBlocks(qs)
          /\ n = NumberOfBlocks(ps) /\ c = ps[k].free /\ d = Len(ps[k].chain)
    OBVIOUS
  <2>2. f \in Nat /\ g \in Nat /\ s \in Nat /\ m \in Nat /\ n \in Nat /\ c \in Nat /\ d \in Nat
    BY <1>4, <2>1
  <2>3. f + c = g + (c - s) /\ m + d = n + (d + 1)
    BY <1>2, <1>3, <2>1
  <2>4. f + s = g /\ m = n + 1
    BY <2>2, <2>3
  <2> QED
    BY <2>1, <2>4
<1>6. Entries(qs) = Entries(ps) \cup {Entry(b)}
  <2>1. PICK X : X = {Entry(b)}
    OBVIOUS
  <2>2. EntriesOf(qs[k]) = EntriesOf(ps[k]) \cup X
    BY <1>3, <2>1
  <2>3. ps \in Seq(SubPool) /\ Changed(ps, qs, k)
    BY <1>1
  <2>4. Entries(qs) = Entries(ps) \cup X
    BY <2>2, <2>3, EntriesAdded
  <2> QED
    BY <2>1, <2>4
<1> QED
  BY <1>1, <1>5, <1>6

LEMMA MallocInSingleOK ==
  ASSUME NEW ps, PoolsOK(ps), NEW size \in Nat, CanMalloc(ps, size),
         NEW managed \in BOOLEAN, NEW data \in Contents
  PROVE  \E k \in 1 .. Len(ps) : \E b :
           /\ MadeOf(b, AllocateUrid(ps), managed, size, data)
           /\ ServedAt(ps, MallocInSingle(ps, size, managed, data), k, b)
           /\ noalign => PutIn(ps[k], MallocInSingle(ps, size, managed, data)[k], b)
<1>1. ps \in Seq(SubPool) /\ DOMAIN ps = 1 .. Len(ps) /\ \A l \in 1 .. Len(ps) : SubOK(ps[l])
  BY LenProperties DEF PoolsOK
<1>2. PICK k : k = Min(Candidates(ps, size))
  OBVIOUS
<1>3. k \in 1 .. Len(ps) /\ Hdr + size <= ps[k].free /\ CanPlace(ps[k], size)
  <2>1. Candidates(ps, size) \in SUBSET Nat /\ Candidates(ps, size) # {}
    BY <1>1 DEF Candidates, CanMalloc
  <2>2. k \in Candidates(ps, size)
    BY <1>2, <2>1, MinFacts
  <2> QED
    BY <1>1, <2>2 DEF Candidates
<1>4. PICK u : u = AllocateUrid(ps)
  OBVIOUS
<1>5. u \in Urids /\ u \notin LiveUrids(ps) /\ \A l \in 1 .. Len(ps) : u \notin UridsOf(ps[l])
  <2>1. u \in Urids /\ u \notin LiveUrids(ps)
    BY <1>4, AllocateUridFacts DEF CanMalloc
  <2> QED
    BY <1>1, <2>1, LiveUridsFacts
<1>6. SubOK(ps[k]) /\ size + Hdr <= ps[k].free
  BY <1>1, <1>3, Numbers
<1>7. PICK q : q = MallocWithUrid(ps[k], u, managed, size, data)
  OBVIOUS
<1>8. PICK b : /\ MadeOf(b, u, managed, size, data) /\ Served(ps[k], q, b)
               /\ FitsInFront(ps[k], size) \/ Roomy(ps[k], size) # {} => PutIn(ps[k], q, b)
  BY <1>3, <1>5, <1>6, <1>7, MallocWithUridOK
<1>9. PICK qs : qs = MallocInSingle(ps, size, managed, data)
  OBVIOUS
<1>10. qs = [ps EXCEPT ![k] = q]
  BY <1>2, <1>4, <1>7, <1>9 DEF MallocInSingle
<1>11. SubOK(q) /\ q \in SubPool /\ b \in Block /\ b.urid = u
  BY <1>8 DEF Served, SubOK, MadeOf
<1>12. Changed(ps, qs, k) /\ qs[k] = q
  BY <1>1, <1>3, <1>10, <1>11, ExceptChanged
<1>13. PoolsOK(qs)
  <2>1. UridsOf(q) = UridsOf(ps[k]) \cup {u}
    <3>1. EntriesOf(q) = EntriesOf(ps[k]) \cup {Entry(b)}
      BY <1>8 DEF Served
    <3>2. Entry(b)[1] = u
      BY <1>11 DEF Entry
    <3> QED
      BY <3>1, <3>2, UridsOfEntries
  <2>2. \A l \in 1 .. Len(ps) : l # k => UridsOf(ps[k]) \cap UridsOf(ps[l]) = {}
    BY <1>3 DEF PoolsOK
  <2>3. \A l \in 1 .. Len(ps) : l # k => UridsOf(qs[k]) \cap UridsOf(ps[l]) = {}
    BY <1>5, <1>12, <2>1, <2>2
  <2>4. SubOK(qs[k])
    BY <1>11, <1>12
  <2> QED
    BY <1>3, <1>12, <2>3, <2>4, ChangedOK
<1>14. ServedAt(ps, qs, k, b)
  BY <1>5, <1>8, <1>11, <1>12, <1>13 DEF ServedAt
<1>15. noalign => PutIn(ps[k], qs[k], b)
  BY <1>3, <1>8, <1>12 DEF CanPlace
<1> QED
  BY <1>3, <1>4, <1>8, <1>9, <1>14, <1>15

LEMMA EntriesFacts ==
  ASSUME NEW ps \in Seq(SubPool), NEW e
  PROVE  /\ e \in Entries(ps) <=> \E k \in 1 .. Len(ps) : e \in EntriesOf(ps[k])
         /\ e \in Entries(ps) <=> \E k \in 1 .. Len(ps) : \E i \in 1 .. Len(ps[k].chain) :
                                     e = Entry(ps[k].chain[i])
<1>1. e \in Entries(ps) <=> \E k \in 1 .. Len(ps) : e \in EntriesOf(ps[k])
  BY DEF Entries
<1>2. \A k \in 1 .. Len(ps) :
        EntriesOf(ps[k]) = {Entry(ps[k].chain[i]) : i \in 1 .. Len(ps[k].chain)}
  BY PoolsFacts, SubFacts, EntriesOfChain
<1>3. e \in Entries(ps) <=> \E k \in 1 .. Len(ps) : \E i \in 1 .. Len(ps[k].chain) :
                              e = Entry(ps[k].chain[i])
  BY <1>1, <1>2
<1> QED
  BY <1>1, <1>3

LEMMA EntriesUnique ==
  ASSUME NEW ps, PoolsOK(ps), NEW e \in Entries(ps), NEW f \in Entries(ps), e[1] = f[1]
  PROVE  e = f
<1>1. ps \in Seq(SubPool) /\ \A l \in 1 .. Len(ps) : SubOK(ps[l])
  BY DEF PoolsOK
<1>2. PICK k \in 1 .. Len(ps) : \E i \in 1 .. Len(ps[k].chain) : e = Entry(ps[k].chain[i])
  BY <1>1, EntriesFacts
<1>20. PICK i \in 1 .. Len(ps[k].chain) : e = Entry(ps[k].chain[i])
  BY <1>2
<1>3. PICK l \in 1 .. Len(ps) : \E j \in 1 .. Len(ps[l].chain) : f = Entry(ps[l].chain[j])
  BY <1>1, EntriesFacts
<1>30. PICK j \in 1 .. Len(ps[l].chain) : f = Entry(ps[l].chain[j])
  BY <1>3
<1>4. ps[k].chain[i].urid = ps[l].chain[j].urid
  BY <1>20, <1>30 DEF Entry
<1>5. ps[k].chain \in Seq(Block) /\ ps[l].chain \in Seq(Block)
  BY <1>1, SubFacts DEF SubOK
<1>6. ps[k].chain[i].urid \in UridsOf(ps[k]) /\ ps[l].chain[j].urid \in UridsOf(ps[l])
  BY <1>5, UridsOfSub
<1>7. k = l
  BY <1>4, <1>6 DEF PoolsOK
<1>8. \A x, y \in 1 .. Len(ps[k].chain) : ps[k].chain[x].urid = ps[k].chain[y].urid => x = y
  BY <1>1 DEF SubOK, OwnUrids
<1>9. i = j
  BY <1>4, <1>7, <1>8
<1> QED
  BY <1>20, <1>30, <1>7, <1>9

(* A block is freed in the k-th sub pool.                                  *)
FreedAt(ps, qs, k, b) ==
  PoolsOK(qs) /\ Changed(ps, qs, k) /\ TakenFrom(ps[k], qs[k], b)

LEMMA FreedAtFacts ==
  ASSUME NEW ps, PoolsOK(ps), NEW k \in 1 .. Len(ps), NEW qs, NEW b, FreedAt(ps, qs, k, b)
  PROVE  /\ Len(qs) = Len(ps) /\ b \in Block
         /\ SizeFree(qs) = SizeFree(ps) + Span(b) /\ NumberOfBlocks(ps) = NumberOfBlocks(qs) + 1
         /\ Entry(b) \in Entries(ps)
         /\ Entries(qs) = {e \in Entries(ps) : e[1] # b.urid}
<1>1. /\ ps \in Seq(SubPool) /\ PoolsOK(qs) /\ Changed(ps, qs, k) /\ TakenFrom(ps[k], qs[k], b)
      /\ qs \in Seq(SubPool) /\ Len(qs) = Len(ps) /\ b \in Block
      /\ \A l \in 1 .. Len(ps) : l # k => qs[l] = ps[l]
  BY DEF PoolsOK, FreedAt, Changed, TakenFrom
<1>2. /\ SizeFree(qs) + ps[k].free = SizeFree(ps) + qs[k].free
      /\ NumberOfBlocks(qs) + Len(ps[k].chain) = NumberOfBlocks(ps) + Len(qs[k].chain)
  BY <1>1, ChangedSums
<1>3. /\ qs[k].free = ps[k].free + Span(b) /\ Len(ps[k].chain) = Len(qs[k].chain) + 1
      /\ b \in Range(ps[k].chain)
  BY <1>1 DEF TakenFrom
<1>4. /\ ps[k].free \in Nat /\ Span(b) \in Nat /\ Len(qs[k].chain) \in Nat
      /\ SizeFree(ps) \in Nat /\ SizeFree(qs) \in Nat
      /\ NumberOfBlocks(ps) \in Nat /\ NumberOfBlocks(qs) \in Nat
  BY <1>1, PoolsFacts, SubFacts, BlockFacts, LenProperties
<1>5. SizeFree(qs) = SizeFree(ps) + Span(b) /\ NumberOfBlocks(ps) = NumberOfBlocks(qs) + 1
  <2>1. PICK f, g, s, m, n, c, d :
          /\ f = SizeFree(qs) /\ g = SizeFree(ps) /\ s = Span(b) /\ m = NumberOfBlocks(qs)
          /\ n = NumberOfBlocks(ps) /\ c = ps[k].free /\ d = Len(qs[k].chain)
    OBVIOUS
  <2>2. f \in Nat /\ g \in Nat /\ s \in Nat /\ m \in Nat /\ n \in Nat /\ c \in Nat /\ d \in Nat
    BY <1>4, <2>1
  <2>3. f + c = g + (c + s) /\ m + (d + 1) = n + d
    BY <1>2, <1>3, <2>1
  <2>4. f = g + s /\ n = m + 1
    BY <2>2, <2>3
  <2> QED
    BY <2>1, <2>4
<1>6. EntriesOf(qs[k]) = {e \in EntriesOf(ps[k]) : e[1] # b.urid} /\ Entry(b) \in EntriesOf(ps[k])
  BY <1>1, EntriesTaken
<1>7. Entry(b) \in Entries(ps)
  BY <1>1, <1>6, EntriesFacts
<1>8. b.urid \in UridsOf(ps[k])
  BY <1>3 DEF UridsOf
<1>9. ASSUME NEW l \in 1 .. Len(ps), l # k, NEW e \in EntriesOf(ps[l]) PROVE e[1] # b.urid
  <2>1. e[1] \in UridsOf(ps[l])
    BY <1>9, UridsOfEntries
  <2> QED
    BY <1>8, <1>9, <2>1 DEF PoolsOK
<1>10. ASSUME NEW e PROVE e \in Entries(qs) <=> e \in Entries(ps) /\ e[1] # b.urid
  <2>1. \A l \in 1 .. Len(ps) : e \in EntriesOf(qs[l]) <=> e \in EntriesOf(ps[l]) /\ e[1] # b.urid
    BY <1>1, <1>6, <1>9
  <2>2. e \in Entries(qs) <=> \E l \in 1 .. Len(ps) : e \in EntriesOf(qs[l])
    BY <1>1, EntriesFacts
  <2>3. e \in Entries(ps) <=> \E l \in 1 .. Len(ps) : e \in EntriesOf(ps[l])
    BY <1>1, EntriesFacts
  <2> QED
    BY <2>1, <2>2, <2>3
<1> QED
  BY <1>1, <1>5, <1>7, <1>10

LEMMA SubFreeAtOK ==
  ASSUME NEW ps, PoolsOK(ps), NEW k \in 1 .. Len(ps), NEW u \in UridsOf(ps[k]), NEW q, q = SubFree(ps[k], u)
  PROVE  \E b : b.urid = u /\ FreedAt(ps, [ps EXCEPT ![k] = q], k, b)
<1>1. ps \in Seq(SubPool) /\ SubOK(ps[k])
  BY DEF PoolsOK
<1>2. PICK b : b.urid = u /\ TakenFrom(ps[k], q, b)
  BY <1>1, SubFreeOK
<1>3. SubOK(q) /\ q \in SubPool
  BY <1>2 DEF TakenFrom, SubOK
<1>4. PICK qs : qs = [ps EXCEPT ![k] = q]
  OBVIOUS
<1>5. Changed(ps, qs, k) /\ qs[k] = q
  BY <1>1, <1>3, <1>4, ExceptChanged
<1>6. UridsOf(q) \subseteq UridsOf(ps[k])
  BY <1>2 DEF TakenFrom, UridsOf
<1>7. \A l \in 1 .. Len(ps) : l # k => UridsOf(qs[k]) \cap UridsOf(ps[l]) = {}
  BY <1>5, <1>6 DEF PoolsOK
<1>8. PoolsOK(qs)
  BY <1>3, <1>5, <1>7, ChangedOK
<1> QED
  BY <1>2, <1>4, <1>5, <1>8 DEF FreedAt

(* Idle sub pools stay so when another one changes.                        *)
LEMMA ChangedIdle ==
  ASSUME NEW ps \in Seq(SubPool), NEW k \in 1 .. Len(ps), NEW qs, Changed(ps, qs, k),
         NEW n \in 0 .. Len(ps), Idle(ps, n), k <= Len(ps) - n \/ IsEmpty(qs[k])
  PROVE  Idle(qs, n)
<1>1. Len(ps) \in Nat /\ Len(qs) = Len(ps) /\ \A l \in 1 .. Len(ps) : l # k => qs[l] = ps[l]
  BY LenProperties DEF Changed
<1>2. ASSUME NEW l \in Len(ps) - n + 1 .. Len(ps) PROVE IsEmpty(qs[l])
  <2>1. l \in 1 .. Len(ps) /\ (l = k => IsEmpty(qs[k]))
    BY <1>1
  <2>2. IsEmpty(ps[l])
    BY DEF Idle
  <2> QED
    BY <1>1, <2>1, <2>2
<1> QED
  BY <1>1, <1>2 DEF Idle

(***************************************************************************)
(* What aligning keeps: sound sub pools, as many, with the same blocks and *)
(* free bytes, and the idle ones idle.                                     *)
(***************************************************************************)
Rearranged(ps, qs) ==
  /\ PoolsOK(qs) /\ Len(qs) = Len(ps)
  /\ SizeFree(qs) = SizeFree(ps) /\ NumberOfBlocks(qs) = NumberOfBlocks(ps)
  /\ Entries(qs) = Entries(ps)
  /\ \A n \in 0 .. Len(ps) : Idle(ps, n) => Idle(qs, n)

LEMMA RearrangedSelf ==
  ASSUME NEW ps, PoolsOK(ps)
  PROVE  Rearranged(ps, ps)
BY DEF Rearranged

LEMMA RearrangedOnce ==
  ASSUME NEW ps, NEW qs, NEW rs, Rearranged(ps, qs), Rearranged(qs, rs)
  PROVE  Rearranged(ps, rs)
BY DEF Rearranged

(* A block from a later sub pool that fits dst moves there.                *)
LEMMA MoveBlockOK ==
  ASSUME NEW ps, PoolsOK(ps), NEW dst \in 1 .. Len(ps), NEW src \in 1 .. Len(ps), dst < src,
         Fitable(ps, dst, src) # {}
  PROVE  Rearranged(ps, MoveBlock(ps, dst, src))
<1>1. /\ ps \in Seq(SubPool) /\ Len(ps) \in Nat /\ DOMAIN ps = 1 .. Len(ps)
      /\ SubOK(ps[dst]) /\ SubOK(ps[src]) /\ dst # src
  BY LenProperties DEF PoolsOK
<1>2. ps[src].chain \in Seq(Block) /\ DOMAIN ps[src].chain = 1 .. Len(ps[src].chain) /\ ps[dst].free \in Nat
  BY <1>1, SubFacts, LenProperties DEF SubOK
<1>3. PICK i : i = Min(Fitable(ps, dst, src))
  OBVIOUS
<1>4. /\ i \in 1 .. Len(ps[src].chain)
      /\ ps[dst].free > Hdr /\ ps[src].chain[i].size <= ps[dst].free - Hdr
  <2>1. Fitable(ps, dst, src) \in SUBSET Nat
    BY <1>2 DEF Fitable
  <2>2. i \in Fitable(ps, dst, src)
    BY <1>3, <2>1, MinFacts
  <2> QED
    BY <1>2, <2>2 DEF Fitable
<1>5. PICK a : a = ps[src].chain[i]
  OBVIOUS
<1>6. /\ a \in Block /\ a.urid \in Urids /\ a.bit \in BOOLEAN /\ a.size \in Nat /\ a.data \in Contents
      /\ a.urid \in UridsOf(ps[src]) /\ a \in Range(ps[src].chain)
  <2>1. a \in Block
    BY <1>2, <1>4, <1>5, ChainFacts
  <2>2. a \in Range(ps[src].chain)
    BY <1>2, <1>4, <1>5 DEF Range
  <2> QED
    BY <2>1, <2>2, BlockFacts DEF UridsOf
<1>7. a.size + Hdr <= ps[dst].free
  <2>1. PICK f, s : f = ps[dst].free /\ s = a.size
    OBVIOUS
  <2>2. f \in Nat /\ s \in Nat /\ Hdr \in Nat /\ s <= f - Hdr
    BY <1>2, <1>4, <1>5, <1>6, <2>1, Numbers
  <2> QED
    BY <2>1, <2>2
<1>8. PICK p, q : p = SubFree(ps[src], a.urid) /\ q = MallocWithUrid(ps[dst], a.urid, a.bit, a.size, a.data)
  OBVIOUS
<1>9. PICK ms : ms = [ps EXCEPT ![src] = p]
  OBVIOUS
<1>10. PICK b : b.urid = a.urid /\ FreedAt(ps, ms, src, b)
  BY <1>6, <1>8, <1>9, SubFreeAtOK
<1>11. /\ PoolsOK(ms) /\ ms \in Seq(SubPool) /\ Len(ms) = Len(ps) /\ ms[dst] = ps[dst]
       /\ Changed(ps, ms, src) /\ DOMAIN ms = 1 .. Len(ps) /\ ms[src] = p
  <2>1. PoolsOK(ms) /\ Changed(ps, ms, src)
    BY <1>10 DEF FreedAt
  <2> QED
    BY <1>1, <1>9, <2>1, LenProperties DEF Changed
<1>12. a.urid \notin UridsOf(ps[dst])
  BY <1>1, <1>6 DEF PoolsOK
<1>13. PICK c : MadeOf(c, a.urid, a.bit, a.size, a.data) /\ Served(ms[dst], q, c)
  BY <1>1, <1>6, <1>7, <1>8, <1>11, <1>12, MallocWithUridOK
<1>14. PICK qs : qs = [ms EXCEPT ![dst] = q]
  OBVIOUS
<1>15. SubOK(q) /\ q \in SubPool /\ c \in Block /\ c.urid = a.urid
  BY <1>13 DEF Served, SubOK, MadeOf
<1>16. Changed(ms, qs, dst) /\ qs[dst] = q
  BY <1>11, <1>14, <1>15, ExceptChanged
<1>17. a.urid \notin LiveUrids(ms)
  <2>1. Entries(ms) = {e \in Entries(ps) : e[1] # a.urid}
    BY <1>10, FreedAtFacts
  <2> QED
    BY <1>11, <2>1, LiveUridsFacts
<1>18. PoolsOK(qs)
  <2>1. UridsOf(q) = UridsOf(ms[dst]) \cup {a.urid}
    <3>1. EntriesOf(q) = EntriesOf(ms[dst]) \cup {Entry(c)}
      BY <1>13 DEF Served
    <3>2. Entry(c)[1] = a.urid
      BY <1>15 DEF Entry
    <3> QED
      BY <3>1, <3>2, UridsOfEntries
  <2>2. \A l \in 1 .. Len(ms) : l # dst => UridsOf(ms[dst]) \cap UridsOf(ms[l]) = {} /\ a.urid \notin UridsOf(ms[l])
    BY <1>11, <1>17, LiveUridsFacts DEF PoolsOK
  <2>3. \A l \in 1 .. Len(ms) : l # dst => UridsOf(qs[dst]) \cap UridsOf(ms[l]) = {}
    BY <1>16, <2>1, <2>2
  <2>4. SubOK(qs[dst])
    BY <1>15, <1>16
  <2> QED
    BY <1>11, <1>16, <2>3, <2>4, ChangedOK
<1>19. ServedAt(ms, qs, dst, c)
  BY <1>13, <1>15, <1>16, <1>17, <1>18 DEF ServedAt
<1>20. qs = MoveBlock(ps, dst, src)
  <2>1. MoveBlock(ps, dst, src) = [ps EXCEPT ![dst] = q, ![src] = p]
    BY <1>1, <1>3, <1>5, <1>8 DEF MoveBlock
  <2>2. \A l \in 1 .. Len(ps) : [ps EXCEPT ![dst] = q, ![src] = p][l] = qs[l]
    BY <1>1, <1>9, <1>14
  <2>3. qs = [l \in 1 .. Len(ps) |-> qs[l]]
    BY <1>11, <1>14
  <2>4. [ps EXCEPT ![dst] = q, ![src] = p] = [l \in 1 .. Len(ps) |-> [ps EXCEPT ![dst] = q, ![src] = p][l]]
    BY <1>1
  <2> QED
    BY <2>1, <2>2, <2>3, <2>4
<1>21. /\ Len(qs) = Len(ms)
       /\ SizeFree(qs) + Span(c) = SizeFree(ms) /\ NumberOfBlocks(qs) = NumberOfBlocks(ms) + 1
       /\ Entries(qs) = Entries(ms) \cup {Entry(c)}
  BY <1>11, <1>19, ServedAtFacts
<1>22. /\ b \in Block /\ SizeFree(ms) = SizeFree(ps) + Span(b) /\ NumberOfBlocks(ps) = NumberOfBlocks(ms) + 1
       /\ Entry(b) \in Entries(ps) /\ Entries(ms) = {e \in Entries(ps) : e[1] # a.urid}
  BY <1>10, FreedAtFacts
<1>23. Entry(c) = Entry(a)
  BY <1>13 DEF MadeOf, Entry
<1>24. Entry(a) \in Entries(ps) /\ Entry(a)[1] = a.urid /\ Entry(b)[1] = a.urid
  <2>1. Entry(a) \in EntriesOf(ps[src])
    BY <1>6 DEF EntriesOf
  <2> QED
    BY <1>1, <1>10, <2>1, EntriesFacts DEF Entry
<1>25. Entry(b) = Entry(a)
  BY <1>22, <1>24, EntriesUnique
<1>26. Entries(qs) = Entries(ps)
  <2>1. \A e \in Entries(ps) : e[1] = a.urid => e = Entry(a)
    BY <1>24, EntriesUnique
  <2> QED
    BY <1>21, <1>22, <1>23, <1>24, <2>1
<1>27. Span(c) = Span(b)
  <2>1. b.size = a.size
    BY <1>25 DEF Entry
  <2>2. c.size = a.size
    BY <1>13 DEF MadeOf
  <2> QED
    BY <2>1, <2>2 DEF Span
<1>28. SizeFree(qs) = SizeFree(ps) /\ NumberOfBlocks(qs) = NumberOfBlocks(ps)
  <2>1. PICK f, g, h, s, m, n, o :
          /\ f = SizeFree(qs) /\ g = SizeFree(ps) /\ h = SizeFree(ms) /\ s = Span(b)
          /\ m = NumberOfBlocks(qs) /\ n = NumberOfBlocks(ps) /\ o = NumberOfBlocks(ms)
    OBVIOUS
  <2>2. qs \in Seq(SubPool)
    BY <1>18 DEF PoolsOK
  <2>3. f \in Nat /\ g \in Nat /\ h \in Nat /\ s \in Nat /\ m \in Nat /\ n \in Nat /\ o \in Nat
    BY <1>1, <1>11, <1>22, <2>1, <2>2, PoolsFacts, BlockFacts
  <2>4. f + s = h /\ h = g + s /\ n = o + 1 /\ m = o + 1
    BY <1>21, <1>22, <1>27, <2>1
  <2>5. f = g /\ m = n
    BY <2>3, <2>4
  <2> QED
    BY <2>1, <2>5
<1>29. ASSUME NEW n \in 0 .. Len(ps), Idle(ps, n) PROVE Idle(qs, n)
  <2>1. ~IsEmpty(ps[src])
    BY <1>2, <1>4 DEF IsEmpty
  <2>2. ~(src \in Len(ps) - n + 1 .. Len(ps))
    BY <1>29, <2>1 DEF Idle
  <2>3. src <= Len(ps) - n /\ dst <= Len(ps) - n /\ dst \in 1 .. Len(ms) /\ n \in 0 .. Len(ms)
    BY <1>1, <1>11, <2>2
  <2>4. Idle(ms, n)
    BY <1>1, <1>11, <1>29, <2>3, ChangedIdle
  <2> QED
    BY <1>11, <1>16, <2>3, <2>4, ChangedIdle
<1> QED
  BY <1>11, <1>18, <1>20, <1>21, <1>26, <1>28, <1>29 DEF Rearranged

(* A run with the rounds F, from x.                                        *)
RunOf(Q, n, x, F, g) ==
  /\ Series(g, n) /\ g[0] = x /\ \A m \in 1 .. n : g[m] = F[m][g[m - 1]]
  /\ \A m \in 0 .. n : g[m] \in Q[m]

LEMMA RunOfRounds ==
  ASSUME NEW Q, NEW n \in Nat, NEW x, NEW F, Rounds(Q, n, x, F)
  PROVE  \E g : RunOf(Q, n, x, F, g)
<1>1. PICK g : /\ Series(g, n) /\ g[0] = x /\ \A m \in 1 .. n : g[m] = F[m][g[m - 1]]
               /\ \A m \in 0 .. n : g[m] \in Q[m]
  BY RunExists
<1> QED
  BY <1>1 DEF RunOf

LEMMA DrainOK ==
  ASSUME NEW ps, PoolsOK(ps), NEW dst \in 1 .. Len(ps), NEW src \in 1 .. Len(ps), dst < src
  PROVE  Rearranged(ps, Drain(ps, dst, src))
<1>1. PICK n : n = Len(ps[src].chain)
  OBVIOUS
<1>2. n \in Nat /\ ps \in Seq(SubPool)
  BY <1>1, SubFacts, LenProperties DEF PoolsOK, SubOK
<1> DEFINE G == {qs \in Seq(SubPool) : Rearranged(ps, qs)}
           Step(s) == IF Fitable(s, dst, src) = {} THEN s ELSE MoveBlock(s, dst, src)
           Q == [m \in 0 .. n |-> G]
           F == [m \in 1 .. n |-> [s \in G |-> Step(s)]]
<1>3. ASSUME NEW s \in G PROVE Step(s) \in G
  <2>1. CASE Fitable(s, dst, src) = {}
    BY <2>1
  <2>2. CASE Fitable(s, dst, src) # {}
    <3>1. PoolsOK(s) /\ Len(s) = Len(ps) /\ Rearranged(ps, s)
      BY DEF Rearranged
    <3>2. Rearranged(s, MoveBlock(s, dst, src))
      BY <2>2, <3>1, MoveBlockOK
    <3>3. Rearranged(ps, MoveBlock(s, dst, src))
      BY <3>1, <3>2, RearrangedOnce
    <3>4. MoveBlock(s, dst, src) \in Seq(SubPool)
      BY <3>3 DEF Rearranged, PoolsOK
    <3> QED
      BY <2>2, <3>3, <3>4
  <2> QED
    BY <2>1, <2>2
<1>4. ps \in G
  BY <1>2, RearrangedSelf
<1> HIDE DEF G, Step
<1>5. \A m \in 1 .. n : m - 1 \in 0 .. n /\ m \in 0 .. n
  BY <1>2
<1>6. n \in 0 .. n /\ 0 \in 0 .. n
  BY <1>2
<1>7. PICK g : /\ Series(g, n) /\ g[0] = ps /\ \A m \in 1 .. n : g[m] = F[m][g[m - 1]]
               /\ \A m \in 0 .. n : g[m] \in Q[m]
  <2>1. ps \in Q[0]
    BY <1>4, <1>6
  <2>2. \A m \in 1 .. n : F[m] \in [Q[m - 1] -> Q[m]]
    BY <1>3, <1>5
  <2> HIDE DEF Q, F
  <2>3. Rounds(Q, n, ps, F)
    BY <2>1, <2>2 DEF Rounds
  <2>4. n \in Nat
    BY <1>2
  <2>5. \E g : RunOf(Q, n, ps, F, g)
    BY <2>3, <2>4, RunOfRounds
  <2> QED
    BY <2>5 DEF RunOf
<1>8. \A m \in 1 .. n : g[m] = Step(g[m - 1])
  BY <1>5, <1>7
<1>9. g = [m \in 0 .. n |-> IF m = 0 THEN ps
                            ELSE IF Fitable(g[m - 1], dst, src) = {} THEN g[m - 1]
                                 ELSE MoveBlock(g[m - 1], dst, src)]
  <2>1. \A m \in 0 .. n : g[m] = IF m = 0 THEN ps
                                 ELSE IF Fitable(g[m - 1], dst, src) = {} THEN g[m - 1]
                                      ELSE MoveBlock(g[m - 1], dst, src)
    <3> SUFFICES ASSUME NEW m \in 0 .. n, m # 0 PROVE g[m] = Step(g[m - 1])
      BY <1>7 DEF Step
    <3>1. m \in 1 .. n
      BY <1>2
    <3> QED
      BY <1>8, <3>1
  <2> QED
    BY <1>7, <2>1 DEF Series
<1>10. g = [m \in 0 .. Len(ps[src].chain) |->
              IF m = 0 THEN ps
              ELSE IF Fitable(g[m - 1], dst, src) = {} THEN g[m - 1]
                   ELSE MoveBlock(g[m - 1], dst, src)]
  BY <1>1, <1>9
<1>11. \E h : /\ h = [m \in 0 .. Len(ps[src].chain) |->
                        IF m = 0 THEN ps
                        ELSE IF Fitable(h[m - 1], dst, src) = {} THEN h[m - 1]
                             ELSE MoveBlock(h[m - 1], dst, src)]
              /\ Drain(ps, dst, src) = h[Len(ps[src].chain)]
  BY <1>10, Zenon DEF Drain
<1>12. PICK h : /\ h = [m \in 0 .. n |->
                          IF m = 0 THEN ps
                          ELSE IF Fitable(h[m - 1], dst, src) = {} THEN h[m - 1]
                               ELSE MoveBlock(h[m - 1], dst, src)]
                /\ Drain(ps, dst, src) = h[n]
  BY <1>1, <1>11
<1>13. h[0] = ps /\ \A m \in 1 .. n : h[m] = Step(h[m - 1])
  <2>1. h[0] = ps
    BY <1>6, <1>12
  <2>2. ASSUME NEW m \in 1 .. n PROVE m # 0 /\ m \in 0 .. n
    BY <1>2
  <2>3. ASSUME NEW m \in 1 .. n PROVE h[m] = Step(h[m - 1])
    BY <1>12, <2>2 DEF Step
  <2> QED
    BY <2>1, <2>3
<1>14. \A m \in 0 .. n : h[m] \in Q[m]
  <2>1. h[0] \in Q[0] /\ \A m \in 1 .. n : h[m - 1] \in Q[m - 1] => h[m] \in Q[m]
    BY <1>3, <1>4, <1>5, <1>6, <1>13
  <2> HIDE DEF Q
  <2> QED
    BY <1>2, <2>1, RunStaysWithin, Zenon
<1>15. Drain(ps, dst, src) \in G
  BY <1>6, <1>12, <1>14
<1> QED
  BY <1>15 DEF G

LEMMA FillFromLaterOK ==
  ASSUME NEW ps, PoolsOK(ps), NEW dst \in 1 .. Len(ps)
  PROVE  Rearranged(ps, FillFromLater(ps, dst))
<1>1. PICK n : n = Len(ps)
  OBVIOUS
<1>2. n \in Nat /\ ps \in Seq(SubPool) /\ dst \in Nat
  BY <1>1, LenProperties DEF PoolsOK
<1> DEFINE G == {qs \in Seq(SubPool) : Rearranged(ps, qs)}
           Step(m, s) == IF m <= dst THEN ps ELSE Drain(s, dst, m)
           Q == [m \in 0 .. n |-> G]
           F == [m \in 1 .. n |-> [s \in G |-> Step(m, s)]]
<1>4. ps \in G
  BY <1>2, RearrangedSelf
<1>3. ASSUME NEW m \in 1 .. n, NEW s \in G PROVE Step(m, s) \in G
  <2>1. CASE m <= dst
    BY <1>4, <2>1
  <2>2. CASE ~(m <= dst)
    <3>1. PoolsOK(s) /\ Len(s) = Len(ps) /\ Rearranged(ps, s)
      BY DEF Rearranged
    <3>2. dst < m /\ m \in 1 .. Len(s) /\ dst \in 1 .. Len(s)
      BY <1>1, <1>2, <2>2, <3>1
    <3>3. Rearranged(s, Drain(s, dst, m))
      BY <3>1, <3>2, DrainOK
    <3>4. Rearranged(ps, Drain(s, dst, m))
      BY <3>1, <3>3, RearrangedOnce
    <3>5. Drain(s, dst, m) \in Seq(SubPool)
      BY <3>4 DEF Rearranged, PoolsOK
    <3> QED
      BY <2>2, <3>4, <3>5
  <2> QED
    BY <2>1, <2>2
<1> HIDE DEF G, Step
<1>5. \A m \in 1 .. n : m - 1 \in 0 .. n /\ m \in 0 .. n
  BY <1>2
<1>6. n \in 0 .. n /\ 0 \in 0 .. n
  BY <1>2
<1>7. PICK g : /\ Series(g, n) /\ g[0] = ps /\ \A m \in 1 .. n : g[m] = F[m][g[m - 1]]
               /\ \A m \in 0 .. n : g[m] \in Q[m]
  <2>1. ps \in Q[0]
    BY <1>4, <1>6
  <2>2. \A m \in 1 .. n : F[m] \in [Q[m - 1] -> Q[m]]
    BY <1>3, <1>5
  <2> HIDE DEF Q, F
  <2>3. Rounds(Q, n, ps, F)
    BY <2>1, <2>2 DEF Rounds
  <2>4. n \in Nat
    BY <1>2
  <2>5. \E g : RunOf(Q, n, ps, F, g)
    BY <2>3, <2>4, RunOfRounds
  <2> QED
    BY <2>5 DEF RunOf
<1>8. \A m \in 1 .. n : g[m] = Step(m, g[m - 1])
  BY <1>5, <1>7
<1>9. g = [m \in 0 .. n |-> IF m <= dst THEN ps ELSE Drain(g[m - 1], dst, m)]
  <2>1. \A m \in 0 .. n : g[m] = IF m <= dst THEN ps ELSE Drain(g[m - 1], dst, m)
    <3>1. ASSUME NEW m \in 0 .. n, m = 0 PROVE g[m] = IF m <= dst THEN ps ELSE Drain(g[m - 1], dst, m)
      BY <1>2, <1>7, <3>1
    <3>2. ASSUME NEW m \in 0 .. n, m # 0 PROVE g[m] = IF m <= dst THEN ps ELSE Drain(g[m - 1], dst, m)
      <4>1. m \in 1 .. n
        BY <1>2, <3>2
      <4> QED
        BY <1>8, <4>1 DEF Step
    <3> QED
      BY <3>1, <3>2
  <2> QED
    BY <1>7, <2>1 DEF Series
<1>10. g = [src \in 0 .. Len(ps) |-> IF src <= dst THEN ps ELSE Drain(g[src - 1], dst, src)]
  BY <1>1, <1>9
<1>11. \E h : /\ h = [src \in 0 .. Len(ps) |-> IF src <= dst THEN ps ELSE Drain(h[src - 1], dst, src)]
              /\ FillFromLater(ps, dst) = h[Len(ps)]
  BY <1>10, Zenon DEF FillFromLater
<1>12. PICK h : /\ h = [src \in 0 .. n |-> IF src <= dst THEN ps ELSE Drain(h[src - 1], dst, src)]
                /\ FillFromLater(ps, dst) = h[n]
  BY <1>1, <1>11
<1>13. h[0] = ps /\ \A m \in 1 .. n : h[m] = Step(m, h[m - 1])
  BY <1>2, <1>12 DEF Step
<1>14. \A m \in 0 .. n : h[m] \in Q[m]
  <2>1. h[0] \in Q[0] /\ \A m \in 1 .. n : h[m - 1] \in Q[m - 1] => h[m] \in Q[m]
    BY <1>3, <1>4, <1>5, <1>6, <1>13
  <2> HIDE DEF Q
  <2> QED
    BY <1>2, <2>1, RunStaysWithin, Zenon
<1>15. FillFromLater(ps, dst) \in G
  BY <1>6, <1>12, <1>14
<1> QED
  BY <1>15 DEF G

LEMMA CompactAllOK ==
  ASSUME NEW ps, PoolsOK(ps)
  PROVE  Rearranged(ps, [k \in DOMAIN ps |-> Compact(ps[k])])
<1>1. /\ ps \in Seq(SubPool) /\ Len(ps) \in Nat /\ DOMAIN ps = 1 .. Len(ps)
      /\ \A k \in 1 .. Len(ps) : SubOK(ps[k])
  BY LenProperties DEF PoolsOK
<1>2. PICK qs : qs = [k \in DOMAIN ps |-> Compact(ps[k])]
  OBVIOUS
<1>3. \A k \in 1 .. Len(ps) : qs[k] = Compact(ps[k])
  BY <1>1, <1>2
<1>4. ASSUME NEW k \in 1 .. Len(ps)
      PROVE  /\ SubOK(qs[k]) /\ qs[k].free = ps[k].free /\ Len(qs[k].chain) = Len(ps[k].chain)
             /\ EntriesOf(qs[k]) = EntriesOf(ps[k]) /\ UridsOf(qs[k]) = UridsOf(ps[k])
  BY <1>1, <1>3, CompactOK
<1>5. qs \in Seq(SubPool) /\ Len(qs) = Len(ps)
  <2>1. qs \in [1 .. Len(ps) -> SubPool]
    BY <1>1, <1>2, <1>3, <1>4 DEF SubOK
  <2> QED
    BY <1>1, <2>1, FunctionIsSeq
<1>6. PoolsOK(qs)
  BY <1>4, <1>5 DEF PoolsOK
<1>7. SizeFree(qs) = SizeFree(ps) /\ NumberOfBlocks(qs) = NumberOfBlocks(ps)
  <2>1. Frees(qs) = Frees(ps) /\ Lengths(qs) = Lengths(ps)
    BY <1>1, <1>4, <1>5, LenProperties DEF Frees, Lengths
  <2> QED
    BY <1>1, <1>5, <2>1, PoolsFacts
<1>8. Entries(qs) = Entries(ps)
  BY <1>4, <1>5 DEF Entries
<1>9. ASSUME NEW n \in 0 .. Len(ps), Idle(ps, n) PROVE Idle(qs, n)
  <2>1. ASSUME NEW k \in Len(ps) - n + 1 .. Len(ps) PROVE IsEmpty(qs[k])
    <3>1. k \in 1 .. Len(ps) /\ IsEmpty(ps[k])
      BY <1>1, <1>9 DEF Idle
    <3>2. SubOK(qs[k]) /\ Len(qs[k].chain) = 0
      BY <1>4, <3>1 DEF IsEmpty
    <3> QED
      BY <3>2, SubFacts, EmptySeq DEF SubOK, IsEmpty
  <2> QED
    BY <1>5, <2>1 DEF Idle
<1> QED
  BY <1>2, <1>5, <1>6, <1>7, <1>8, <1>9 DEF Rearranged

LEMMA AlignBlocksOK ==
  ASSUME NEW ps, PoolsOK(ps)
  PROVE  Rearranged(ps, AlignBlocks(ps))
<1>1. PICK n, x : n = Len(ps) /\ x = [k \in DOMAIN ps |-> Compact(ps[k])]
  OBVIOUS
<1>2. n \in Nat /\ Rearranged(ps, x)
  BY <1>1, LenProperties, CompactAllOK DEF PoolsOK
<1> DEFINE G == {qs \in Seq(SubPool) : Rearranged(ps, qs)}
           Step(m, s) == FillFromLater(s, m)
           Q == [m \in 0 .. n |-> G]
           F == [m \in 1 .. n |-> [s \in G |-> Step(m, s)]]
<1>3. ASSUME NEW m \in 1 .. n, NEW s \in G PROVE Step(m, s) \in G
  <2>1. PoolsOK(s) /\ Len(s) = Len(ps) /\ Rearranged(ps, s)
    BY DEF Rearranged
  <2>2. m \in 1 .. Len(s)
    BY <1>1, <2>1
  <2>3. Rearranged(s, Step(m, s))
    BY <2>1, <2>2, FillFromLaterOK
  <2>4. Rearranged(ps, Step(m, s))
    BY <2>1, <2>3, RearrangedOnce
  <2>5. Step(m, s) \in Seq(SubPool)
    BY <2>4 DEF Rearranged, PoolsOK
  <2> QED
    BY <2>4, <2>5
<1>4. x \in G
  BY <1>2 DEF Rearranged, PoolsOK
<1> HIDE DEF G, Step
<1>5. \A m \in 1 .. n : m - 1 \in 0 .. n /\ m \in 0 .. n
  BY <1>2
<1>6. n \in 0 .. n /\ 0 \in 0 .. n
  BY <1>2
<1>7. PICK g : /\ Series(g, n) /\ g[0] = x /\ \A m \in 1 .. n : g[m] = F[m][g[m - 1]]
               /\ \A m \in 0 .. n : g[m] \in Q[m]
  <2>1. x \in Q[0]
    BY <1>4, <1>6
  <2>2. \A m \in 1 .. n : F[m] \in [Q[m - 1] -> Q[m]]
    BY <1>3, <1>5
  <2> HIDE DEF Q, F
  <2>3. Rounds(Q, n, x, F)
    BY <2>1, <2>2 DEF Rounds
  <2>4. n \in Nat
    BY <1>2
  <2>5. \E g : RunOf(Q, n, x, F, g)
    BY <2>3, <2>4, RunOfRounds
  <2> QED
    BY <2>5 DEF RunOf
<1>8. \A m \in 1 .. n : g[m] = Step(m, g[m - 1])
  BY <1>5, <1>7
<1>9. g = [m \in 0 .. n |-> IF m = 0 THEN x ELSE FillFromLater(g[m - 1], m)]
  <2>1. \A m \in 0 .. n : g[m] = IF m = 0 THEN x ELSE FillFromLater(g[m - 1], m)
    <3> SUFFICES ASSUME NEW m \in 0 .. n, m # 0 PROVE g[m] = Step(m, g[m - 1])
      BY <1>7 DEF Step
    <3>1. m \in 1 .. n
      BY <1>2
    <3> QED
      BY <1>8, <3>1
  <2> QED
    BY <1>7, <2>1 DEF Series
<1>10. g = [dst \in 0 .. Len(ps) |->
              IF dst = 0 THEN [k \in DOMAIN ps |-> Compact(ps[k])] ELSE FillFromLater(g[dst - 1], dst)]
  BY <1>1, <1>9
<1>11. \E h : /\ h = [dst \in 0 .. Len(ps) |->
                        IF dst = 0 THEN [k \in DOMAIN ps |-> Compact(ps[k])]
                        ELSE FillFromLater(h[dst - 1], dst)]
              /\ AlignBlocks(ps) = h[Len(ps)]
  BY <1>10, Zenon DEF AlignBlocks
<1>12. PICK h : /\ h = [dst \in 0 .. n |-> IF dst = 0 THEN x ELSE FillFromLater(h[dst - 1], dst)]
                /\ AlignBlocks(ps) = h[n]
  BY <1>1, <1>11
<1>13. h[0] = x /\ \A m \in 1 .. n : h[m] = Step(m, h[m - 1])
  <2>1. h[0] = x
    BY <1>6, <1>12
  <2>2. ASSUME NEW m \in 1 .. n PROVE m # 0 /\ m \in 0 .. n
    BY <1>2
  <2>3. ASSUME NEW m \in 1 .. n PROVE h[m] = Step(m, h[m - 1])
    BY <1>12, <2>2 DEF Step
  <2> QED
    BY <2>1, <2>3
<1>14. \A m \in 0 .. n : h[m] \in Q[m]
  <2>1. h[0] \in Q[0] /\ \A m \in 1 .. n : h[m - 1] \in Q[m - 1] => h[m] \in Q[m]
    BY <1>3, <1>4, <1>5, <1>6, <1>13
  <2> HIDE DEF Q
  <2> QED
    BY <1>2, <2>1, RunStaysWithin, Zenon
<1>15. AlignBlocks(ps) \in G
  BY <1>6, <1>12, <1>14
<1> QED
  BY <1>15 DEF G

LEMMA SubNewOK ==
  ASSUME NEW base \in 1 .. MaxPools
  PROVE  /\ SubOK(SubNew(base)) /\ IsEmpty(SubNew(base)) /\ SubNew(base).free = Final
         /\ Len(SubNew(base).chain) = 0
         /\ EntriesOf(SubNew(base)) = {} /\ UridsOf(SubNew(base)) = {}
<1>1. PICK sp : sp = SubNew(base)
  OBVIOUS
<1>2. sp.chain = <<>> /\ sp.free = Final /\ sp.base = base
  BY <1>1 DEF SubNew
<1>3. Len(sp.chain) = 0 /\ sp.chain \in Seq(Block) /\ DOMAIN sp.chain = {}
  <2>1. Len(sp.chain) = 0 /\ sp.chain \in Seq(Block)
    BY <1>2, EmptySeq
  <2> QED
    BY <2>1, LenProperties
<1>4. sp \in SubPool
  <2>1. Final \in Nat /\ Final <= Final /\ <<>> \in Seq(Block)
    BY <1>2, <1>3, Numbers
  <2>2. [base |-> base, free |-> Final, chain |-> <<>>] \in SubPool
    BY <2>1, SubMade
  <2> QED
    BY <1>1, <2>2 DEF SubNew
<1>5. SumOf(Spans(sp.chain)) = 0
  <2>1. Spans(sp.chain) \in Seq(Nat) /\ Len(Spans(sp.chain)) = 0
    BY <1>3, SpansFacts
  <2> QED
    BY <2>1, SumsFacts
<1>6. Apart(sp.chain) /\ OwnUrids(sp.chain)
  BY <1>3 DEF Apart, OwnUrids
<1>7. sp.free = Final - SumOf(Spans(sp.chain))
  BY <1>2, <1>5, Numbers
<1>8. Range(sp.chain) = {}
  BY <1>3 DEF Range
<1> QED
  BY <1>1, <1>2, <1>3, <1>4, <1>6, <1>7, <1>8 DEF SubOK, IsEmpty, EntriesOf, UridsOf

LEMMA EmptyPool ==
  ASSUME NEW sp, SubOK(sp)
  PROVE  /\ IsEmpty(sp) <=> Len(sp.chain) = 0
         /\ IsEmpty(sp) => /\ sp.free = Final /\ EntriesOf(sp) = {} /\ UridsOf(sp) = {}
<1>1. sp.chain \in Seq(Block) /\ sp.free = Final - SumOf(Spans(sp.chain))
  BY SubFacts DEF SubOK
<1>2. IsEmpty(sp) <=> Len(sp.chain) = 0
  BY <1>1, EmptySeq DEF IsEmpty
<1>3. ASSUME IsEmpty(sp) PROVE sp.free = Final /\ EntriesOf(sp) = {} /\ UridsOf(sp) = {}
  <2>1. Spans(sp.chain) \in Seq(Nat) /\ Len(Spans(sp.chain)) = 0
    BY <1>1, <1>2, <1>3, SpansFacts
  <2>2. SumOf(Spans(sp.chain)) = 0
    BY <2>1, SumsFacts
  <2>3. Range(sp.chain) = {}
    <3>1. DOMAIN sp.chain = {}
      BY <1>1, <1>2, <1>3, LenProperties
    <3> QED
      BY <3>1 DEF Range
  <2> QED
    BY <1>1, <2>2, <2>3, Numbers DEF EntriesOf, UridsOf
<1> QED
  BY <1>2, <1>3

LEMMA FreshBaseOK ==
  ASSUME NEW ps \in Seq(SubPool), Len(ps) < MaxPools
  PROVE  FreshBase(ps) \in 1 .. MaxPools
<1> DEFINE B == {ps[k].base : k \in DOMAIN ps}
           f == [x \in 1 .. MaxPools |-> CHOOSE k \in 1 .. Len(ps) : ps[k].base = x]
<1>1. Len(ps) \in Nat /\ DOMAIN ps = 1 .. Len(ps) /\ MaxPools \in Nat
  BY PoolAssumption, LenProperties
<1>2. ASSUME 1 .. MaxPools \subseteq B PROVE FALSE
  <2>1. ASSUME NEW x \in 1 .. MaxPools PROVE f[x] \in 1 .. Len(ps) /\ ps[f[x]].base = x
    <3>1. \E k \in 1 .. Len(ps) : ps[k].base = x
      BY <1>1, <1>2
    <3> QED
      BY <3>1
  <2>2. f \in [1 .. MaxPools -> 1 .. Len(ps)]
    BY <2>1
  <2>3. \A x, y \in 1 .. MaxPools : f[x] = f[y] => x = y
    BY <2>1
  <2> HIDE DEF f
  <2>4. DOMAIN f = 1 .. MaxPools
    BY <2>2
  <2>5. f \in Injection(1 .. MaxPools, 1 .. Len(ps))
    BY <2>2, <2>3, <2>4 DEF Injection, IsInjective
  <2>6. 1 \in Int /\ Len(ps) \in Int /\ MaxPools \in Int
    BY <1>1
  <2>7. IsFiniteSet(1 .. Len(ps)) /\ Cardinality(1 .. Len(ps)) = IF 1 > Len(ps) THEN 0 ELSE Len(ps) - 1 + 1
    BY <2>6, FS_Interval
  <2>8. Cardinality(1 .. MaxPools) = IF 1 > MaxPools THEN 0 ELSE MaxPools - 1 + 1
    BY <2>6, FS_Interval
  <2>9. Cardinality(1 .. MaxPools) <= Cardinality(1 .. Len(ps))
    BY <2>5, <2>7, FS_Injection
  <2>10. Cardinality(1 .. Len(ps)) = Len(ps)
    BY <1>1, <2>7
  <2>11. Cardinality(1 .. MaxPools) = MaxPools
    BY <1>1, <2>8
  <2> QED
    BY <1>1, <2>9, <2>10, <2>11
<1>3. (1 .. MaxPools) \ B \in SUBSET Nat /\ (1 .. MaxPools) \ B # {}
  BY <1>2
<1>4. Min((1 .. MaxPools) \ B) \in (1 .. MaxPools) \ B
  <2> HIDE DEF B
  <2> QED
    BY <1>3, MinFacts
<1> QED
  BY <1>4 DEF FreshBase

(* One sub pool more.                                                      *)
LEMMA AppendPool ==
  ASSUME NEW s, PoolsOK(s), NEW sp, SubOK(sp),
         \A i \in 1 .. Len(s) : UridsOf(s[i]) \cap UridsOf(sp) = {}
  PROVE  /\ PoolsOK(Append(s, sp)) /\ Len(Append(s, sp)) = Len(s) + 1
         /\ SizeFree(Append(s, sp)) = SizeFree(s) + sp.free
         /\ NumberOfBlocks(Append(s, sp)) = NumberOfBlocks(s) + Len(sp.chain)
         /\ \A e : e \in Entries(Append(s, sp)) <=> e \in Entries(s) \/ e \in EntriesOf(sp)
<1>1. PICK qs, n : qs = Append(s, sp) /\ n = Len(s)
  OBVIOUS
<1>2. s \in Seq(SubPool) /\ sp \in SubPool /\ n \in Nat /\ sp.free \in Nat /\ Len(sp.chain) \in Nat
  BY <1>1, SubFacts, LenProperties DEF PoolsOK, SubOK
<1>3. qs \in Seq(SubPool) /\ Len(qs) = n + 1 /\ qs[n + 1] = sp /\ \A k \in 1 .. n : qs[k] = s[k]
  BY <1>1, <1>2, AppendProperties
<1>4. n + 1 \in 1 .. n + 1 /\ \A k \in 1 .. n + 1 : k \in 1 .. n \/ k = n + 1
  BY <1>2
<1>5. PoolsOK(qs)
  <2>1. \A k \in 1 .. n : SubOK(s[k])
    BY <1>1 DEF PoolsOK
  <2>2. \A k, l \in 1 .. n : k # l => UridsOf(s[k]) \cap UridsOf(s[l]) = {}
    BY <1>1 DEF PoolsOK
  <2>3. \A k \in 1 .. n + 1 : SubOK(qs[k])
    BY <1>3, <1>4, <2>1
  <2>4. \A k \in 1 .. n : UridsOf(s[k]) \cap UridsOf(sp) = {} /\ UridsOf(sp) \cap UridsOf(s[k]) = {}
    BY <1>1
  <2>5. ASSUME NEW k \in 1 .. n + 1, NEW l \in 1 .. n + 1, k # l
        PROVE  UridsOf(qs[k]) \cap UridsOf(qs[l]) = {}
    <3>1. CASE k \in 1 .. n /\ l \in 1 .. n
      BY <1>3, <2>2, <2>5, <3>1
    <3>2. CASE k = n + 1 /\ l \in 1 .. n
      BY <1>3, <2>4, <3>2
    <3>3. CASE l = n + 1 /\ k \in 1 .. n
      BY <1>3, <2>4, <3>3
    <3> QED
      BY <1>4, <2>5, <3>1, <3>2, <3>3
  <2> QED
    BY <1>3, <2>3, <2>5 DEF PoolsOK
<1>6. /\ Frees(s) \in Seq(Nat) /\ Len(Frees(s)) = n
      /\ Lengths(s) \in Seq(Nat) /\ Len(Lengths(s)) = n
      /\ \A k \in 1 .. n : Frees(s)[k] = s[k].free /\ Lengths(s)[k] = Len(s[k].chain)
      /\ SizeFree(s) = SumOf(Frees(s)) /\ NumberOfBlocks(s) = SumOf(Lengths(s))
  BY <1>1, <1>2, PoolsFacts
<1>7. /\ Frees(qs) \in Seq(Nat) /\ Len(Frees(qs)) = n + 1
      /\ Lengths(qs) \in Seq(Nat) /\ Len(Lengths(qs)) = n + 1
      /\ \A k \in 1 .. n + 1 : Frees(qs)[k] = qs[k].free /\ Lengths(qs)[k] = Len(qs[k].chain)
      /\ SizeFree(qs) = SumOf(Frees(qs)) /\ NumberOfBlocks(qs) = SumOf(Lengths(qs))
  BY <1>3, PoolsFacts
<1>8. Inserted(Frees(s), Frees(qs), n + 1, sp.free) /\ Inserted(Lengths(s), Lengths(qs), n + 1, Len(sp.chain))
  <2>1. \A k \in 1 .. n : k \in 1 .. n + 1
    BY <1>2
  <2>2. Frees(qs)[n + 1] = sp.free /\ Lengths(qs)[n + 1] = Len(sp.chain)
    BY <1>3, <1>4, <1>7
  <2>3. \A k \in 1 .. n : Frees(qs)[k] = Frees(s)[k] /\ Lengths(qs)[k] = Lengths(s)[k]
    BY <1>3, <1>6, <1>7, <2>1
  <2>4. \A k \in 1 .. (n + 1) - 1 : k \in 1 .. n
    BY <1>2
  <2>5. \A k \in n + 1 .. n : FALSE
    BY <1>2
  <2> QED
    BY <1>4, <1>6, <1>7, <2>2, <2>3, <2>4, <2>5 DEF Inserted
<1>9. SumOf(Frees(qs)) = SumOf(Frees(s)) + sp.free
  BY <1>2, <1>6, <1>7, <1>8, SumInserted
<1>10. SumOf(Lengths(qs)) = SumOf(Lengths(s)) + Len(sp.chain)
  BY <1>2, <1>6, <1>7, <1>8, SumInserted
<1>11. ASSUME NEW e PROVE e \in Entries(qs) <=> e \in Entries(s) \/ e \in EntriesOf(sp)
  <2>1. e \in Entries(qs) <=> \E k \in 1 .. n + 1 : e \in EntriesOf(qs[k])
    BY <1>3, EntriesFacts
  <2>2. e \in Entries(s) <=> \E k \in 1 .. n : e \in EntriesOf(s[k])
    BY <1>1, <1>2, EntriesFacts
  <2>3. \A k \in 1 .. n : k \in 1 .. n + 1
    BY <1>2
  <2> QED
    BY <1>3, <1>4, <2>1, <2>2, <2>3
<1> QED
  BY <1>1, <1>3, <1>5, <1>6, <1>7, <1>9, <1>10, <1>11

(* An empty sub pool at the end.                                           *)
Extended(ps, qs) ==
  /\ PoolsOK(qs) /\ Len(qs) = Len(ps) + 1
  /\ SizeFree(qs) = SizeFree(ps) + Final /\ NumberOfBlocks(qs) = NumberOfBlocks(ps)
  /\ Entries(qs) = Entries(ps)
  /\ IsEmpty(qs[Len(ps) + 1]) /\ \A k \in 1 .. Len(ps) : qs[k] = ps[k]
  /\ \A n \in 0 .. Len(ps) : Idle(ps, n) => Idle(qs, n + 1)

LEMMA ExtendedOK ==
  ASSUME NEW ps, PoolsOK(ps), Len(ps) < MaxPools
  PROVE  Extended(ps, Extend(ps, TRUE))
<1>1. PICK b, sp, qs, n : b = FreshBase(ps) /\ sp = SubNew(b) /\ qs = Append(ps, sp) /\ n = Len(ps)
  OBVIOUS
<1>2. /\ ps \in Seq(SubPool) /\ n \in Nat
      /\ SubOK(sp) /\ IsEmpty(sp) /\ sp.free = Final /\ Len(sp.chain) = 0
      /\ EntriesOf(sp) = {} /\ UridsOf(sp) = {} /\ sp \in SubPool
  <2>1. ps \in Seq(SubPool)
    BY DEF PoolsOK
  <2>2. b \in 1 .. MaxPools
    BY <1>1, <2>1, FreshBaseOK
  <2> QED
    BY <1>1, <2>1, <2>2, SubNewOK, LenProperties DEF SubOK
<1>3. Len(qs) = n + 1 /\ qs[n + 1] = sp /\ \A k \in 1 .. n : qs[k] = ps[k]
  BY <1>1, <1>2, AppendProperties
<1>4. /\ PoolsOK(qs) /\ SizeFree(qs) = SizeFree(ps) + Final
      /\ NumberOfBlocks(qs) = NumberOfBlocks(ps) + 0 /\ \A e : e \in Entries(qs) <=> e \in Entries(ps)
  <2>1. \A i \in 1 .. Len(ps) : UridsOf(ps[i]) \cap UridsOf(sp) = {}
    BY <1>2
  <2>2. /\ PoolsOK(qs) /\ SizeFree(qs) = SizeFree(ps) + sp.free
        /\ NumberOfBlocks(qs) = NumberOfBlocks(ps) + Len(sp.chain)
        /\ \A e : e \in Entries(qs) <=> e \in Entries(ps) \/ e \in EntriesOf(sp)
    BY <1>1, <1>2, <2>1, AppendPool
  <2> QED
    BY <1>2, <2>2
<1>5. NumberOfBlocks(qs) = NumberOfBlocks(ps) /\ Entries(qs) = Entries(ps)
  <2>1. NumberOfBlocks(ps) \in Nat
    BY <1>2, PoolsFacts
  <2> QED
    BY <1>4, <2>1
<1>6. ASSUME NEW m \in 0 .. n, Idle(ps, m) PROVE Idle(qs, m + 1)
  <2>1. ASSUME NEW k \in Len(qs) - (m + 1) + 1 .. Len(qs) PROVE IsEmpty(qs[k])
    <3>1. (k = n + 1 \/ k \in n - m + 1 .. n) /\ \A l \in n - m + 1 .. n : l \in 1 .. n
      BY <1>2, <1>3
    <3>2. \A l \in n - m + 1 .. n : IsEmpty(ps[l])
      BY <1>1, <1>6 DEF Idle
    <3> QED
      BY <1>2, <1>3, <3>1, <3>2
  <2> QED
    BY <2>1 DEF Idle
<1>7. Extend(ps, TRUE) = qs
  BY <1>1 DEF Extend
<1> QED
  BY <1>1, <1>2, <1>3, <1>4, <1>5, <1>6, <1>7 DEF Extended

LEMMA Distributes ==
  ASSUME NEW a \in Nat, NEW b \in Nat, NEW c \in Nat
  PROVE  /\ (a + b) * c = a * c + b * c /\ a * c \in Nat
         /\ (a + 1) * c = a * c + c
         /\ 0 * c = 0 /\ 1 * c = c
OBVIOUS

(***************************************************************************)
(* What is left of the first m sub pools without the empty ones.           *)
(***************************************************************************)
KeptOf(ps, m, s) ==
  /\ PoolsOK(s) /\ Len(s) <= m
  /\ \A i \in 1 .. Len(s) : ~IsEmpty(s[i]) /\ \E k \in 1 .. m : s[i] = ps[k]
  /\ \A e : e \in Entries(s) <=> \E k \in 1 .. m : e \in EntriesOf(ps[k])
  /\ Sums(Frees(ps))[m] = SizeFree(s) + (m - Len(s)) * Final
  /\ Sums(Lengths(ps))[m] = NumberOfBlocks(s)
  /\ \A j \in 0 .. m : (\A k \in j + 1 .. m : IsEmpty(ps[k])) => Len(s) <= j

LEMMA KeptSame ==
  ASSUME NEW ps, PoolsOK(ps), NEW m \in 1 .. Len(ps), NEW s, KeptOf(ps, m - 1, s), IsEmpty(ps[m])
  PROVE  KeptOf(ps, m, s)
<1>1. ps \in Seq(SubPool) /\ Len(ps) \in Nat /\ m \in Nat /\ m - 1 \in Nat /\ m - 1 \in 0 .. m /\ SubOK(ps[m])
  BY LenProperties DEF PoolsOK
<1>2. /\ PoolsOK(s) /\ Len(s) <= m - 1 /\ s \in Seq(SubPool) /\ Len(s) \in Nat /\ SizeFree(s) \in Nat
      /\ NumberOfBlocks(s) \in Nat
  BY PoolsFacts DEF KeptOf, PoolsOK
<1>3. \A k : k \in 1 .. m <=> k \in 1 .. m - 1 \/ k = m
  BY <1>1
<1>4. ps[m].free = Final /\ EntriesOf(ps[m]) = {} /\ Len(ps[m].chain) = 0
  BY <1>1, EmptyPool
<1>5. /\ Sums(Frees(ps))[m] = Sums(Frees(ps))[m - 1] + Final
      /\ Sums(Lengths(ps))[m] = Sums(Lengths(ps))[m - 1] + 0
  <2>1. Frees(ps) \in Seq(Nat) /\ Lengths(ps) \in Seq(Nat) /\ Len(Frees(ps)) = Len(ps) /\ Len(Lengths(ps)) = Len(ps)
    BY <1>1, PoolsFacts
  <2>2. Frees(ps)[m] = Final /\ Lengths(ps)[m] = 0
    BY <1>1, <1>4, PoolsFacts
  <2> QED
    BY <2>1, <2>2, SumsFacts
<1>6. Sums(Frees(ps))[m] = SizeFree(s) + (m - Len(s)) * Final
  <2>1. PICK d \in Nat : m - 1 = Len(s) + d
    <3>1. m - 1 - Len(s) \in Nat /\ m - 1 = Len(s) + (m - 1 - Len(s))
      BY <1>1, <1>2
    <3> QED
      BY <3>1
  <2>2. (m - 1) - Len(s) = d /\ m - Len(s) = d + 1
    BY <1>1, <1>2, <2>1
  <2>3. (d + 1) * Final = d * Final + Final /\ d * Final \in Nat /\ Final \in Nat
    BY Numbers, Distributes
  <2>4. Sums(Frees(ps))[m - 1] = SizeFree(s) + d * Final
    BY <2>2 DEF KeptOf
  <2>5. Sums(Frees(ps))[m] = SizeFree(s) + d * Final + Final
    BY <1>5, <2>4
  <2>6. Sums(Frees(ps))[m] = SizeFree(s) + (d + 1) * Final
    BY <1>2, <2>3, <2>5
  <2> QED
    BY <2>2, <2>6
<1>7. Sums(Lengths(ps))[m] = NumberOfBlocks(s)
  BY <1>2, <1>5 DEF KeptOf
<1>8. ASSUME NEW j \in 0 .. m, \A k \in j + 1 .. m : IsEmpty(ps[k]) PROVE Len(s) <= j
  <2>1. CASE j = m
    BY <1>1, <1>2, <2>1
  <2>2. CASE j # m
    <3>1. j \in 0 .. m - 1 /\ \A k \in j + 1 .. m - 1 : k \in j + 1 .. m
      BY <1>1, <2>2
    <3> QED
      BY <1>8, <3>1 DEF KeptOf
  <2> QED
    BY <2>1, <2>2
<1>9. \A i \in 1 .. Len(s) : ~IsEmpty(s[i]) /\ \E k \in 1 .. m : s[i] = ps[k]
  BY <1>3 DEF KeptOf
<1>10. ASSUME NEW e PROVE e \in Entries(s) <=> \E k \in 1 .. m : e \in EntriesOf(ps[k])
  BY <1>3, <1>4 DEF KeptOf
<1>11. Len(s) <= m
  BY <1>1, <1>2
<1> QED
  BY <1>2, <1>6, <1>7, <1>8, <1>9, <1>10, <1>11 DEF KeptOf

LEMMA KeptMore ==
  ASSUME NEW ps, PoolsOK(ps), NEW m \in 1 .. Len(ps), NEW s, KeptOf(ps, m - 1, s), ~IsEmpty(ps[m])
  PROVE  KeptOf(ps, m, Append(s, ps[m]))
<1>1. ps \in Seq(SubPool) /\ Len(ps) \in Nat /\ m \in Nat /\ m - 1 \in Nat /\ m - 1 \in 0 .. m /\ SubOK(ps[m])
  BY LenProperties DEF PoolsOK
<1>2. /\ PoolsOK(s) /\ Len(s) <= m - 1 /\ s \in Seq(SubPool) /\ Len(s) \in Nat /\ SizeFree(s) \in Nat
      /\ NumberOfBlocks(s) \in Nat
  BY PoolsFacts DEF KeptOf, PoolsOK
<1>3. \A k : k \in 1 .. m <=> k \in 1 .. m - 1 \/ k = m
  BY <1>1
<1>4. PICK q, sp : q = Append(s, sp) /\ sp = ps[m]
  OBVIOUS
<1>5. ASSUME NEW i \in 1 .. Len(s) PROVE UridsOf(s[i]) \cap UridsOf(sp) = {}
  <2>1. PICK k \in 1 .. m - 1 : s[i] = ps[k]
    BY DEF KeptOf
  <2>2. k \in 1 .. Len(ps) /\ k # m
    BY <1>1
  <2> QED
    BY <1>4, <2>1, <2>2 DEF PoolsOK
<1>6. /\ PoolsOK(q) /\ Len(q) = Len(s) + 1
      /\ SizeFree(q) = SizeFree(s) + sp.free
      /\ NumberOfBlocks(q) = NumberOfBlocks(s) + Len(sp.chain)
      /\ \A e : e \in Entries(q) <=> e \in Entries(s) \/ e \in EntriesOf(sp)
  BY <1>1, <1>2, <1>4, <1>5, AppendPool
<1>7. sp \in SubPool /\ sp.free \in Nat /\ Len(sp.chain) \in Nat
  BY <1>1, <1>4, SubFacts, LenProperties DEF SubOK
<1>8. q[Len(s) + 1] = sp /\ \A i \in 1 .. Len(s) : q[i] = s[i]
  BY <1>2, <1>4, <1>7, AppendProperties
<1>9. /\ Sums(Frees(ps))[m] = Sums(Frees(ps))[m - 1] + sp.free
      /\ Sums(Lengths(ps))[m] = Sums(Lengths(ps))[m - 1] + Len(sp.chain)
  <2>1. Frees(ps) \in Seq(Nat) /\ Lengths(ps) \in Seq(Nat) /\ Len(Frees(ps)) = Len(ps) /\ Len(Lengths(ps)) = Len(ps)
    BY <1>1, PoolsFacts
  <2>2. Frees(ps)[m] = sp.free /\ Lengths(ps)[m] = Len(sp.chain)
    BY <1>1, <1>4, PoolsFacts
  <2> QED
    BY <2>1, <2>2, SumsFacts
<1>10. Sums(Frees(ps))[m] = SizeFree(q) + (m - Len(q)) * Final
  <2>1. PICK d \in Nat : m - 1 = Len(s) + d
    <3>1. m - 1 - Len(s) \in Nat /\ m - 1 = Len(s) + (m - 1 - Len(s))
      BY <1>1, <1>2
    <3> QED
      BY <3>1
  <2>2. (m - 1) - Len(s) = d /\ m - Len(q) = d
    BY <1>1, <1>2, <1>6, <2>1
  <2>3. d * Final \in Nat
    BY Numbers, Distributes
  <2>4. Sums(Frees(ps))[m - 1] = SizeFree(s) + d * Final
    BY <2>2 DEF KeptOf
  <2>5. Sums(Frees(ps))[m] = (SizeFree(s) + d * Final) + sp.free
    BY <1>9, <2>4
  <2>6. Sums(Frees(ps))[m] = SizeFree(q) + d * Final
    BY <1>2, <1>6, <1>7, <2>3, <2>5
  <2> QED
    BY <2>2, <2>6
<1>11. Sums(Lengths(ps))[m] = NumberOfBlocks(q)
  BY <1>2, <1>6, <1>9 DEF KeptOf
<1>12. ASSUME NEW j \in 0 .. m, \A k \in j + 1 .. m : IsEmpty(ps[k]) PROVE Len(q) <= j
  <2>1. ~(m \in j + 1 .. m)
    BY <1>12
  <2>2. j = m
    BY <1>1, <2>1
  <2> QED
    BY <1>1, <1>2, <1>6, <2>2
<1>13. ASSUME NEW i \in 1 .. Len(q) PROVE ~IsEmpty(q[i]) /\ \E k \in 1 .. m : q[i] = ps[k]
  <2>1. CASE i \in 1 .. Len(s)
    BY <1>3, <1>8, <2>1 DEF KeptOf
  <2>2. CASE i = Len(s) + 1
    BY <1>3, <1>4, <1>8, <2>2
  <2>3. i \in 1 .. Len(s) \/ i = Len(s) + 1
    BY <1>2, <1>6
  <2> QED
    BY <2>1, <2>2, <2>3
<1>14. ASSUME NEW e PROVE e \in Entries(q) <=> \E k \in 1 .. m : e \in EntriesOf(ps[k])
  BY <1>3, <1>4, <1>6 DEF KeptOf
<1>15. Len(q) <= m
  BY <1>1, <1>2, <1>6
<1>16. KeptOf(ps, m, q)
  BY <1>6, <1>10, <1>11, <1>12, <1>13, <1>14, <1>15 DEF KeptOf
<1> QED
  BY <1>4, <1>16

LEMMA NoPools ==
  /\ PoolsOK(<<>>) /\ Len(<<>>) = 0 /\ SizeFree(<<>>) = 0 /\ NumberOfBlocks(<<>>) = 0
  /\ Entries(<<>>) = {}
<1>1. PICK s : s = <<>>
  OBVIOUS
<1>2. s \in Seq(SubPool) /\ Len(s) = 0
  BY <1>1, EmptySeq
<1>3. PoolsOK(s)
  BY <1>2 DEF PoolsOK
<1>4. Frees(s) \in Seq(Nat) /\ Len(Frees(s)) = 0 /\ Lengths(s) \in Seq(Nat) /\ Len(Lengths(s)) = 0
      /\ SizeFree(s) = SumOf(Frees(s)) /\ NumberOfBlocks(s) = SumOf(Lengths(s))
  BY <1>2, PoolsFacts
<1>5. SumOf(Frees(s)) = 0 /\ SumOf(Lengths(s)) = 0
  BY <1>4, SumsFacts
<1>6. Entries(s) = {}
  BY <1>2 DEF Entries
<1> QED
  BY <1>1, <1>2, <1>3, <1>4, <1>5, <1>6

LEMMA KeptNone ==
  ASSUME NEW ps, PoolsOK(ps)
  PROVE  KeptOf(ps, 0, <<>>)
<1>1. ps \in Seq(SubPool)
  BY DEF PoolsOK
<1>2. Frees(ps) \in Seq(Nat) /\ Lengths(ps) \in Seq(Nat)
  BY <1>1, PoolsFacts
<1>3. Sums(Frees(ps))[0] = 0 /\ Sums(Lengths(ps))[0] = 0
  BY <1>2, SumsFacts
<1>4. 0 * Final = 0 /\ Final \in Nat
  BY Numbers, Distributes
<1>5. PICK s : s = <<>>
  OBVIOUS
<1>6. PoolsOK(s) /\ Len(s) = 0 /\ SizeFree(s) = 0 /\ NumberOfBlocks(s) = 0 /\ Entries(s) = {}
  BY <1>5, NoPools
<1>7. Sums(Frees(ps))[0] = SizeFree(s) + (0 - Len(s)) * Final
  <2>1. 0 - Len(s) = 0
    BY <1>6
  <2> QED
    BY <1>3, <1>4, <1>6, <2>1
<1>8. KeptOf(ps, 0, s)
  BY <1>3, <1>6, <1>7 DEF KeptOf
<1> QED
  BY <1>5, <1>8

LEMMA NonEmptyKept ==
  ASSUME NEW ps, PoolsOK(ps)
  PROVE  KeptOf(ps, Len(ps), NonEmpty(ps))
<1>1. PICK n : n = Len(ps)
  OBVIOUS
<1>2. n \in Nat /\ ps \in Seq(SubPool)
  BY <1>1, LenProperties DEF PoolsOK
<1> DEFINE Step(m, s) == IF IsEmpty(ps[m]) THEN s ELSE Append(s, ps[m])
           Q == [m \in 0 .. n |-> {s \in Seq(SubPool) : KeptOf(ps, m, s)}]
           F == [m \in 1 .. n |-> [s \in Q[m - 1] |-> Step(m, s)]]
<1>3. \A m \in 1 .. n : m - 1 \in 0 .. n /\ m \in 0 .. n
  BY <1>2
<1>4. n \in 0 .. n /\ 0 \in 0 .. n
  BY <1>2
<1>5. ASSUME NEW m \in 1 .. n, NEW s \in Q[m - 1] PROVE Step(m, s) \in Q[m]
  <2>1. KeptOf(ps, m - 1, s)
    BY <1>3
  <2>2. KeptOf(ps, m, Step(m, s))
    BY <1>1, <2>1, KeptSame, KeptMore
  <2>3. Step(m, s) \in Seq(SubPool)
    BY <2>2 DEF KeptOf, PoolsOK
  <2> QED
    BY <1>3, <2>2, <2>3
<1>6. <<>> \in Q[0]
  <2>1. KeptOf(ps, 0, <<>>)
    BY KeptNone
  <2>2. <<>> \in Seq(SubPool)
    BY EmptySeq
  <2> QED
    BY <1>4, <2>1, <2>2
<1> HIDE DEF Step
<1>7. PICK g : /\ Series(g, n) /\ g[0] = <<>> /\ \A m \in 1 .. n : g[m] = F[m][g[m - 1]]
               /\ \A m \in 0 .. n : g[m] \in Q[m]
  <2>1. \A m \in 1 .. n : F[m] \in [Q[m - 1] -> Q[m]]
    <3> HIDE DEF Q
    <3> QED
      BY <1>5
  <2> HIDE DEF Q, F
  <2>2. Rounds(Q, n, <<>>, F)
    BY <1>6, <2>1 DEF Rounds
  <2>3. n \in Nat
    BY <1>2
  <2>4. \E g : RunOf(Q, n, <<>>, F, g)
    BY <2>2, <2>3, RunOfRounds
  <2> QED
    BY <2>4 DEF RunOf
<1>8. \A m \in 1 .. n : g[m] = Step(m, g[m - 1])
  <2> SUFFICES ASSUME NEW m \in 1 .. n PROVE g[m] = Step(m, g[m - 1])
    OBVIOUS
  <2>1. g[m - 1] \in Q[m - 1] /\ g[m] = F[m][g[m - 1]]
    BY <1>3, <1>7
  <2> HIDE DEF Q
  <2> QED
    BY <2>1
<1>9. g = [m \in 0 .. n |-> IF m = 0 THEN <<>>
                            ELSE IF IsEmpty(ps[m]) THEN g[m - 1] ELSE Append(g[m - 1], ps[m])]
  <2>1. \A m \in 0 .. n : g[m] = IF m = 0 THEN <<>>
                                 ELSE IF IsEmpty(ps[m]) THEN g[m - 1] ELSE Append(g[m - 1], ps[m])
    <3> SUFFICES ASSUME NEW m \in 0 .. n, m # 0 PROVE g[m] = Step(m, g[m - 1])
      BY <1>7 DEF Step
    <3>1. m \in 1 .. n
      BY <1>2
    <3> QED
      BY <1>8, <3>1
  <2> QED
    BY <1>7, <2>1 DEF Series
<1>10. g = [m \in 0 .. Len(ps) |-> IF m = 0 THEN <<>>
                                   ELSE IF IsEmpty(ps[m]) THEN g[m - 1] ELSE Append(g[m - 1], ps[m])]
  BY <1>1, <1>9
<1>11. \E h : /\ h = [m \in 0 .. Len(ps) |->
                        IF m = 0 THEN <<>>
                        ELSE IF IsEmpty(ps[m]) THEN h[m - 1] ELSE Append(h[m - 1], ps[m])]
              /\ NonEmpty(ps) = h[Len(ps)]
  BY <1>10, Zenon DEF NonEmpty
<1>12. PICK h : /\ h = [m \in 0 .. n |->
                          IF m = 0 THEN <<>>
                          ELSE IF IsEmpty(ps[m]) THEN h[m - 1] ELSE Append(h[m - 1], ps[m])]
                /\ NonEmpty(ps) = h[n]
  BY <1>1, <1>11
<1>13. h[0] = <<>> /\ \A m \in 1 .. n : h[m] = Step(m, h[m - 1])
  <2>1. h[0] = <<>>
    BY <1>4, <1>12
  <2>2. ASSUME NEW m \in 1 .. n PROVE m # 0 /\ m \in 0 .. n
    BY <1>2
  <2>3. ASSUME NEW m \in 1 .. n PROVE h[m] = Step(m, h[m - 1])
    BY <1>12, <2>2 DEF Step
  <2> QED
    BY <2>1, <2>3
<1>14. \A m \in 0 .. n : h[m] \in Q[m]
  <2>1. h[0] \in Q[0] /\ \A m \in 1 .. n : h[m - 1] \in Q[m - 1] => h[m] \in Q[m]
    BY <1>5, <1>6, <1>13
  <2>2. n \in Nat
    BY <1>2
  <2> HIDE DEF Q
  <2> QED
    BY <2>1, <2>2, RunStaysWithin, Zenon
<1> QED
  BY <1>1, <1>4, <1>12, <1>14

(* Trimming keeps the blocks; what it gives back is empty.                 *)
Trimmed(ps, qs) ==
  /\ PoolsOK(qs) /\ Len(qs) <= Len(ps)
  /\ SizeFree(ps) = SizeFree(qs) + (Len(ps) - Len(qs)) * Final
  /\ NumberOfBlocks(qs) = NumberOfBlocks(ps)
  /\ Entries(qs) = Entries(ps)
  /\ \A n \in 0 .. Len(ps) : Idle(ps, n) => Len(qs) <= Len(ps) - n

LEMMA NonEmptyOK ==
  ASSUME NEW ps, PoolsOK(ps)
  PROVE  Trimmed(ps, NonEmpty(ps))
<1>1. PICK qs, n : qs = NonEmpty(ps) /\ n = Len(ps)
  OBVIOUS
<1>2. KeptOf(ps, n, qs) /\ ps \in Seq(SubPool) /\ n \in Nat
  BY <1>1, NonEmptyKept, LenProperties DEF PoolsOK
<1>3. /\ Len(Frees(ps)) = n /\ Frees(ps) \in Seq(Nat) /\ Len(Lengths(ps)) = n /\ Lengths(ps) \in Seq(Nat)
      /\ SizeFree(ps) = SumOf(Frees(ps)) /\ NumberOfBlocks(ps) = SumOf(Lengths(ps))
  BY <1>1, <1>2, PoolsFacts
<1>4. SizeFree(ps) = Sums(Frees(ps))[n] /\ NumberOfBlocks(ps) = Sums(Lengths(ps))[n]
  BY <1>3, SumsFacts
<1>5. Entries(qs) = Entries(ps)
  <2>1. \A e : e \in Entries(ps) <=> \E k \in 1 .. n : e \in EntriesOf(ps[k])
    BY <1>1, <1>2, EntriesFacts
  <2> QED
    BY <1>2, <2>1 DEF KeptOf
<1>6. ASSUME NEW m \in 0 .. n, Idle(ps, m) PROVE Len(qs) <= n - m
  <2>1. n - m \in 0 .. n
    BY <1>2
  <2>2. \A k \in (n - m) + 1 .. n : IsEmpty(ps[k])
    BY <1>1, <1>6 DEF Idle
  <2> QED
    BY <1>2, <2>1, <2>2 DEF KeptOf
<1>7. /\ PoolsOK(qs) /\ Len(qs) <= n
      /\ SizeFree(ps) = SizeFree(qs) + (n - Len(qs)) * Final /\ NumberOfBlocks(qs) = NumberOfBlocks(ps)
  BY <1>2, <1>4 DEF KeptOf
<1> QED
  BY <1>1, <1>5, <1>6, <1>7 DEF Trimmed

LEMMA MultMono ==
  ASSUME NEW a \in Nat, NEW b \in Nat, NEW c \in Nat, a <= b
  PROVE  a * c <= b * c
<1>1. PICK d \in Nat : b = a + d
  <2>1. b - a \in Nat /\ b = a + (b - a)
    OBVIOUS
  <2> QED
    BY <2>1
<1>2. b * c = a * c + d * c /\ d * c \in Nat /\ a * c \in Nat
  BY <1>1, Distributes
<1> QED
  BY <1>2

LEMMA SumBounded ==
  ASSUME NEW s \in Seq(Nat), NEW c \in Nat, \A j \in 1 .. Len(s) : s[j] <= c
  PROVE  SumOf(s) <= Len(s) * c
<1>1. PICK n, p : n = Len(s) /\ p = Sums(s)
  OBVIOUS
<1>2. /\ n \in Nat /\ p[0] = 0 /\ SumOf(s) = p[n]
      /\ \A m \in 0 .. n : p[m] \in Nat
      /\ \A m \in 1 .. n : p[m] = p[m - 1] + s[m] /\ s[m] <= c /\ s[m] \in Nat
  BY <1>1, SumsFacts, ElementOfSeq
<1> DEFINE M == {m \in Nat : m <= n => p[m] <= m * c}
<1>3. 0 \in M
  BY <1>2, Distributes
<1>4. ASSUME NEW m \in Nat, m \in M PROVE m + 1 \in M
  <2> SUFFICES ASSUME m + 1 <= n PROVE p[m + 1] <= (m + 1) * c
    OBVIOUS
  <2>1. m + 1 \in 1 .. n /\ (m + 1) - 1 = m /\ m \in 0 .. n /\ m <= n
    BY <1>2
  <2>2. p[m] <= m * c /\ p[m] \in Nat
    BY <1>2, <1>4, <2>1
  <2>3. p[m + 1] = p[m] + s[m + 1] /\ s[m + 1] <= c /\ s[m + 1] \in Nat
    BY <1>2, <2>1
  <2>4. (m + 1) * c = m * c + c /\ m * c \in Nat
    BY Distributes
  <2> QED
    BY <2>2, <2>3, <2>4
<1>5. \A m \in Nat : m \in M
  <2> HIDE DEF M
  <2> QED
    BY <1>3, <1>4, NatSetInduction
<1>6. n <= n
  BY <1>2
<1>7. p[n] <= n * c
  BY <1>2, <1>5, <1>6
<1> QED
  BY <1>1, <1>2, <1>7

(* What the blocks and the final blocks take.                              *)
Used(ps) == SizeCapacity(ps) - SizeFree(ps)

LEMMA UsedFacts ==
  ASSUME NEW ps, PoolsOK(ps)
  PROVE  /\ Len(ps) \in Nat /\ SizeCapacity(ps) = Len(ps) * SubSize /\ SizeCapacity(ps) \in Nat
         /\ SizeFree(ps) \in Nat /\ SizeFree(ps) <= Len(ps) * Final
         /\ Used(ps) \in Nat /\ Used(ps) = Len(ps) * SubSize - SizeFree(ps)
         /\ NumberOfBlocks(ps) \in Nat
         /\ Used(ps) >= Len(ps) * Hdr
<1>1. PICK n : n = Len(ps)
  OBVIOUS
<1>2. n \in Nat /\ ps \in Seq(SubPool) /\ SizeFree(ps) \in Nat /\ NumberOfBlocks(ps) \in Nat
  BY <1>1, PoolsFacts DEF PoolsOK
<1>3. SizeFree(ps) <= n * Final
  <2>1. /\ Frees(ps) \in Seq(Nat) /\ Len(Frees(ps)) = n /\ SizeFree(ps) = SumOf(Frees(ps))
        /\ \A k \in 1 .. n : Frees(ps)[k] = ps[k].free
    BY <1>1, <1>2, PoolsFacts
  <2>2. \A k \in 1 .. n : ps[k].free <= Final
    BY <1>1, <1>2, PoolsFacts, SubFacts
  <2>3. \A k \in 1 .. Len(Frees(ps)) : Frees(ps)[k] <= Final
    BY <2>1, <2>2
  <2>4. Final \in Nat
    BY Numbers
  <2>5. SumOf(Frees(ps)) <= Len(Frees(ps)) * Final
    BY <2>1, <2>3, <2>4, SumBounded
  <2> QED
    BY <2>1, <2>5
<1>4. SubSize = Final + Hdr /\ Final \in Nat /\ Hdr \in Nat /\ SubSize \in Nat
  BY Numbers
<1>5. n * SubSize = n * Final + n * Hdr /\ n * Final \in Nat /\ n * Hdr \in Nat /\ n * SubSize \in Nat
  <2>1. n * (Final + Hdr) = n * Final + n * Hdr
    BY <1>2, <1>4
  <2>2. n * Final \in Nat /\ n * Hdr \in Nat
    BY <1>2, <1>4, Distributes
  <2> QED
    BY <1>4, <2>1, <2>2
<1>6. SizeCapacity(ps) = n * SubSize
  BY <1>1 DEF SizeCapacity
<1>7. Used(ps) = n * SubSize - SizeFree(ps)
  BY <1>6 DEF Used
<1>8. Used(ps) \in Nat /\ Used(ps) >= n * Hdr
  BY <1>2, <1>3, <1>5, <1>7
<1> QED
  BY <1>1, <1>2, <1>3, <1>5, <1>6, <1>7, <1>8

LEMMA MaxFacts ==
  ASSUME NEW a \in Nat, NEW b \in Nat
  PROVE  Max({a, b}) \in Nat /\ a <= Max({a, b}) /\ b <= Max({a, b})
<1>1. \E x \in {a, b} : \A y \in {a, b} : x >= y
  <2>1. CASE a <= b
    BY <2>1
  <2>2. CASE ~(a <= b)
    BY <2>2
  <2> QED
    BY <2>1, <2>2
<1>2. Max({a, b}) \in {a, b} /\ \A y \in {a, b} : Max({a, b}) >= y
  BY <1>1 DEF Max
<1> QED
  BY <1>2

(***************************************************************************)
(* The figures of the pool, as functions of the state.                     *)
(***************************************************************************)
InfoOf(ps, bl, cap, us) ==
  /\ bl = NumberOfBlocks(ps)
  /\ \E n \in 0 .. Len(ps) :
       /\ Idle(ps, n)
       /\ cap = SizeCapacity(ps) - n * SubSize
       /\ us = SizeCapacity(ps) - SizeFree(ps) - n * Hdr

PeaksOf(ps, bl, pk) ==
  /\ bl <= pk.blocks
  /\ \E n \in 0 .. Len(ps) :
       /\ Idle(ps, n)
       /\ SizeCapacity(ps) - n * SubSize <= pk.capacity
       /\ SizeCapacity(ps) - SizeFree(ps) - n * Hdr <= pk.usage

PoolInv(ps, bl, cap, us, pk) ==
  /\ PoolsOK(ps) /\ Len(ps) <= MaxPools
  /\ cap \in Nat /\ us \in Nat /\ pk \in [capacity: Nat, usage: Nat, blocks: Nat]
  /\ InfoOf(ps, bl, cap, us) /\ PeaksOf(ps, bl, pk)

LEMMA NoneIdle ==
  ASSUME NEW ps, Len(ps) \in Nat
  PROVE  0 \in 0 .. Len(ps) /\ Idle(ps, 0)
<1>1. \A k \in Len(ps) - 0 + 1 .. Len(ps) : FALSE
  OBVIOUS
<1> QED
  BY <1>1 DEF Idle

(* The figures computed anew are exact.                                    *)
LEMMA InfoAnew ==
  ASSUME NEW ps, PoolsOK(ps), NEW bl, bl = NumberOfBlocks(ps)
  PROVE  /\ InfoOf(ps, bl, SizeCapacity(ps), SizeCapacity(ps) - SizeFree(ps))
         /\ SizeCapacity(ps) \in Nat /\ SizeCapacity(ps) - SizeFree(ps) \in Nat
<1>1. PICK c, f : c = SizeCapacity(ps) /\ f = SizeFree(ps)
  OBVIOUS
<1>2. c \in Nat /\ f \in Nat /\ c - f \in Nat /\ Len(ps) \in Nat
  BY <1>1, UsedFacts DEF Used
<1>3. 0 \in 0 .. Len(ps) /\ Idle(ps, 0)
  BY <1>2, NoneIdle
<1>4. 0 * SubSize = 0 /\ 0 * Hdr = 0
  BY Numbers, Distributes
<1>5. c = c - 0 * SubSize /\ c - f = c - f - 0 * Hdr
  BY <1>2, <1>4
<1> QED
  BY <1>1, <1>2, <1>3, <1>5 DEF InfoOf

(* The same blocks with the same free bytes, and x empty sub pools more.   *)
Grown(ps, qs, x) ==
  /\ PoolsOK(qs) /\ Len(qs) = Len(ps) + x
  /\ SizeFree(qs) = SizeFree(ps) + x * Final /\ NumberOfBlocks(qs) = NumberOfBlocks(ps)
  /\ Entries(qs) = Entries(ps)
  /\ \A n \in 0 .. Len(ps) : Idle(ps, n) => Idle(qs, n + x)

LEMMA GrownFigures ==
  ASSUME NEW ps, PoolsOK(ps), NEW x \in Nat, NEW qs, Grown(ps, qs, x), NEW n \in 0 .. Len(ps)
  PROVE  /\ n + x \in 0 .. Len(qs)
         /\ SizeCapacity(qs) - (n + x) * SubSize = SizeCapacity(ps) - n * SubSize
         /\ SizeCapacity(qs) - SizeFree(qs) - (n + x) * Hdr = SizeCapacity(ps) - SizeFree(ps) - n * Hdr
<1>1. PICK l, f, ns, xs, nh, xh, xf, ls :
        /\ l = Len(ps) /\ f = SizeFree(ps) /\ ns = n * SubSize /\ xs = x * SubSize
        /\ nh = n * Hdr /\ xh = x * Hdr /\ xf = x * Final /\ ls = l * SubSize
  OBVIOUS
<1>2. /\ l \in Nat /\ f \in Nat /\ SubSize \in Nat /\ Hdr \in Nat /\ Final \in Nat /\ SubSize = Final + Hdr
      /\ n \in Nat /\ n <= l
  BY <1>1, UsedFacts, Numbers
<1>3. /\ ns \in Nat /\ xs \in Nat /\ nh \in Nat /\ xh \in Nat /\ xf \in Nat /\ ls \in Nat
  BY <1>1, <1>2, Distributes
<1>4. xs = xf + xh
  <2>1. x * (Final + Hdr) = x * Final + x * Hdr
    BY <1>2
  <2> QED
    BY <1>1, <1>2, <2>1
<1>5. (n + x) * SubSize = ns + xs /\ (n + x) * Hdr = nh + xh /\ (l + x) * SubSize = ls + xs
  BY <1>1, <1>2, Distributes
<1>6. SizeCapacity(ps) = ls /\ SizeCapacity(qs) = ls + xs /\ SizeFree(qs) = f + xf /\ Len(qs) = l + x
  <2>1. SizeCapacity(ps) = l * SubSize
    BY <1>1 DEF SizeCapacity
  <2>2. Len(qs) = l + x /\ SizeFree(qs) = f + xf
    BY <1>1 DEF Grown
  <2>3. SizeCapacity(qs) = (l + x) * SubSize
    BY <2>2 DEF SizeCapacity
  <2> QED
    BY <1>1, <1>5, <2>1, <2>2, <2>3
<1>7. n + x \in 0 .. l + x
  BY <1>2
<1>8. (ls + xs) - (ns + xs) = ls - ns /\ (ls + xs) - (f + xf) - (nh + xh) = ls - f - nh
  BY <1>2, <1>3, <1>4
<1> QED
  BY <1>1, <1>5, <1>6, <1>7, <1>8

LEMMA GrownInv ==
  ASSUME NEW ps, NEW bl, NEW cap, NEW us, NEW pk, PoolInv(ps, bl, cap, us, pk),
         NEW x \in Nat, NEW qs, Grown(ps, qs, x), Len(qs) <= MaxPools
  PROVE  PoolInv(qs, bl, cap, us, pk)
<1>1. /\ PoolsOK(ps) /\ cap \in Nat /\ us \in Nat /\ pk \in [capacity: Nat, usage: Nat, blocks: Nat]
      /\ InfoOf(ps, bl, cap, us) /\ PeaksOf(ps, bl, pk)
  BY DEF PoolInv
<1>2. PoolsOK(qs) /\ NumberOfBlocks(qs) = NumberOfBlocks(ps)
  BY DEF Grown
<1>3. InfoOf(qs, bl, cap, us)
  <2>1. PICK n \in 0 .. Len(ps) :
          /\ Idle(ps, n)
          /\ cap = SizeCapacity(ps) - n * SubSize
          /\ us = SizeCapacity(ps) - SizeFree(ps) - n * Hdr
    BY <1>1 DEF InfoOf
  <2>2. Idle(qs, n + x)
    BY <2>1 DEF Grown
  <2>3. /\ n + x \in 0 .. Len(qs)
        /\ SizeCapacity(qs) - (n + x) * SubSize = SizeCapacity(ps) - n * SubSize
        /\ SizeCapacity(qs) - SizeFree(qs) - (n + x) * Hdr = SizeCapacity(ps) - SizeFree(ps) - n * Hdr
    BY <1>1, GrownFigures
  <2>4. cap = SizeCapacity(qs) - (n + x) * SubSize /\ us = SizeCapacity(qs) - SizeFree(qs) - (n + x) * Hdr
    BY <2>1, <2>3
  <2>5. bl = NumberOfBlocks(qs)
    BY <1>1, <1>2 DEF InfoOf
  <2> QED
    BY <2>2, <2>3, <2>4, <2>5 DEF InfoOf
<1>4. PeaksOf(qs, bl, pk)
  <2>1. PICK n \in 0 .. Len(ps) :
          /\ Idle(ps, n)
          /\ SizeCapacity(ps) - n * SubSize <= pk.capacity
          /\ SizeCapacity(ps) - SizeFree(ps) - n * Hdr <= pk.usage
    BY <1>1 DEF PeaksOf
  <2>2. Idle(qs, n + x)
    BY <2>1 DEF Grown
  <2>3. /\ n + x \in 0 .. Len(qs)
        /\ SizeCapacity(qs) - (n + x) * SubSize = SizeCapacity(ps) - n * SubSize
        /\ SizeCapacity(qs) - SizeFree(qs) - (n + x) * Hdr = SizeCapacity(ps) - SizeFree(ps) - n * Hdr
    BY <1>1, GrownFigures
  <2>4. /\ SizeCapacity(qs) - (n + x) * SubSize <= pk.capacity
        /\ SizeCapacity(qs) - SizeFree(qs) - (n + x) * Hdr <= pk.usage
    BY <2>1, <2>3
  <2>5. bl <= pk.blocks
    BY <1>1 DEF PeaksOf
  <2> QED
    BY <2>2, <2>3, <2>4, <2>5 DEF PeaksOf
<1> QED
  BY <1>1, <1>2, <1>3, <1>4 DEF PoolInv

LEMMA ServedInOK ==
  ASSUME PoolsOK(pools), Len(pools) <= MaxPools, NEW size, NEW granted \in BOOLEAN,
         NEW qs, qs = ServedIn(size, granted)
  PROVE  /\ \E x \in {0, 1} : Grown(pools, qs, x)
         /\ Len(qs) <= MaxPools
         /\ noalign => \A k \in 1 .. Len(pools) : qs[k] = pools[k]
<1>1. PICK al : al = IF ~noalign /\ Len(pools) > 1 /\ SizeFree(pools) >= size + Hdr
                     THEN AlignBlocks(pools) ELSE pools
  OBVIOUS
<1>2. Rearranged(pools, al) /\ (noalign => al = pools)
  BY <1>1, AlignBlocksOK, RearrangedSelf
<1>3. ASSUME NEW rs, Rearranged(pools, rs) PROVE Grown(pools, rs, 0) /\ Len(rs) <= MaxPools
  <2>1. SizeFree(pools) \in Nat /\ Len(pools) \in Nat /\ 0 * Final = 0
    BY UsedFacts, Numbers, Distributes
  <2>2. SizeFree(pools) + 0 * Final = SizeFree(pools) /\ Len(pools) + 0 = Len(pools)
    BY <2>1
  <2>3. \A n \in 0 .. Len(pools) : n + 0 = n
    BY <2>1
  <2> QED
    BY <1>3, <2>2, <2>3 DEF Rearranged, Grown
<1>4. CASE qs = pools
  <2>1. Rearranged(pools, pools)
    BY RearrangedSelf
  <2> QED
    BY <1>3, <1>4, <2>1
<1>5. CASE qs = al
  BY <1>2, <1>3, <1>5
<1>6. CASE qs = Extend(al, granted)
  <2>1. CASE ~(Len(al) < MaxPools /\ granted)
    <3>1. qs = al
      BY <1>6, <2>1 DEF Extend
    <3> QED
      BY <1>5, <3>1
  <2>2. CASE Len(al) < MaxPools /\ granted
    <3>1. qs = Extend(al, TRUE) /\ PoolsOK(al) /\ Len(al) = Len(pools)
      BY <1>2, <1>6, <2>2 DEF Rearranged, Extend
    <3>2. Extended(al, qs)
      BY <2>2, <3>1, ExtendedOK
    <3>3. 1 * Final = Final /\ Len(pools) \in Nat /\ MaxPools \in Nat
      BY Numbers, Distributes, UsedFacts, PoolAssumption
    <3>4. Grown(pools, qs, 1)
      BY <1>2, <3>1, <3>2, <3>3 DEF Rearranged, Extended, Grown
    <3>5. Len(qs) <= MaxPools
      <4>1. PICK l, m : l = Len(al) /\ m = Len(qs)
        OBVIOUS
      <4>2. l \in Nat /\ m = l + 1 /\ l < MaxPools
        BY <2>2, <3>1, <3>2, <3>3, <4>1 DEF Extended
      <4> QED
        BY <3>3, <4>1, <4>2
    <3>6. noalign => \A k \in 1 .. Len(pools) : qs[k] = pools[k]
      BY <1>2, <3>2 DEF Extended
    <3> QED
      BY <3>4, <3>5, <3>6
  <2> QED
    BY <2>1, <2>2
<1>7. qs = pools \/ qs = al \/ qs = Extend(al, granted)
  <2>1. ServedIn(size, granted) = CASE CanMalloc(pools, size) -> pools
                                    [] ~CanMalloc(pools, size) /\ CanMalloc(al, size) -> al
                                    [] OTHER -> Extend(al, granted)
    BY <1>1 DEF ServedIn
  <2> QED
    BY <2>1
<1> QED
  BY <1>4, <1>5, <1>6, <1>7

LEMMA AllocatedInv ==
  ASSUME NEW qs, PoolsOK(qs), Len(qs) <= MaxPools, NEW bl, bl = NumberOfBlocks(qs),
         NEW pk \in [capacity: Nat, usage: Nat, blocks: Nat], NEW cap, NEW us,
         cap = SizeCapacity(qs), us = SizeCapacity(qs) - SizeFree(qs), NEW npk,
         npk = [capacity |-> Max({pk.capacity, cap}), usage |-> Max({pk.usage, us}),
                blocks |-> Max({pk.blocks, bl})]
  PROVE  PoolInv(qs, bl, cap, us, npk)
<1>1. InfoOf(qs, bl, cap, us) /\ cap \in Nat /\ us \in Nat
  BY InfoAnew
<1>2. bl \in Nat /\ pk.capacity \in Nat /\ pk.usage \in Nat /\ pk.blocks \in Nat
  BY UsedFacts
<1>3. /\ npk.capacity \in Nat /\ npk.usage \in Nat /\ npk.blocks \in Nat
      /\ cap <= npk.capacity /\ us <= npk.usage /\ bl <= npk.blocks
  BY <1>1, <1>2, MaxFacts
<1>4. npk \in [capacity: Nat, usage: Nat, blocks: Nat]
  BY <1>1, <1>2, MaxFacts
<1>5. PeaksOf(qs, bl, npk)
  <2>1. PICK n \in 0 .. Len(qs) :
          /\ Idle(qs, n)
          /\ cap = SizeCapacity(qs) - n * SubSize
          /\ us = SizeCapacity(qs) - SizeFree(qs) - n * Hdr
    BY <1>1 DEF InfoOf
  <2>2. SizeCapacity(qs) - n * SubSize <= npk.capacity /\ SizeCapacity(qs) - SizeFree(qs) - n * Hdr <= npk.usage
    <3> QED
      BY <1>3, <2>1
  <2> QED
    BY <1>3, <2>1, <2>2 DEF PeaksOf
<1> QED
  BY <1>1, <1>4, <1>5 DEF PoolInv

(* Fewer bytes in use and fewer blocks: the peaks stay good.               *)
LEMMA PeaksKept ==
  ASSUME NEW ps, PoolsOK(ps), NEW qs, PoolsOK(qs), NEW bl, NEW cl, cl <= bl, bl \in Nat, cl \in Nat,
         NEW pk \in [capacity: Nat, usage: Nat, blocks: Nat], PeaksOf(ps, bl, pk),
         Len(qs) = Len(ps), SizeFree(ps) <= SizeFree(qs),
         \A n \in 0 .. Len(ps) : Idle(ps, n) => Idle(qs, n)
  PROVE  PeaksOf(qs, cl, pk)
<1>1. PICK n \in 0 .. Len(ps) :
        /\ Idle(ps, n)
        /\ SizeCapacity(ps) - n * SubSize <= pk.capacity
        /\ SizeCapacity(ps) - SizeFree(ps) - n * Hdr <= pk.usage
  BY DEF PeaksOf
<1>2. SizeCapacity(qs) = SizeCapacity(ps)
  BY DEF SizeCapacity
<1>3. SizeCapacity(qs) - SizeFree(qs) - n * Hdr <= pk.usage
  <2>1. PICK c, f, g, h, u : /\ c = SizeCapacity(ps) /\ f = SizeFree(ps) /\ g = SizeFree(qs)
                             /\ h = n * Hdr /\ u = pk.usage
    OBVIOUS
  <2>2. n \in Nat /\ Len(ps) \in Nat
    BY UsedFacts
  <2>3. c \in Nat /\ f \in Nat /\ g \in Nat /\ h \in Nat /\ u \in Nat /\ f <= g
    BY <2>1, <2>2, UsedFacts, Numbers, Distributes
  <2>4. c - f - h <= u
    BY <1>1, <2>1
  <2>5. c - g - h <= u
    BY <2>3, <2>4
  <2> QED
    BY <1>2, <2>1, <2>5
<1>4. cl <= pk.blocks
  <2>1. pk.blocks \in Nat /\ bl <= pk.blocks
    BY DEF PeaksOf
  <2> QED
    BY <2>1
<1> QED
  BY <1>1, <1>2, <1>3, <1>4 DEF PeaksOf

LEMMA FreedInv ==
  ASSUME NEW ps, NEW bl, NEW ocap, NEW ous, NEW pk, PoolInv(ps, bl, ocap, ous, pk),
         NEW k \in 1 .. Len(ps), NEW qs, NEW b, FreedAt(ps, qs, k, b),
         NEW cap, NEW us, cap = SizeCapacity(qs), us = SizeCapacity(qs) - SizeFree(qs)
  PROVE  PoolInv(qs, bl - 1, cap, us, pk)
<1>1. /\ PoolsOK(ps) /\ Len(ps) <= MaxPools /\ pk \in [capacity: Nat, usage: Nat, blocks: Nat]
      /\ bl = NumberOfBlocks(ps) /\ PeaksOf(ps, bl, pk)
  BY DEF PoolInv, InfoOf
<1>2. /\ Len(qs) = Len(ps) /\ b \in Block /\ PoolsOK(qs)
      /\ SizeFree(qs) = SizeFree(ps) + Span(b) /\ NumberOfBlocks(ps) = NumberOfBlocks(qs) + 1
  BY <1>1, FreedAtFacts DEF FreedAt
<1>3. PICK cl : cl = NumberOfBlocks(qs)
  OBVIOUS
<1>4. cl \in Nat /\ bl = cl + 1 /\ bl \in Nat /\ bl - 1 = cl /\ cl <= bl
  <2>1. cl \in Nat /\ bl = cl + 1
    BY <1>1, <1>2, <1>3, UsedFacts
  <2> QED
    BY <2>1
<1>5. InfoOf(qs, cl, cap, us) /\ cap \in Nat /\ us \in Nat
  BY <1>2, <1>3, InfoAnew
<1>6. SizeFree(ps) <= SizeFree(qs)
  <2>1. PICK f, g, s : f = SizeFree(ps) /\ g = SizeFree(qs) /\ s = Span(b)
    OBVIOUS
  <2>2. f \in Nat /\ s \in Nat /\ g = f + s
    BY <1>1, <1>2, <2>1, UsedFacts, BlockFacts
  <2> QED
    BY <2>1, <2>2
<1>7. ASSUME NEW n \in 0 .. Len(ps), Idle(ps, n) PROVE Idle(qs, n)
  <2>1. ~IsEmpty(ps[k])
    <3>1. b \in Range(ps[k].chain)
      BY DEF FreedAt, TakenFrom
    <3>2. SubOK(ps[k])
      BY <1>1 DEF PoolsOK
    <3>3. Entry(b) \in EntriesOf(ps[k])
      BY <3>1 DEF EntriesOf
    <3> QED
      BY <3>2, <3>3, EmptyPool
  <2>2. ~(k \in Len(ps) - n + 1 .. Len(ps))
    BY <1>7, <2>1 DEF Idle
  <2>3. Len(ps) \in Nat
    BY <1>1, UsedFacts
  <2>4. k <= Len(ps) - n
    BY <2>2, <2>3
  <2>5. ps \in Seq(SubPool) /\ Changed(ps, qs, k)
    BY <1>1 DEF PoolsOK, FreedAt
  <2> QED
    BY <1>7, <2>4, <2>5, ChangedIdle
<1>8. PeaksOf(qs, cl, pk)
  BY <1>1, <1>2, <1>4, <1>6, <1>7, PeaksKept
<1> QED
  BY <1>1, <1>2, <1>4, <1>5, <1>8 DEF PoolInv

(* Each block rewritten, but for its place, its urid and its size.         *)
Rewrites(W) ==
  /\ W \in [Block -> Block]
  /\ \A b \in Block : W[b].off = b.off /\ W[b].urid = b.urid /\ W[b].size = b.size

RewrittenSub(sp, q, W) ==
  /\ q.base = sp.base /\ q.free = sp.free /\ Len(q.chain) = Len(sp.chain) /\ q.chain \in Seq(Block)
  /\ \A i \in 1 .. Len(sp.chain) : q.chain[i] = W[sp.chain[i]]

Rewritten(ps, qs, W) ==
  /\ qs \in Seq(SubPool) /\ Len(qs) = Len(ps)
  /\ \A k \in 1 .. Len(ps) : RewrittenSub(ps[k], qs[k], W)

LEMMA RewrittenSubOK ==
  ASSUME NEW sp, SubOK(sp), NEW W, Rewrites(W), NEW q,
         q = [sp EXCEPT !.chain = [i \in DOMAIN @ |-> W[@[i]]]]
  PROVE  q \in SubPool /\ RewrittenSub(sp, q, W)
<1>1. PICK base, free, c : base = sp.base /\ free = sp.free /\ c = sp.chain
  OBVIOUS
<1>2. /\ base \in 1 .. MaxPools /\ free \in Nat /\ free <= Final /\ c \in Seq(Block)
      /\ sp = [base |-> base, free |-> free, chain |-> c]
  BY <1>1, SubFacts DEF SubOK
<1>3. Len(c) \in Nat /\ DOMAIN c = 1 .. Len(c) /\ \A i \in 1 .. Len(c) : c[i] \in Block
  BY <1>2, ChainFacts
<1>4. PICK d : d = [i \in 1 .. Len(c) |-> W[c[i]]]
  OBVIOUS
<1>5. d \in [1 .. Len(c) -> Block]
  BY <1>3, <1>4 DEF Rewrites
<1>6. d \in Seq(Block) /\ Len(d) = Len(c)
  BY <1>3, <1>5, FunctionIsSeq
<1>7. q = [base |-> base, free |-> free, chain |-> d]
  BY <1>1, <1>2, <1>3, <1>4
<1>8. q \in SubPool
  <2>1. [base |-> base, free |-> free, chain |-> d] \in SubPool
    BY <1>2, <1>6, SubMade
  <2> QED
    BY <1>7, <2>1
<1>9. q.base = base /\ q.free = free /\ q.chain = d
  BY <1>7
<1>10. \A i \in 1 .. Len(c) : d[i] = W[c[i]]
  BY <1>4
<1> QED
  BY <1>1, <1>6, <1>8, <1>9, <1>10 DEF RewrittenSub

LEMMA RewrittenIs ==
  ASSUME NEW ps, PoolsOK(ps), NEW W, Rewrites(W), NEW qs,
         qs = [k \in DOMAIN ps |-> [ps[k] EXCEPT !.chain = [i \in DOMAIN @ |-> W[@[i]]]]]
  PROVE  Rewritten(ps, qs, W)
<1>1. ps \in Seq(SubPool) /\ Len(ps) \in Nat /\ DOMAIN ps = 1 .. Len(ps) /\ \A k \in 1 .. Len(ps) : SubOK(ps[k])
  BY LenProperties DEF PoolsOK
<1>2. \A k \in 1 .. Len(ps) : qs[k] = [ps[k] EXCEPT !.chain = [i \in DOMAIN @ |-> W[@[i]]]]
  BY <1>1
<1>3. \A k \in 1 .. Len(ps) : qs[k] \in SubPool /\ RewrittenSub(ps[k], qs[k], W)
  <2> QED
    BY <1>1, <1>2, RewrittenSubOK
<1>4. qs \in [1 .. Len(ps) -> SubPool]
  <2>1. qs = [k \in 1 .. Len(ps) |-> qs[k]]
    BY <1>1
  <2> QED
    BY <1>3, <2>1
<1>5. qs \in Seq(SubPool) /\ Len(qs) = Len(ps)
  BY <1>1, <1>4, FunctionIsSeq
<1> QED
  BY <1>3, <1>5 DEF Rewritten

LEMMA RewrittenOK ==
  ASSUME NEW ps, PoolsOK(ps), NEW W, Rewrites(W), NEW qs, Rewritten(ps, qs, W)
  PROVE  /\ PoolsOK(qs)
         /\ SizeFree(qs) = SizeFree(ps) /\ NumberOfBlocks(qs) = NumberOfBlocks(ps)
         /\ \A n \in 0 .. Len(ps) : Idle(ps, n) => Idle(qs, n)
         /\ \A k \in 1 .. Len(ps) : UridsOf(qs[k]) = UridsOf(ps[k])
<1>1. /\ ps \in Seq(SubPool) /\ Len(ps) \in Nat /\ qs \in Seq(SubPool) /\ Len(qs) = Len(ps)
      /\ \A k \in 1 .. Len(ps) : RewrittenSub(ps[k], qs[k], W) /\ SubOK(ps[k])
  BY LenProperties DEF PoolsOK, Rewritten
<1>2. ASSUME NEW k \in 1 .. Len(ps) PROVE SubOK(qs[k]) /\ UridsOf(qs[k]) = UridsOf(ps[k])
  <2>1. PICK c, d, sp, q : c = ps[k].chain /\ d = qs[k].chain /\ sp = ps[k] /\ q = qs[k]
    OBVIOUS
  <2>2. /\ c \in Seq(Block) /\ d \in Seq(Block) /\ Len(d) = Len(c) /\ Len(c) \in Nat
        /\ \A i \in 1 .. Len(c) : d[i] = W[c[i]] /\ c[i] \in Block
        /\ q.free = sp.free /\ q \in SubPool /\ sp \in SubPool
    BY <1>1, <2>1, ChainFacts, PoolsFacts, SubFacts DEF RewrittenSub, SubOK
  <2>3. \A i \in 1 .. Len(c) : d[i].off = c[i].off /\ d[i].urid = c[i].urid /\ Span(d[i]) = Span(c[i])
    BY <2>2 DEF Rewrites, Span
  <2>4. Apart(d)
    <3>1. Apart(c)
      BY <1>1, <2>1 DEF SubOK
    <3>2. ASSUME NEW i \in 1 .. Len(c) PROVE OffsetNext(d, i) = OffsetNext(c, i)
      <4>1. i # Len(c) => i + 1 \in 1 .. Len(c)
        BY <2>2
      <4> QED
        BY <2>2, <2>3, <4>1 DEF OffsetNext
    <3> QED
      BY <2>2, <2>3, <3>1, <3>2 DEF Apart
  <2>5. OwnUrids(d)
    <3>1. OwnUrids(c)
      BY <1>1, <2>1 DEF SubOK
    <3> QED
      BY <2>2, <2>3, <3>1 DEF OwnUrids
  <2>6. SumOf(Spans(d)) = SumOf(Spans(c))
    <3>1. Spans(d) = Spans(c)
      BY <2>2, <2>3, LenProperties DEF Spans
    <3> QED
      BY <3>1
  <2>7. q.free = Final - SumOf(Spans(d))
    BY <1>1, <2>1, <2>2, <2>6 DEF SubOK
  <2>8. \A u : u \in UridsOf(q) <=> u \in UridsOf(sp)
    <3>1. \A u : u \in UridsOf(q) <=> \E i \in 1 .. Len(d) : d[i].urid = u
      BY <2>1, <2>2, UridsOfSub
    <3>2. \A u : u \in UridsOf(sp) <=> \E i \in 1 .. Len(c) : c[i].urid = u
      BY <2>1, <2>2, UridsOfSub
    <3> QED
      BY <2>2, <2>3, <3>1, <3>2, SMTT(30)
  <2> QED
    BY <2>1, <2>2, <2>4, <2>5, <2>7, <2>8 DEF SubOK
<1>3. PoolsOK(qs)
  BY <1>1, <1>2 DEF PoolsOK
<1>4. SizeFree(qs) = SizeFree(ps) /\ NumberOfBlocks(qs) = NumberOfBlocks(ps)
  <2>1. \A k \in 1 .. Len(ps) : qs[k].free = ps[k].free /\ Len(qs[k].chain) = Len(ps[k].chain)
    BY <1>1 DEF RewrittenSub
  <2>2. Frees(qs) = Frees(ps) /\ Lengths(qs) = Lengths(ps)
    BY <1>1, <2>1, LenProperties DEF Frees, Lengths
  <2> QED
    BY <1>1, <2>2, PoolsFacts
<1>5. ASSUME NEW n \in 0 .. Len(ps), Idle(ps, n) PROVE Idle(qs, n)
  <2>1. ASSUME NEW k \in Len(ps) - n + 1 .. Len(ps) PROVE IsEmpty(qs[k])
    <3>1. k \in 1 .. Len(ps) /\ IsEmpty(ps[k])
      BY <1>1, <1>5 DEF Idle
    <3>2. Len(qs[k].chain) = 0
      BY <1>1, <3>1, EmptyPool DEF RewrittenSub
    <3> QED
      BY <1>2, <3>1, <3>2, EmptyPool
  <2> QED
    BY <1>1, <2>1 DEF Idle
<1> QED
  BY <1>2, <1>3, <1>4, <1>5

LEMMA RewrittenInv ==
  ASSUME NEW ps, NEW bl, NEW cap, NEW us, NEW pk, PoolInv(ps, bl, cap, us, pk),
         NEW W, Rewrites(W), NEW qs, Rewritten(ps, qs, W)
  PROVE  PoolInv(qs, bl, cap, us, pk)
<1>1. PoolsOK(ps) /\ Len(qs) = Len(ps)
  BY DEF PoolInv, Rewritten
<1>2. /\ PoolsOK(qs) /\ SizeFree(qs) = SizeFree(ps) /\ NumberOfBlocks(qs) = NumberOfBlocks(ps)
      /\ \A n \in 0 .. Len(ps) : Idle(ps, n) => Idle(qs, n)
  BY <1>1, RewrittenOK
<1>3. SizeCapacity(qs) = SizeCapacity(ps)
  BY <1>1 DEF SizeCapacity
<1> QED
  BY <1>1, <1>2, <1>3 DEF PoolInv, InfoOf, PeaksOf

(* Each sub pool swept.                                                    *)
Swept(ps, qs) ==
  /\ PoolsOK(qs) /\ Len(qs) = Len(ps)
  /\ SizeFree(ps) <= SizeFree(qs) /\ NumberOfBlocks(qs) <= NumberOfBlocks(ps)
  /\ \A n \in 0 .. Len(ps) : Idle(ps, n) => Idle(qs, n)
  /\ Entries(qs) = {e \in Entries(ps) : e[2].bit}
  /\ \A k \in 1 .. Len(ps) : SweptSub(ps[k], qs[k])

SweepOf(ps, qs) == qs = [k \in DOMAIN ps |-> SweepSub(ps[k])]

LEMMA SweptOK ==
  ASSUME NEW ps, PoolsOK(ps), NEW qs, SweepOf(ps, qs)
  PROVE  Swept(ps, qs)
<1>1. ps \in Seq(SubPool) /\ Len(ps) \in Nat /\ DOMAIN ps = 1 .. Len(ps) /\ \A k \in 1 .. Len(ps) : SubOK(ps[k])
  BY LenProperties DEF PoolsOK
<1>2. \A k \in 1 .. Len(ps) : qs[k] = SweepSub(ps[k])
  BY <1>1 DEF SweepOf
<1>3. \A k \in 1 .. Len(ps) : SweptSub(ps[k], qs[k]) /\ qs[k] \in SubPool
  <2>1. \A k \in 1 .. Len(ps) : SweptSub(ps[k], qs[k])
    BY <1>1, <1>2, SweepSubOK
  <2> QED
    BY <2>1 DEF SweptSub, SubOK
<1>4. qs \in [1 .. Len(ps) -> SubPool]
  BY <1>1, <1>2, <1>3 DEF SweepOf
<1>5. qs \in Seq(SubPool) /\ Len(qs) = Len(ps)
  BY <1>1, <1>4, FunctionIsSeq
<1>6. PoolsOK(qs)
  <2>1. \A k \in 1 .. Len(ps) : SubOK(qs[k]) /\ UridsOf(qs[k]) \subseteq UridsOf(ps[k])
    BY <1>3 DEF SweptSub, UridsOf
  <2>2. \A k, l \in 1 .. Len(ps) : k # l => UridsOf(qs[k]) \cap UridsOf(qs[l]) = {}
    BY <2>1 DEF PoolsOK
  <2> QED
    BY <1>5, <2>1, <2>2 DEF PoolsOK
<1>7. /\ Frees(ps) \in Seq(Nat) /\ Frees(qs) \in Seq(Nat)
      /\ Len(Frees(ps)) = Len(ps) /\ Len(Frees(qs)) = Len(ps)
      /\ \A k \in 1 .. Len(ps) : Frees(ps)[k] = ps[k].free /\ Frees(qs)[k] = qs[k].free
      /\ SizeFree(ps) = SumOf(Frees(ps)) /\ SizeFree(qs) = SumOf(Frees(qs))
  BY <1>1, <1>5, PoolsFacts
<1>8. SizeFree(ps) <= SizeFree(qs)
  <2>1. \A k \in 1 .. Len(ps) : ps[k].free <= qs[k].free
    <3> SUFFICES ASSUME NEW k \in 1 .. Len(ps) PROVE ps[k].free <= qs[k].free
      OBVIOUS
    <3>1. qs[k].free >= ps[k].free
      BY <1>3 DEF SweptSub
    <3>2. ps[k].free \in Nat /\ qs[k].free \in Nat
      BY <1>1, <1>3, SubFacts DEF SubOK
    <3> QED
      BY <3>1, <3>2
  <2>2. \A k \in 1 .. Len(Frees(ps)) : Frees(ps)[k] <= Frees(qs)[k]
    BY <1>7, <2>1
  <2>3. SumOf(Frees(ps)) <= SumOf(Frees(qs))
    BY <1>7, <2>2, SumMonotone
  <2> QED
    BY <1>7, <2>3
<1>9. NumberOfBlocks(qs) <= NumberOfBlocks(ps)
  <2>1. /\ Lengths(ps) \in Seq(Nat) /\ Lengths(qs) \in Seq(Nat)
        /\ Len(Lengths(ps)) = Len(ps) /\ Len(Lengths(qs)) = Len(ps)
        /\ \A k \in 1 .. Len(ps) : Lengths(ps)[k] = Len(ps[k].chain) /\ Lengths(qs)[k] = Len(qs[k].chain)
        /\ NumberOfBlocks(ps) = SumOf(Lengths(ps)) /\ NumberOfBlocks(qs) = SumOf(Lengths(qs))
    BY <1>1, <1>5, PoolsFacts
  <2>2. \A k \in 1 .. Len(ps) : Len(qs[k].chain) <= Len(ps[k].chain)
    BY <1>3 DEF SweptSub
  <2>3. \A k \in 1 .. Len(Lengths(qs)) : Lengths(qs)[k] <= Lengths(ps)[k]
    BY <2>1, <2>2
  <2>4. SumOf(Lengths(qs)) <= SumOf(Lengths(ps))
    BY <2>1, <2>3, SumMonotone
  <2> QED
    BY <2>1, <2>4
<1>10. ASSUME NEW n \in 0 .. Len(ps), Idle(ps, n) PROVE Idle(qs, n)
  <2>1. ASSUME NEW k \in Len(ps) - n + 1 .. Len(ps) PROVE IsEmpty(qs[k])
    <3>1. k \in 1 .. Len(ps) /\ IsEmpty(ps[k])
      BY <1>1, <1>10 DEF Idle
    <3>2. SubOK(qs[k]) /\ Len(qs[k].chain) <= Len(ps[k].chain) /\ Len(ps[k].chain) = 0
      BY <1>1, <1>3, <3>1, EmptyPool DEF SweptSub
    <3>3. Len(qs[k].chain) \in Nat
      BY <3>2, SubFacts, LenProperties DEF SubOK
    <3>4. Len(qs[k].chain) = 0
      BY <3>2, <3>3
    <3> QED
      BY <3>2, <3>4, EmptyPool
  <2> QED
    BY <1>5, <2>1 DEF Idle
<1>11. ASSUME NEW e PROVE e \in Entries(qs) <=> e \in Entries(ps) /\ e[2].bit
  <2>1. \A k \in 1 .. Len(ps) : e \in EntriesOf(qs[k]) <=> e \in EntriesOf(ps[k]) /\ e[2].bit
    <3> SUFFICES ASSUME NEW k \in 1 .. Len(ps)
                 PROVE  e \in EntriesOf(qs[k]) <=> e \in EntriesOf(ps[k]) /\ e[2].bit
      OBVIOUS
    <3>1. Range(qs[k].chain) = {b \in Range(ps[k].chain) : b.bit}
      BY <1>3 DEF SweptSub
    <3>2. \A b : Entry(b)[2].bit = b.bit
      BY DEF Entry
    <3> QED
      BY <3>1, <3>2 DEF EntriesOf
  <2>2. e \in Entries(qs) <=> \E k \in 1 .. Len(ps) : e \in EntriesOf(qs[k])
    BY <1>5, EntriesFacts
  <2>3. e \in Entries(ps) <=> \E k \in 1 .. Len(ps) : e \in EntriesOf(ps[k])
    BY <1>1, EntriesFacts
  <2> QED
    BY <2>1, <2>2, <2>3
<1>12. Entries(qs) = {e \in Entries(ps) : e[2].bit}
  BY <1>11
<1> QED
  BY <1>3, <1>5, <1>6, <1>8, <1>9, <1>10, <1>12 DEF Swept

(* Trimming takes nothing from what is not idle.                           *)
LEMMA TrimmedPeaks ==
  ASSUME NEW ps, PoolsOK(ps), NEW qs, Trimmed(ps, qs), NEW bl,
         NEW pk \in [capacity: Nat, usage: Nat, blocks: Nat], PeaksOf(ps, bl, pk)
  PROVE  PeaksOf(qs, bl, pk)
<1>1. PICK n \in 0 .. Len(ps) :
        /\ Idle(ps, n)
        /\ SizeCapacity(ps) - n * SubSize <= pk.capacity
        /\ SizeCapacity(ps) - SizeFree(ps) - n * Hdr <= pk.usage
  BY DEF PeaksOf
<1>2. Len(qs) <= Len(ps) - n /\ Len(qs) <= Len(ps) /\ PoolsOK(qs)
  BY <1>1 DEF Trimmed
<1>3. PICK l, m, d : l = Len(ps) /\ m = Len(qs) /\ d = l - m
  OBVIOUS
<1>4. l \in Nat /\ m \in Nat /\ d \in Nat /\ l = m + d /\ n \in Nat /\ n <= d
  BY <1>2, <1>3, UsedFacts
<1>5. PICK f, g, ms, ds, mh, dh, df, ns, nh, a, b :
        /\ f = SizeFree(ps) /\ g = SizeFree(qs) /\ ms = m * SubSize /\ ds = d * SubSize
        /\ mh = m * Hdr /\ dh = d * Hdr /\ df = d * Final /\ ns = n * SubSize /\ nh = n * Hdr
        /\ a = pk.capacity /\ b = pk.usage
  OBVIOUS
<1>6. /\ f \in Nat /\ g \in Nat /\ ms \in Nat /\ ds \in Nat /\ mh \in Nat /\ dh \in Nat /\ df \in Nat
      /\ ns \in Nat /\ nh \in Nat /\ a \in Nat /\ b \in Nat
  <2>1. f \in Nat /\ g \in Nat /\ a \in Nat /\ b \in Nat
    BY <1>2, <1>5, UsedFacts
  <2> QED
    BY <1>4, <1>5, <2>1, Numbers, Distributes
<1>7. ds = df + dh
  <2>1. d * (Final + Hdr) = d * Final + d * Hdr
    BY <1>4, Numbers
  <2>2. SubSize = Final + Hdr
    BY Numbers
  <2> QED
    BY <1>5, <2>1, <2>2
<1>8. ns <= ds /\ nh <= dh
  BY <1>4, <1>5, Numbers, MultMono
<1>9. SizeCapacity(ps) = ms + ds /\ SizeCapacity(qs) = ms
  <2>1. (m + d) * SubSize = m * SubSize + d * SubSize
    BY <1>4, Numbers, Distributes
  <2> QED
    BY <1>3, <1>4, <1>5, <2>1 DEF SizeCapacity
<1>10. f = g + df
  BY <1>3, <1>5 DEF Trimmed
<1>11. ms + ds - ns <= a /\ ms + ds - f - nh <= b
  <2>1. PICK c : c = SizeCapacity(ps)
    OBVIOUS
  <2>2. c - ns <= a
    BY <1>1, <1>5, <2>1
  <2>3. c - f - nh <= b
    BY <1>1, <1>5, <2>1
  <2>4. c = ms + ds
    BY <1>9, <2>1
  <2> QED
    BY <1>6, <2>2, <2>3, <2>4
<1>12. ms <= a /\ ms - g <= b
  BY <1>6, <1>7, <1>8, <1>10, <1>11
<1>13. 0 \in 0 .. Len(qs) /\ Idle(qs, 0) /\ 0 * SubSize = 0 /\ 0 * Hdr = 0
  BY <1>3, <1>4, NoneIdle, Numbers, Distributes
<1>14. SizeCapacity(qs) - 0 * SubSize <= pk.capacity /\ SizeCapacity(qs) - SizeFree(qs) - 0 * Hdr <= pk.usage
  <2>1. ms - 0 <= a /\ ms - g - 0 <= b
    BY <1>6, <1>12
  <2> QED
    BY <1>5, <1>9, <1>13, <2>1
<1>15. bl <= pk.blocks
  BY DEF PeaksOf
<1> QED
  BY <1>13, <1>14, <1>15 DEF PeaksOf

LEMMA SweptInv ==
  ASSUME NEW ps, NEW bl, NEW ocap, NEW ous, NEW pk, PoolInv(ps, bl, ocap, ous, pk),
         NEW ss, Swept(ps, ss), NEW granted \in BOOLEAN, NEW qs, qs = TrimEmpty(ss, granted),
         NEW cl, cl = bl - (NumberOfBlocks(ps) - NumberOfBlocks(ss)),
         NEW cap, NEW us, cap = SizeCapacity(qs), us = SizeCapacity(qs) - SizeFree(qs)
  PROVE  PoolInv(qs, cl, cap, us, pk) /\ Entries(qs) = Entries(ss)
<1>1. /\ PoolsOK(ps) /\ Len(ps) <= MaxPools /\ pk \in [capacity: Nat, usage: Nat, blocks: Nat]
      /\ bl = NumberOfBlocks(ps) /\ PeaksOf(ps, bl, pk)
  BY DEF PoolInv, InfoOf
<1>2. /\ PoolsOK(ss) /\ Len(ss) = Len(ps)
      /\ SizeFree(ps) <= SizeFree(ss) /\ NumberOfBlocks(ss) <= NumberOfBlocks(ps)
      /\ \A n \in 0 .. Len(ps) : Idle(ps, n) => Idle(ss, n)
  BY DEF Swept
<1>3. cl = NumberOfBlocks(ss) /\ cl \in Nat /\ bl \in Nat /\ cl <= bl
  <2>1. PICK m, n : m = NumberOfBlocks(ps) /\ n = NumberOfBlocks(ss)
    OBVIOUS
  <2>2. m \in Nat /\ n \in Nat /\ n <= m
    BY <1>1, <1>2, <2>1, UsedFacts
  <2>3. cl = m - (m - n) /\ bl = m
    BY <1>1, <2>1
  <2> QED
    BY <2>1, <2>2, <2>3
<1>4. PeaksOf(ss, cl, pk)
  BY <1>1, <1>2, <1>3, PeaksKept
<1>5. Trimmed(ss, NonEmpty(ss))
  BY <1>2, NonEmptyOK
<1>6. SUFFICES /\ PoolsOK(qs) /\ Len(qs) <= MaxPools /\ NumberOfBlocks(qs) = cl
               /\ PeaksOf(qs, cl, pk) /\ Entries(qs) = Entries(ss)
  BY <1>1, InfoAnew DEF PoolInv
<1>7. Len(ps) \in Nat /\ MaxPools \in Nat /\ MaxPools >= 1
  BY <1>1, UsedFacts, PoolAssumption
<1>8. CASE qs = ss
  BY <1>1, <1>2, <1>3, <1>4, <1>8
<1>9. CASE qs = NonEmpty(ss)
  <2>1. /\ PoolsOK(qs) /\ Len(qs) <= Len(ss) /\ NumberOfBlocks(qs) = NumberOfBlocks(ss)
        /\ Entries(qs) = Entries(ss)
    BY <1>5, <1>9 DEF Trimmed
  <2>2. PeaksOf(qs, cl, pk)
    BY <1>1, <1>2, <1>4, <1>5, <1>9, TrimmedPeaks
  <2>3. Len(qs) <= MaxPools
    <3>1. Len(qs) \in Nat /\ Len(ss) \in Nat
      BY <1>2, <2>1, UsedFacts
    <3> QED
      BY <1>1, <1>2, <1>7, <2>1, <3>1
  <2> QED
    BY <1>3, <2>1, <2>2, <2>3
<1>10. CASE NonEmpty(ss) = <<>> /\ qs = <<SubNew(1)>>
  <2>1. NumberOfBlocks(ss) = 0 /\ Entries(ss) = {}
    <3>1. PICK x : x = NonEmpty(ss)
      OBVIOUS
    <3>2. NumberOfBlocks(x) = NumberOfBlocks(ss) /\ Entries(x) = Entries(ss)
      BY <1>5, <3>1 DEF Trimmed
    <3>3. x = <<>>
      BY <1>10, <3>1
    <3>4. NumberOfBlocks(x) = 0 /\ Entries(x) = {}
      BY <3>3, NoPools
    <3> QED
      BY <3>2, <3>4
  <2>2. PICK sp : sp = SubNew(1)
    OBVIOUS
  <2>3. SubOK(sp) /\ sp.free = Final /\ Len(sp.chain) = 0 /\ EntriesOf(sp) = {} /\ IsEmpty(sp) /\ sp \in SubPool
    <3>1. 1 \in 1 .. MaxPools
      BY <1>7
    <3> QED
      BY <2>2, <3>1, SubNewOK DEF SubOK
  <2>4. PICK e : e = <<>>
    OBVIOUS
  <2>5. PoolsOK(e) /\ Len(e) = 0 /\ SizeFree(e) = 0 /\ NumberOfBlocks(e) = 0 /\ Entries(e) = {}
    BY <2>4, NoPools
  <2>6. qs = Append(e, sp)
    <3>1. qs = <<sp>>
      BY <1>10, <2>2
    <3>2. Append(<<>>, sp) = <<sp>>
      OBVIOUS
    <3> QED
      BY <2>4, <3>1, <3>2
  <2>7. /\ PoolsOK(qs) /\ Len(qs) = 0 + 1 /\ SizeFree(qs) = 0 + Final
        /\ NumberOfBlocks(qs) = 0 + 0 /\ \A x : x \in Entries(qs) <=> x \in {} \/ x \in {}
    <3>1. \A i \in 1 .. Len(e) : UridsOf(e[i]) \cap UridsOf(sp) = {}
      BY <2>5
    <3>2. PoolsOK(e) /\ SubOK(sp)
      BY <2>3, <2>5
    <3>3. /\ PoolsOK(Append(e, sp)) /\ Len(Append(e, sp)) = Len(e) + 1
          /\ SizeFree(Append(e, sp)) = SizeFree(e) + sp.free
          /\ NumberOfBlocks(Append(e, sp)) = NumberOfBlocks(e) + Len(sp.chain)
          /\ \A x : x \in Entries(Append(e, sp)) <=> x \in Entries(e) \/ x \in EntriesOf(sp)
      BY <3>1, <3>2, AppendPool
    <3> QED
      BY <2>3, <2>5, <2>6, <3>3
  <2>8. Len(qs) = 1 /\ SizeFree(qs) = Final /\ NumberOfBlocks(qs) = 0 /\ Entries(qs) = {}
    BY <2>7, Numbers
  <2>9. Len(qs) <= MaxPools
    BY <1>7, <2>8
  <2>10. PeaksOf(qs, cl, pk)
    <3>1. Idle(qs, 1) /\ 1 \in 0 .. Len(qs)
      <4>1. qs[1] = sp
        BY <2>5, <2>6, EmptySeq, AppendProperties, <1>10, <2>2
      <4>2. \A k \in Len(qs) - 1 + 1 .. Len(qs) : k = 1
        BY <2>8
      <4> QED
        BY <2>3, <2>8, <4>1, <4>2 DEF Idle
    <3>2. SizeCapacity(qs) - 1 * SubSize = 0 /\ SizeCapacity(qs) - SizeFree(qs) - 1 * Hdr = 0
      <4>1. SizeCapacity(qs) = 1 * SubSize
        BY <2>8 DEF SizeCapacity
      <4>2. 1 * SubSize = SubSize /\ 1 * Hdr = Hdr
        BY Numbers, Distributes
      <4>3. SubSize - SubSize = 0 /\ SubSize - Final - Hdr = 0
        BY Numbers
      <4> QED
        BY <2>8, <4>1, <4>2, <4>3
    <3>3. 0 <= pk.capacity /\ 0 <= pk.usage
      BY <1>1
    <3>4. cl <= pk.blocks
      BY <1>4 DEF PeaksOf
    <3>5. SizeCapacity(qs) - 1 * SubSize <= pk.capacity /\ SizeCapacity(qs) - SizeFree(qs) - 1 * Hdr <= pk.usage
      BY <3>2, <3>3
    <3> QED
      BY <3>1, <3>4, <3>5 DEF PeaksOf
  <2> QED
    BY <1>3, <2>1, <2>7, <2>8, <2>9, <2>10
<1>11. qs = ss \/ qs = NonEmpty(ss) \/ (NonEmpty(ss) = <<>> /\ qs = <<SubNew(1)>>)
  <2>1. PICK x : x = NonEmpty(ss)
    OBVIOUS
  <2>2. TrimEmpty(ss, granted) = CASE Len(ss) = 1 -> ss
                                   [] Len(ss) # 1 /\ x # <<>> -> x
                                   [] OTHER -> IF granted THEN <<SubNew(1)>> ELSE <<>>
    BY <2>1 DEF TrimEmpty
  <2>3. qs = ss \/ qs = x \/ (x = <<>> /\ qs = <<SubNew(1)>>)
    BY <2>2
  <2> QED
    BY <2>1, <2>3
<1> QED
  BY <1>8, <1>9, <1>10, <1>11

(***************************************************************************)
(* What each operation does.                                               *)
(***************************************************************************)
LEMMA MallocStep ==
  ASSUME PoolsOK(pools), Len(pools) <= MaxPools,
         NEW size \in Nat, NEW managed \in BOOLEAN, NEW data \in Contents, NEW granted \in BOOLEAN,
         Malloc(size, managed, data, granted)
  PROVE  \E ps : \E x \in {0, 1} :
           /\ Grown(pools, ps, x) /\ Len(ps) <= MaxPools
           /\ noalign => \A k \in 1 .. Len(pools) : ps[k] = pools[k]
           /\ \/ pools' = ps /\ UNCHANGED <<blocks, capacity, usage, peak>>
              \/ \E k \in 1 .. Len(ps) : \E b :
                   /\ AllocateUrid(ps) \in Urids /\ MadeOf(b, AllocateUrid(ps), managed, size, data)
                   /\ ServedAt(ps, pools', k, b)
                   /\ noalign => PutIn(ps[k], pools'[k], b)
                   /\ Allocated(pools')
<1>1. PICK ps : ps = ServedIn(size, granted)
  OBVIOUS
<1>2. PICK x \in {0, 1} : Grown(pools, ps, x)
  BY <1>1, ServedInOK
<1>3. Len(ps) <= MaxPools /\ (noalign => \A k \in 1 .. Len(pools) : ps[k] = pools[k])
  BY <1>1, ServedInOK
<1>4. IF CanMalloc(ps, size)
      THEN Allocated(MallocInSingle(ps, size, managed, data))
      ELSE pools' = ps /\ UNCHANGED <<blocks, capacity, usage, peak>>
  BY <1>1 DEF Malloc
<1>5. CASE ~CanMalloc(ps, size)
  BY <1>2, <1>3, <1>4, <1>5
<1>6. CASE CanMalloc(ps, size)
  <2>1. PoolsOK(ps)
    BY <1>2 DEF Grown
  <2>2a. PICK k \in 1 .. Len(ps) : \E b :
          /\ MadeOf(b, AllocateUrid(ps), managed, size, data)
          /\ ServedAt(ps, MallocInSingle(ps, size, managed, data), k, b)
          /\ noalign => PutIn(ps[k], MallocInSingle(ps, size, managed, data)[k], b)
    BY <1>6, <2>1, MallocInSingleOK
  <2>2. PICK b :
          /\ MadeOf(b, AllocateUrid(ps), managed, size, data)
          /\ ServedAt(ps, MallocInSingle(ps, size, managed, data), k, b)
          /\ noalign => PutIn(ps[k], MallocInSingle(ps, size, managed, data)[k], b)
    BY <2>2a
  <2>3. Allocated(MallocInSingle(ps, size, managed, data))
    BY <1>4, <1>6
  <2>4. pools' = MallocInSingle(ps, size, managed, data)
    BY <2>3 DEF Allocated
  <2>5. AllocateUrid(ps) \in Urids
    BY <1>6, AllocateUridFacts DEF CanMalloc
  <2> QED
    BY <1>2, <1>3, <2>2, <2>3, <2>4, <2>5
<1> QED
  BY <1>5, <1>6

LEMMA FreeStep ==
  ASSUME PoolsOK(pools), NEW u, Free(u)
  PROVE  /\ \E k \in 1 .. Len(pools) : \E b : b.urid = u /\ FreedAt(pools, pools', k, b)
         /\ blocks' = blocks - 1 /\ UpdateInfo(pools') /\ peak' = peak
<1>1. pools \in Seq(SubPool) /\ DOMAIN pools = 1 .. Len(pools)
  BY LenProperties DEF PoolsOK
<1>2. PICK J : J = {j \in DOMAIN pools : u \in UridsOf(pools[j])}
  OBVIOUS
<1>3. J \in SUBSET Nat /\ J # {}
  BY <1>1, <1>2 DEF Free, LiveUrids
<1>4. PICK k : k = Min(J)
  OBVIOUS
<1>5. k \in 1 .. Len(pools) /\ u \in UridsOf(pools[k])
  BY <1>1, <1>2, <1>3, <1>4, MinFacts
<1>6. PICK q : q = SubFree(pools[k], u)
  OBVIOUS
<1>7. /\ pools' = [pools EXCEPT ![k] = q]
      /\ blocks' = blocks - 1 /\ UpdateInfo([pools EXCEPT ![k] = q]) /\ peak' = peak
  BY <1>2, <1>4, <1>6 DEF Free
<1>8. \E b : b.urid = u /\ FreedAt(pools, [pools EXCEPT ![k] = q], k, b)
  BY <1>5, <1>6, SubFreeAtOK
<1> QED
  BY <1>5, <1>7, <1>8

LEMMA WriteStep ==
  ASSUME PoolsOK(pools), NEW u, NEW data \in Contents, Write(u, data)
  PROVE  \E W : /\ Rewrites(W) /\ Rewritten(pools, pools', W)
                /\ \A b \in Block : W[b] = IF b.urid = u THEN [b EXCEPT !.data = data] ELSE b
<1> DEFINE W == [b \in Block |-> IF b.urid = u THEN [b EXCEPT !.data = data] ELSE b]
<1>1. Rewrites(W)
  BY DEF Rewrites, Block
<1>2. ASSUME NEW k \in DOMAIN pools, NEW i \in DOMAIN pools[k].chain
      PROVE  W[pools[k].chain[i]] =
               IF pools[k].chain[i].urid = u THEN [pools[k].chain[i] EXCEPT !.data = data]
               ELSE pools[k].chain[i]
  <2>1. pools[k].chain \in Seq(Block) /\ pools[k].chain[i] \in Block
    BY PoolsFacts, SubFacts, ChainFacts DEF PoolsOK
  <2> QED
    BY <2>1
<1>3. pools' = [k \in DOMAIN pools |-> [pools[k] EXCEPT !.chain =
                  [i \in DOMAIN @ |-> IF @[i].urid = u THEN [@[i] EXCEPT !.data = data] ELSE @[i]]]]
  BY DEF Write, MapChains
<1>4. pools' = [k \in DOMAIN pools |-> [pools[k] EXCEPT !.chain = [i \in DOMAIN @ |-> W[@[i]]]]]
  <2> HIDE DEF W
  <2> QED
    BY <1>2, <1>3
<1>5. \A b \in Block : W[b] = IF b.urid = u THEN [b EXCEPT !.data = data] ELSE b
  OBVIOUS
<1> HIDE DEF W
<1>6. Rewritten(pools, pools', W)
  BY <1>1, <1>4, RewrittenIs
<1> QED
  BY <1>1, <1>5, <1>6

LEMMA MarkStep ==
  ASSUME PoolsOK(pools), NEW u, Mark(u)
  PROVE  \E W : /\ Rewrites(W) /\ Rewritten(pools, pools', W)
                /\ \A b \in Block : W[b] = IF b.urid = u THEN [b EXCEPT !.bit = TRUE] ELSE b
<1> DEFINE W == [b \in Block |-> IF b.urid = u THEN [b EXCEPT !.bit = TRUE] ELSE b]
<1>1. Rewrites(W)
  BY DEF Rewrites, Block
<1>2. ASSUME NEW k \in DOMAIN pools, NEW i \in DOMAIN pools[k].chain
      PROVE  W[pools[k].chain[i]] =
               IF pools[k].chain[i].urid = u THEN [pools[k].chain[i] EXCEPT !.bit = TRUE]
               ELSE pools[k].chain[i]
  <2>1. pools[k].chain \in Seq(Block) /\ pools[k].chain[i] \in Block
    BY PoolsFacts, SubFacts, ChainFacts DEF PoolsOK
  <2> QED
    BY <2>1
<1>3. pools' = [k \in DOMAIN pools |-> [pools[k] EXCEPT !.chain =
                  [i \in DOMAIN @ |-> IF @[i].urid = u THEN [@[i] EXCEPT !.bit = TRUE] ELSE @[i]]]]
  BY DEF Mark, MapChains
<1>4. pools' = [k \in DOMAIN pools |-> [pools[k] EXCEPT !.chain = [i \in DOMAIN @ |-> W[@[i]]]]]
  <2> HIDE DEF W
  <2> QED
    BY <1>2, <1>3
<1>5. \A b \in Block : W[b] = IF b.urid = u THEN [b EXCEPT !.bit = TRUE] ELSE b
  OBVIOUS
<1> HIDE DEF W
<1>6. Rewritten(pools, pools', W)
  BY <1>1, <1>4, RewrittenIs
<1> QED
  BY <1>1, <1>5, <1>6

LEMMA ClearStep ==
  ASSUME PoolsOK(pools), Clear
  PROVE  \E W : /\ Rewrites(W) /\ Rewritten(pools, pools', W)
                /\ \A b \in Block : W[b] = [b EXCEPT !.bit = FALSE]
<1> DEFINE W == [b \in Block |-> [b EXCEPT !.bit = FALSE]]
<1>1. Rewrites(W)
  BY DEF Rewrites, Block
<1>2. ASSUME NEW k \in DOMAIN pools, NEW i \in DOMAIN pools[k].chain
      PROVE  W[pools[k].chain[i]] = [pools[k].chain[i] EXCEPT !.bit = FALSE]
  <2>1. pools[k].chain \in Seq(Block) /\ pools[k].chain[i] \in Block
    BY PoolsFacts, SubFacts, ChainFacts DEF PoolsOK
  <2> QED
    BY <2>1
<1>3. pools' = [k \in DOMAIN pools |-> [pools[k] EXCEPT !.chain =
                  [i \in DOMAIN @ |-> [@[i] EXCEPT !.bit = FALSE]]]]
  BY DEF Clear, MapChains
<1>4. pools' = [k \in DOMAIN pools |-> [pools[k] EXCEPT !.chain = [i \in DOMAIN @ |-> W[@[i]]]]]
  <2> HIDE DEF W
  <2> QED
    BY <1>2, <1>3
<1>5. \A b \in Block : W[b] = [b EXCEPT !.bit = FALSE]
  OBVIOUS
<1> HIDE DEF W
<1>6. Rewritten(pools, pools', W)
  BY <1>1, <1>4, RewrittenIs
<1> QED
  BY <1>1, <1>5, <1>6

LEMMA SweepStep ==
  ASSUME PoolsOK(pools), NEW granted \in BOOLEAN, Sweep(granted)
  PROVE  \E ss : /\ Swept(pools, ss) /\ pools' = TrimEmpty(ss, granted)
                 /\ blocks' = blocks - (NumberOfBlocks(pools) - NumberOfBlocks(ss))
                 /\ UpdateInfo(pools') /\ peak' = peak
<1>1. PICK ss : ss = [k \in DOMAIN pools |-> SweepSub(pools[k])]
  OBVIOUS
<1>2. Swept(pools, ss)
  BY <1>1, SweptOK DEF SweepOf
<1>3. /\ pools' = TrimEmpty(ss, granted)
      /\ blocks' = blocks - (NumberOfBlocks(pools) - NumberOfBlocks(ss))
      /\ UpdateInfo(TrimEmpty(ss, granted)) /\ peak' = peak
  BY <1>1 DEF Sweep
<1> QED
  BY <1>2, <1>3

(***************************************************************************)
(* The inductive invariant.                                                *)
(***************************************************************************)
IInv == noalign \in BOOLEAN /\ PoolInv(pools, blocks, capacity, usage, peak)

LEMMA InitIInv == Init => IInv
<1> SUFFICES ASSUME Init PROVE IInv
  OBVIOUS
<1>1. /\ noalign \in BOOLEAN /\ pools = <<SubNew(1)>> /\ blocks = 0
      /\ capacity = SubSize /\ usage = SubSize - Final
      /\ peak = [capacity |-> SubSize, usage |-> SubSize - Final, blocks |-> 0]
  BY DEF Init
<1>2. PICK sp, e, qs : sp = SubNew(1) /\ e = <<>> /\ qs = pools
  OBVIOUS
<1>3. MaxPools >= 1 /\ MaxPools \in Nat /\ 1 \in 1 .. MaxPools
  BY PoolAssumption
<1>4. SubOK(sp) /\ sp.free = Final /\ Len(sp.chain) = 0
  BY <1>2, <1>3, SubNewOK
<1>5. PoolsOK(e) /\ Len(e) = 0 /\ SizeFree(e) = 0 /\ NumberOfBlocks(e) = 0
  BY <1>2, NoPools
<1>6. qs = Append(e, sp)
  <2>1. Append(<<>>, sp) = <<sp>>
    OBVIOUS
  <2> QED
    BY <1>1, <1>2, <2>1
<1>7. PoolsOK(qs) /\ Len(qs) = 1 /\ SizeFree(qs) = Final /\ NumberOfBlocks(qs) = 0
  <2>1. \A i \in 1 .. Len(e) : UridsOf(e[i]) \cap UridsOf(sp) = {}
    BY <1>5
  <2>2. /\ PoolsOK(Append(e, sp)) /\ Len(Append(e, sp)) = Len(e) + 1
        /\ SizeFree(Append(e, sp)) = SizeFree(e) + sp.free
        /\ NumberOfBlocks(Append(e, sp)) = NumberOfBlocks(e) + Len(sp.chain)
    BY <1>4, <1>5, <2>1, AppendPool
  <2>3. PoolsOK(qs) /\ Len(qs) = 0 + 1 /\ SizeFree(qs) = 0 + Final /\ NumberOfBlocks(qs) = 0 + 0
    BY <1>4, <1>5, <1>6, <2>2
  <2> QED
    BY <2>3, Numbers
<1>8. SizeCapacity(qs) = SubSize /\ SizeCapacity(qs) - SizeFree(qs) = SubSize - Final
  BY <1>7, Numbers, Distributes DEF SizeCapacity
<1>9. InfoOf(qs, 0, SubSize, SubSize - Final) /\ SubSize \in Nat /\ SubSize - Final \in Nat
  <2>1. NumberOfBlocks(qs) = 0
    BY <1>7
  <2>2. /\ InfoOf(qs, 0, SizeCapacity(qs), SizeCapacity(qs) - SizeFree(qs))
        /\ SizeCapacity(qs) \in Nat /\ SizeCapacity(qs) - SizeFree(qs) \in Nat
    BY <1>7, <2>1, InfoAnew
  <2> QED
    BY <1>8, <2>2
<1>10. peak.blocks = 0 /\ peak.capacity = SubSize /\ peak.usage = SubSize - Final
  BY <1>1
<1>11. peak \in [capacity: Nat, usage: Nat, blocks: Nat]
  BY <1>1, <1>9
<1>12. PeaksOf(qs, 0, peak)
  <2>1. PICK n \in 0 .. Len(qs) :
          /\ Idle(qs, n)
          /\ SubSize = SizeCapacity(qs) - n * SubSize
          /\ SubSize - Final = SizeCapacity(qs) - SizeFree(qs) - n * Hdr
    BY <1>9 DEF InfoOf
  <2>2. SizeCapacity(qs) - n * SubSize <= peak.capacity /\ SizeCapacity(qs) - SizeFree(qs) - n * Hdr <= peak.usage
    <3>1. SubSize <= SubSize /\ SubSize - Final <= SubSize - Final
      BY Numbers
    <3> QED
      BY <1>10, <2>1, <3>1
  <2> QED
    BY <1>10, <2>1, <2>2 DEF PeaksOf
<1>13. PoolInv(qs, 0, SubSize, SubSize - Final, peak)
  BY <1>3, <1>7, <1>9, <1>11, <1>12 DEF PoolInv
<1> QED
  BY <1>1, <1>2, <1>13 DEF IInv

LEMMA MallocInv ==
  ASSUME IInv, NEW size \in Sizes, NEW managed \in BOOLEAN, NEW data \in Contents, NEW granted \in BOOLEAN,
         Malloc(size, managed, data, granted)
  PROVE  PoolInv(pools', blocks', capacity', usage', peak')
<1>1. /\ PoolInv(pools, blocks, capacity, usage, peak) /\ PoolsOK(pools) /\ Len(pools) <= MaxPools
      /\ blocks = NumberOfBlocks(pools) /\ peak \in [capacity: Nat, usage: Nat, blocks: Nat]
      /\ size \in Nat
  BY PoolAssumption DEF IInv, PoolInv, InfoOf
<1>2. PICK ps : \E x \in {0, 1} :
           /\ Grown(pools, ps, x) /\ Len(ps) <= MaxPools
           /\ \/ pools' = ps /\ UNCHANGED <<blocks, capacity, usage, peak>>
              \/ \E k \in 1 .. Len(ps) : \E b : ServedAt(ps, pools', k, b) /\ Allocated(pools')
  BY <1>1, MallocStep
<1>3. PICK x \in {0, 1} :
           /\ Grown(pools, ps, x) /\ Len(ps) <= MaxPools
           /\ \/ pools' = ps /\ UNCHANGED <<blocks, capacity, usage, peak>>
              \/ \E k \in 1 .. Len(ps) : \E b : ServedAt(ps, pools', k, b) /\ Allocated(pools')
  BY <1>2
<1>4. PoolsOK(ps) /\ NumberOfBlocks(ps) = NumberOfBlocks(pools) /\ PoolInv(ps, blocks, capacity, usage, peak)
  BY <1>1, <1>3, GrownInv DEF Grown
<1>5. CASE pools' = ps /\ UNCHANGED <<blocks, capacity, usage, peak>>
  BY <1>4, <1>5
<1>6. ASSUME NEW k \in 1 .. Len(ps), NEW b, ServedAt(ps, pools', k, b), Allocated(pools')
      PROVE  PoolInv(pools', blocks', capacity', usage', peak')
  <2>1. PICK qs : qs = pools'
    OBVIOUS
  <2>2. PoolsOK(qs) /\ Len(qs) = Len(ps) /\ NumberOfBlocks(qs) = NumberOfBlocks(ps) + 1
    BY <1>4, <1>6, <2>1, ServedAtFacts
  <2>3. PICK bl, cap, us, npk : bl = blocks' /\ cap = capacity' /\ us = usage' /\ npk = peak'
    OBVIOUS
  <2>4. /\ bl = blocks + 1 /\ cap = SizeCapacity(qs) /\ us = SizeCapacity(qs) - SizeFree(qs)
        /\ npk = [capacity |-> Max({peak.capacity, cap}), usage |-> Max({peak.usage, us}),
                  blocks |-> Max({peak.blocks, bl})]
    BY <1>6, <2>1, <2>3 DEF Allocated, UpdateInfo
  <2>5. bl = NumberOfBlocks(qs)
    BY <1>1, <1>4, <2>2, <2>4
  <2>6. Len(qs) <= MaxPools
    BY <1>3, <2>2
  <2>7. PoolInv(qs, bl, cap, us, npk)
    BY <1>1, <2>2, <2>4, <2>5, <2>6, AllocatedInv
  <2> QED
    BY <2>1, <2>3, <2>7
<1> QED
  BY <1>3, <1>5, <1>6

LEMMA FreeInv ==
  ASSUME IInv, NEW u, Free(u)
  PROVE  PoolInv(pools', blocks', capacity', usage', peak')
<1>1. PoolInv(pools, blocks, capacity, usage, peak) /\ PoolsOK(pools)
  BY DEF IInv, PoolInv
<1>2a. PICK k \in 1 .. Len(pools) : \E b : b.urid = u /\ FreedAt(pools, pools', k, b)
  BY <1>1, FreeStep
<1>2. PICK b : b.urid = u /\ FreedAt(pools, pools', k, b)
  BY <1>2a
<1>3. blocks' = blocks - 1 /\ UpdateInfo(pools') /\ peak' = peak
  BY <1>1, FreeStep
<1>4. capacity' = SizeCapacity(pools') /\ usage' = SizeCapacity(pools') - SizeFree(pools')
  BY <1>3 DEF UpdateInfo
<1>5. PICK qs, cap, us : qs = pools' /\ cap = capacity' /\ us = usage'
  OBVIOUS
<1>6. FreedAt(pools, qs, k, b) /\ cap = SizeCapacity(qs) /\ us = SizeCapacity(qs) - SizeFree(qs)
  BY <1>2, <1>4, <1>5
<1>7. PoolInv(qs, blocks - 1, cap, us, peak)
  BY <1>1, <1>6, FreedInv
<1> QED
  BY <1>3, <1>5, <1>7

LEMMA SweepInv ==
  ASSUME IInv, NEW granted \in BOOLEAN, Sweep(granted)
  PROVE  PoolInv(pools', blocks', capacity', usage', peak')
<1>1. PoolInv(pools, blocks, capacity, usage, peak) /\ PoolsOK(pools)
  BY DEF IInv, PoolInv
<1>2. PICK ss : /\ Swept(pools, ss) /\ pools' = TrimEmpty(ss, granted)
                /\ blocks' = blocks - (NumberOfBlocks(pools) - NumberOfBlocks(ss))
                /\ UpdateInfo(pools') /\ peak' = peak
  BY <1>1, SweepStep
<1>3. capacity' = SizeCapacity(pools') /\ usage' = SizeCapacity(pools') - SizeFree(pools')
  BY <1>2 DEF UpdateInfo
<1>4. PICK qs, cap, us, cl : qs = pools' /\ cap = capacity' /\ us = usage' /\ cl = blocks'
  OBVIOUS
<1>5. /\ Swept(pools, ss) /\ qs = TrimEmpty(ss, granted)
      /\ cl = blocks - (NumberOfBlocks(pools) - NumberOfBlocks(ss))
      /\ cap = SizeCapacity(qs) /\ us = SizeCapacity(qs) - SizeFree(qs)
  BY <1>2, <1>3, <1>4
<1>6. PoolInv(qs, cl, cap, us, peak)
  BY <1>1, <1>5, SweptInv
<1> QED
  BY <1>2, <1>4, <1>6

LEMMA RewriteInv ==
  ASSUME IInv, NEW W, Rewrites(W), Rewritten(pools, pools', W), UNCHANGED <<blocks, capacity, usage, peak>>
  PROVE  PoolInv(pools', blocks', capacity', usage', peak')
<1>1. PoolInv(pools, blocks, capacity, usage, peak)
  BY DEF IInv
<1>2. PICK qs : qs = pools'
  OBVIOUS
<1>3. PoolInv(qs, blocks, capacity, usage, peak)
  BY <1>1, <1>2, RewrittenInv
<1> QED
  BY <1>2, <1>3

LEMMA NextIInv == IInv /\ [Next]_vars => IInv'
<1> SUFFICES ASSUME IInv, [Next]_vars PROVE IInv'
  OBVIOUS
<1>1. PoolsOK(pools)
  BY DEF IInv, PoolInv
<1>2. SUFFICES ASSUME Operation, UNCHANGED noalign PROVE PoolInv(pools', blocks', capacity', usage', peak')
  BY DEF Next, vars, IInv
<1>3. ASSUME NEW size \in Sizes, NEW managed \in BOOLEAN, NEW data \in Contents, NEW granted \in BOOLEAN,
             Malloc(size, managed, data, granted)
      PROVE  PoolInv(pools', blocks', capacity', usage', peak')
  BY <1>3, MallocInv
<1>4. ASSUME NEW u \in Urids, Free(u) PROVE PoolInv(pools', blocks', capacity', usage', peak')
  BY <1>4, FreeInv
<1>5. ASSUME NEW u \in Urids, Mark(u) PROVE PoolInv(pools', blocks', capacity', usage', peak')
  <2>1. UNCHANGED <<blocks, capacity, usage, peak>>
    BY <1>5 DEF Mark
  <2> QED
    BY <1>1, <1>5, <2>1, MarkStep, RewriteInv
<1>6. ASSUME NEW u \in Urids, NEW data \in Contents, Write(u, data)
      PROVE  PoolInv(pools', blocks', capacity', usage', peak')
  <2>1. UNCHANGED <<blocks, capacity, usage, peak>>
    BY <1>6 DEF Write
  <2> QED
    BY <1>1, <1>6, <2>1, WriteStep, RewriteInv
<1>7. ASSUME Clear PROVE PoolInv(pools', blocks', capacity', usage', peak')
  <2>1. UNCHANGED <<blocks, capacity, usage, peak>>
    BY <1>7 DEF Clear
  <2> QED
    BY <1>1, <1>7, <2>1, ClearStep, RewriteInv
<1>8. ASSUME NEW granted \in BOOLEAN, Sweep(granted) PROVE PoolInv(pools', blocks', capacity', usage', peak')
  BY <1>8, SweepInv
<1> QED
  BY <1>2, <1>3, <1>4, <1>5, <1>6, <1>7, <1>8 DEF Operation

LEMMA SpecIInv == Spec => []IInv
<1>1. Init => IInv
  BY InitIInv
<1>2. IInv /\ [Next]_vars => IInv'
  BY NextIInv
<1> QED
  BY <1>1, <1>2, PTL DEF Spec

LEMMA IInvFacts ==
  ASSUME IInv
  PROVE  /\ noalign \in BOOLEAN /\ PoolsOK(pools) /\ Len(pools) <= MaxPools
         /\ pools \in Seq(SubPool) /\ DOMAIN pools = 1 .. Len(pools) /\ Len(pools) \in Nat
         /\ \A k \in 1 .. Len(pools) :
              /\ SubOK(pools[k]) /\ pools[k].chain \in Seq(Block)
              /\ DOMAIN pools[k].chain = 1 .. Len(pools[k].chain)
<1>1. PoolsOK(pools) /\ noalign \in BOOLEAN /\ Len(pools) <= MaxPools
  BY DEF IInv, PoolInv
<1>2. pools \in Seq(SubPool) /\ \A k \in 1 .. Len(pools) : SubOK(pools[k])
  BY <1>1 DEF PoolsOK
<1>3. \A k \in 1 .. Len(pools) : pools[k].chain \in Seq(Block)
  BY <1>2, SubFacts DEF SubOK
<1> QED
  BY <1>1, <1>2, <1>3, LenProperties

LEMMA HoleApart ==
  ASSUME NEW c \in Seq(Block), Apart(c), NEW i \in 1 .. Len(c)
  PROVE  Hole(c, i) >= 0
<1>1. c[i] \in Block /\ OffsetNext(c, i) \in Nat /\ c[i].off + Span(c[i]) <= OffsetNext(c, i)
  BY ChainFacts DEF Apart
<1>2. PICK o, s, x : o = c[i].off /\ s = Span(c[i]) /\ x = OffsetNext(c, i)
  OBVIOUS
<1>3. o \in Nat /\ s \in Nat /\ x \in Nat /\ o + s <= x
  BY <1>1, <1>2, BlockFacts
<1>4. x - (o + s) >= 0
  BY <1>3
<1> QED
  BY <1>2, <1>4 DEF Hole

LEMMA IInvSound == IInv => PoolSound
<1> SUFFICES ASSUME IInv PROVE PoolSound
  OBVIOUS
<1>1. /\ noalign \in BOOLEAN /\ PoolsOK(pools) /\ Len(pools) <= MaxPools
      /\ pools \in Seq(SubPool) /\ DOMAIN pools = 1 .. Len(pools) /\ Len(pools) \in Nat
      /\ \A k \in 1 .. Len(pools) :
           /\ SubOK(pools[k]) /\ pools[k].chain \in Seq(Block)
           /\ DOMAIN pools[k].chain = 1 .. Len(pools[k].chain)
  BY IInvFacts
<1>2. TypeOK
  <2>1. blocks \in Nat /\ capacity \in Nat /\ usage \in Nat /\ peak \in [capacity: Nat, usage: Nat, blocks: Nat]
    BY <1>1, UsedFacts DEF IInv, PoolInv, InfoOf
  <2> QED
    BY <1>1, <2>1 DEF TypeOK
<1>3. BlocksDisjoint
  BY <1>1, HoleApart DEF BlocksDisjoint, SubOK
<1>4. UridsDistinct
  <2> SUFFICES ASSUME NEW k \in DOMAIN pools, NEW l \in DOMAIN pools,
                      NEW i \in DOMAIN pools[k].chain, NEW j \in DOMAIN pools[l].chain,
                      pools[k].chain[i].urid = pools[l].chain[j].urid
               PROVE  k = l /\ i = j
    BY DEF UridsDistinct
  <2>0. /\ k \in 1 .. Len(pools) /\ l \in 1 .. Len(pools)
        /\ i \in 1 .. Len(pools[k].chain) /\ j \in 1 .. Len(pools[l].chain)
    BY <1>1
  <2>1. pools[k].chain[i].urid \in UridsOf(pools[k]) /\ pools[l].chain[j].urid \in UridsOf(pools[l])
    BY <1>1, <2>0, UridsOfSub
  <2>2. k = l
    BY <1>1, <2>0, <2>1 DEF PoolsOK
  <2>3. \A x, y \in 1 .. Len(pools[k].chain) : pools[k].chain[x].urid = pools[k].chain[y].urid => x = y
    BY <1>1, <2>0 DEF SubOK, OwnUrids
  <2> QED
    BY <2>0, <2>2, <2>3
<1>5. FreeExact
  BY <1>1 DEF FreeExact, SubOK
<1>6. InfoExact /\ PeaksHold
  BY DEF IInv, PoolInv, InfoOf, PeaksOf, InfoExact, PeaksHold
<1> QED
  BY <1>2, <1>3, <1>4, <1>5, <1>6 DEF PoolSound

(* Blocks keep apart and have urids of their own, size_free is exact and   *)
(* so are the figures of the pool: xjr_mp_malloc, xjr_mp_free,             *)
(* xjr_mp_align_blocks, xjr_mp_sweep and xjr_mp_trim_empty_sub_pools keep  *)
(* the books, whatever the sizes and however many sub pools.               *)
THEOREM PoolStaysSound == Spec => []PoolSound
<1>1. IInv => PoolSound
  BY IInvSound
<1> QED
  BY <1>1, SpecIInv, PTL

LEMMA IInvRetry == IInv => RetryTerminates
<1> SUFFICES ASSUME IInv, NEW k \in DOMAIN pools, NEW size \in 0 .. pools[k].free - Hdr,
                    ~FitsInFront(pools[k], size)
             PROVE  Roomy(Compact(pools[k]), size) # {}
  BY DEF RetryTerminates
<1>1. SubOK(pools[k])
  BY IInvFacts
<1>2. PICK f : f = pools[k].free
  OBVIOUS
<1>3. f \in Nat /\ Hdr \in Nat
  BY <1>1, <1>2, SubFacts, Numbers DEF SubOK
<1>4. size \in Nat /\ size + Hdr <= f
  BY <1>2, <1>3
<1> QED
  BY <1>1, <1>2, <1>4, CompactRoomy

LEMMA IInvRefused == IInv => RefusedOnlyWhenFull
<1> SUFFICES ASSUME IInv, NEW size \in Sizes, NEW ps, ps = ServedIn(size, TRUE),
                    size + 2 * Hdr <= SubSize, ~CanMalloc(ps, size), ~noalign, AllocateUrid(ps) # Invalid
             PROVE  Len(ps) = MaxPools /\ \A k \in DOMAIN ps : ps[k].free < size + Hdr
  BY DEF RefusedOnlyWhenFull
<1>1. PoolsOK(pools) /\ Len(pools) <= MaxPools /\ size \in Nat /\ Hdr \in Nat /\ Final \in Nat
      /\ Final = SubSize - Hdr /\ SubSize \in Nat /\ MaxPools \in Nat
  BY IInvFacts, Numbers, PoolAssumption
<1>2. PICK x \in {0, 1} : Grown(pools, ps, x)
  BY <1>1, ServedInOK
<1>3. PoolsOK(ps) /\ ps \in Seq(SubPool) /\ Len(ps) <= MaxPools /\ Len(ps) \in Nat /\ DOMAIN ps = 1 .. Len(ps)
  BY <1>1, <1>2, ServedInOK, LenProperties DEF Grown, PoolsOK
<1>4. ASSUME NEW k \in DOMAIN ps PROVE ps[k].free < size + Hdr
  <2>1. ~(Hdr + size <= ps[k].free)
    BY DEF CanMalloc, Candidates, CanPlace
  <2>2. ps[k].free \in Nat
    BY <1>3, PoolsFacts, SubFacts
  <2>3. PICK f : f = ps[k].free
    OBVIOUS
  <2>4. f \in Nat /\ ~(Hdr + size <= f)
    BY <2>1, <2>2, <2>3
  <2>5. f < size + Hdr
    BY <1>1, <2>4
  <2> QED
    BY <2>3, <2>5
<1>5. PICK al : al = IF ~noalign /\ Len(pools) > 1 /\ SizeFree(pools) >= size + Hdr
                     THEN AlignBlocks(pools) ELSE pools
  OBVIOUS
<1>6. PoolsOK(al) /\ Len(al) = Len(pools)
  BY <1>1, <1>5, AlignBlocksOK DEF Rearranged
<1>7. ps = Extend(al, TRUE)
  <2>1. ServedIn(size, TRUE) = CASE CanMalloc(pools, size) -> pools
                                 [] ~CanMalloc(pools, size) /\ CanMalloc(al, size) -> al
                                 [] OTHER -> Extend(al, TRUE)
    BY <1>5 DEF ServedIn
  <2> QED
    BY <2>1
<1>8. ASSUME Len(al) < MaxPools PROVE FALSE
  <2>1. Extended(al, ps)
    BY <1>6, <1>7, <1>8, ExtendedOK
  <2>2. Len(ps) = Len(al) + 1 /\ IsEmpty(ps[Len(al) + 1])
    BY <2>1 DEF Extended
  <2>3. Len(ps) \in DOMAIN ps /\ IsEmpty(ps[Len(ps)])
    <3>1. PICK l, m : l = Len(al) /\ m = Len(ps)
      OBVIOUS
    <3>2. l \in Nat /\ m = l + 1 /\ m \in Nat
      BY <1>3, <1>6, <2>2, <3>1, UsedFacts
    <3>3. m \in 1 .. m
      BY <3>2
    <3> QED
      BY <1>3, <2>2, <3>1, <3>2, <3>3
  <2>4. ps[Len(ps)].free = Final
    BY <1>3, <2>3, EmptyPool DEF PoolsOK
  <2>5. Final < size + Hdr
    BY <1>4, <2>3, <2>4
  <2> QED
    BY <1>1, <2>5
<1>9. ps = al
  BY <1>7, <1>8 DEF Extend
<1>10. Len(ps) = MaxPools
  <2>1. PICK l, m : l = Len(al) /\ m = Len(ps)
    OBVIOUS
  <2>2. l = m /\ m \in Nat /\ m <= MaxPools /\ ~(l < MaxPools)
    BY <1>3, <1>8, <1>9, <2>1
  <2>3. m = MaxPools
    BY <1>1, <2>2
  <2> QED
    BY <2>1, <2>3
<1> QED
  BY <1>4, <1>10

(* The compaction of xjr_sub_pool_allocate_space always makes room, so the *)
(* retries end, and xjr_mp_malloc_opt refuses a request only when the      *)
(* urids are used up or no sub pool has the bytes and none can be added.   *)
THEOREM RequestsAreServed == Spec => []ServedWhenRoom
<1>1. IInv => ServedWhenRoom
  BY IInvRetry, IInvRefused DEF ServedWhenRoom
<1> QED
  BY <1>1, SpecIInv, PTL

(***************************************************************************)
(* Where blocks are.                                                       *)
(***************************************************************************)
At(ps, u, w) ==
  \E k \in 1 .. Len(ps) : \E b \in Range(ps[k].chain) : b.urid = u /\ w = <<ps[k].base, b.off>>

LEMMA WhereIs ==
  ASSUME NEW ps, PoolsOK(ps), NEW u, NEW w, At(ps, u, w)
  PROVE  Where(ps, u) = w
<1>1. PICK k \in 1 .. Len(ps) : \E b \in Range(ps[k].chain) : b.urid = u /\ w = <<ps[k].base, b.off>>
  BY DEF At
<1>2. PICK b \in Range(ps[k].chain) : b.urid = u /\ w = <<ps[k].base, b.off>>
  BY <1>1
<1>3. ps \in Seq(SubPool) /\ DOMAIN ps = 1 .. Len(ps) /\ SubOK(ps[k]) /\ u \in UridsOf(ps[k])
  BY <1>2, LenProperties DEF PoolsOK, UridsOf
<1>4. \A j \in DOMAIN ps : u \in UridsOf(ps[j]) => j = k
  BY <1>3 DEF PoolsOK
<1>5. PICK l : l = CHOOSE j \in DOMAIN ps : u \in UridsOf(ps[j])
  OBVIOUS
<1>6. l = k
  <2>1. k \in DOMAIN ps
    BY <1>3
  <2>2. l \in DOMAIN ps /\ u \in UridsOf(ps[l])
    BY <1>3, <1>5, <2>1
  <2> QED
    BY <1>4, <2>2
<1>7. ps[k].chain \in Seq(Block) /\ OwnUrids(ps[k].chain) /\ DOMAIN ps[k].chain = 1 .. Len(ps[k].chain)
  BY <1>3, SubFacts, LenProperties DEF SubOK
<1>8. PICK i : i = Find(ps[k], u)
  OBVIOUS
<1>9. i \in 1 .. Len(ps[k].chain) /\ ps[k].chain[i].urid = u
  BY <1>3, <1>7, <1>8, FindFacts
<1>10. PICK j \in 1 .. Len(ps[k].chain) : b = ps[k].chain[j]
  BY <1>2, <1>7 DEF Range
<1>11. i = j
  BY <1>2, <1>7, <1>9, <1>10 DEF OwnUrids
<1>12. Where(ps, u) = <<ps[k].base, ps[k].chain[i].off>>
  BY <1>5, <1>6, <1>8 DEF Where
<1> QED
  BY <1>2, <1>10, <1>11, <1>12

LEMMA LiveIsSomewhere ==
  ASSUME NEW ps, PoolsOK(ps), NEW u \in LiveUrids(ps)
  PROVE  \E w : At(ps, u, w)
<1>1. PICK k \in 1 .. Len(ps) : u \in UridsOf(ps[k])
  BY LiveUridsFacts DEF PoolsOK
<1>2. PICK b \in Range(ps[k].chain) : b.urid = u
  BY <1>1 DEF UridsOf
<1>3. At(ps, u, <<ps[k].base, b.off>>)
  BY <1>2 DEF At
<1> QED
  BY <1>3

(* A live block that is at one place before and after stays where it is.   *)
LEMMA StaysIfForward ==
  ASSUME NEW ps, PoolsOK(ps), NEW qs, PoolsOK(qs), NEW u \in LiveUrids(ps),
         \A w : At(ps, u, w) => At(qs, u, w)
  PROVE  Where(qs, u) = Where(ps, u)
<1>1. PICK w : At(ps, u, w)
  BY LiveIsSomewhere
<1> QED
  BY <1>1, WhereIs

LEMMA StaysIfBackward ==
  ASSUME NEW ps, PoolsOK(ps), NEW qs, PoolsOK(qs), NEW u \in LiveUrids(qs),
         \A w : At(qs, u, w) => At(ps, u, w)
  PROVE  Where(qs, u) = Where(ps, u)
<1>1. PICK w : At(qs, u, w)
  BY LiveIsSomewhere
<1> QED
  BY <1>1, WhereIs

LEMMA MallocStays ==
  ASSUME NEW ps, NEW x \in {0, 1}, NEW rs, Grown(ps, rs, x), PoolsOK(ps),
         \A k \in 1 .. Len(ps) : rs[k] = ps[k],
         NEW qs, qs = rs \/ \E k \in 1 .. Len(rs) : \E b : Changed(rs, qs, k) /\ PutIn(rs[k], qs[k], b),
         NEW u, NEW w, At(ps, u, w)
  PROVE  At(qs, u, w)
<1>1. At(rs, u, w)
  <2>1. Len(ps) \in Nat /\ Len(rs) = Len(ps) + x
    BY UsedFacts DEF Grown
  <2>2. \A k \in 1 .. Len(ps) : k \in 1 .. Len(rs)
    BY <2>1
  <2> QED
    BY <2>2 DEF At
<1>2. CASE qs = rs
  BY <1>1, <1>2
<1>3. ASSUME NEW k \in 1 .. Len(rs), NEW b, Changed(rs, qs, k), PutIn(rs[k], qs[k], b) PROVE At(qs, u, w)
  <2>1. Len(qs) = Len(rs) /\ \A l \in 1 .. Len(rs) : l # k => qs[l] = rs[l]
    BY <1>3 DEF Changed
  <2>2. qs[k].base = rs[k].base /\ Range(rs[k].chain) \subseteq Range(qs[k].chain)
    BY <1>3 DEF PutIn
  <2>3. \A l \in 1 .. Len(rs) : qs[l].base = rs[l].base /\ Range(rs[l].chain) \subseteq Range(qs[l].chain)
    BY <2>1, <2>2
  <2> QED
    BY <1>1, <2>1, <2>3 DEF At
<1> QED
  BY <1>2, <1>3

LEMMA FreeStays ==
  ASSUME NEW ps, NEW qs, NEW k \in 1 .. Len(ps), NEW b, FreedAt(ps, qs, k, b), NEW u, NEW w, At(qs, u, w)
  PROVE  At(ps, u, w)
<1>1. Len(qs) = Len(ps) /\ \A l \in 1 .. Len(ps) : l # k => qs[l] = ps[l]
  BY DEF FreedAt, Changed
<1>2. qs[k].base = ps[k].base /\ Range(qs[k].chain) \subseteq Range(ps[k].chain)
  BY DEF FreedAt, TakenFrom
<1>3. \A l \in 1 .. Len(ps) : qs[l].base = ps[l].base /\ Range(qs[l].chain) \subseteq Range(ps[l].chain)
  BY <1>1, <1>2
<1> QED
  BY <1>1, <1>3 DEF At

LEMMA RewriteStays ==
  ASSUME NEW ps, PoolsOK(ps), NEW W, Rewrites(W), NEW qs, Rewritten(ps, qs, W), NEW u, NEW w, At(ps, u, w)
  PROVE  At(qs, u, w)
<1>1. PICK k \in 1 .. Len(ps) : \E b \in Range(ps[k].chain) : b.urid = u /\ w = <<ps[k].base, b.off>>
  BY DEF At
<1>2. PICK b \in Range(ps[k].chain) : b.urid = u /\ w = <<ps[k].base, b.off>>
  BY <1>1
<1>3. RewrittenSub(ps[k], qs[k], W) /\ Len(qs) = Len(ps) /\ SubOK(ps[k])
  BY DEF Rewritten, PoolsOK
<1>4. ps[k].chain \in Seq(Block) /\ qs[k].chain \in Seq(Block) /\ Len(qs[k].chain) = Len(ps[k].chain)
  BY <1>3, SubFacts DEF SubOK, RewrittenSub
<1>5. PICK i \in 1 .. Len(ps[k].chain) : b = ps[k].chain[i]
  BY <1>2, <1>4, LenProperties DEF Range
<1>6. b \in Block
  BY <1>4, <1>5, ChainFacts
<1>7. qs[k].chain[i] = W[b] /\ qs[k].base = ps[k].base
  BY <1>3, <1>5 DEF RewrittenSub
<1>8. W[b] \in Range(qs[k].chain)
  <2>1. i \in DOMAIN qs[k].chain
    BY <1>4, LenProperties
  <2> QED
    BY <1>7, <2>1 DEF Range
<1>9. W[b].urid = u /\ w = <<qs[k].base, W[b].off>>
  BY <1>2, <1>6, <1>7 DEF Rewrites
<1> QED
  BY <1>3, <1>8, <1>9 DEF At

LEMMA SweepStays ==
  ASSUME NEW ps, NEW ss, Swept(ps, ss), NEW granted, NEW qs, qs = TrimEmpty(ss, granted),
         NEW u, NEW w, At(qs, u, w)
  PROVE  At(ps, u, w)
<1>1. At(ss, u, w) => At(ps, u, w)
  <2>1. Len(ss) = Len(ps)
    BY DEF Swept
  <2>2. \A k \in 1 .. Len(ps) : ss[k].base = ps[k].base /\ Range(ss[k].chain) \subseteq Range(ps[k].chain)
    BY DEF Swept, SweptSub
  <2> QED
    BY <2>1, <2>2 DEF At
<1>2. PICK x : x = NonEmpty(ss)
  OBVIOUS
<1>3. CASE qs = ss
  BY <1>1, <1>3
<1>4. CASE qs = x
  <2>1. KeptOf(ss, Len(ss), qs)
    BY <1>2, <1>4, NonEmptyKept DEF Swept
  <2>2. At(ss, u, w)
    BY <2>1 DEF At, KeptOf
  <2> QED
    BY <1>1, <2>2
<1>5. CASE qs = <<SubNew(1)>> \/ qs = <<>>
  <2>1. Len(qs) \in {0, 1} /\ \A k \in 1 .. Len(qs) : qs[k] = SubNew(1)
    BY <1>5
  <2>2. Range(SubNew(1).chain) = {}
    BY DEF SubNew, Range
  <2> QED
    BY <2>1, <2>2 DEF At
<1>6. qs = ss \/ qs = x \/ qs = <<SubNew(1)>> \/ qs = <<>>
  <2>1. TrimEmpty(ss, granted) = CASE Len(ss) = 1 -> ss
                                   [] Len(ss) # 1 /\ x # <<>> -> x
                                   [] OTHER -> IF granted THEN <<SubNew(1)>> ELSE <<>>
    BY <1>2 DEF TrimEmpty
  <2> QED
    BY <2>1
<1> QED
  BY <1>3, <1>4, <1>5, <1>6

Stays == noalign => \A u \in LiveUrids(pools) \cap LiveUrids(pools') : Where(pools', u) = Where(pools, u)

LEMMA NextStays ==
  ASSUME IInv, IInv', [Next]_vars
  PROVE  Stays
<1>1. PoolsOK(pools) /\ Len(pools) <= MaxPools
  BY DEF IInv, PoolInv
<1>2. PICK qs : qs = pools'
  OBVIOUS
<1>3. PoolsOK(qs)
  BY <1>2 DEF IInv, PoolInv
<1>4. SUFFICES ASSUME noalign, NEW u \in LiveUrids(pools), u \in LiveUrids(qs)
               PROVE  Where(qs, u) = Where(pools, u)
  BY <1>2 DEF Stays
<1>5. CASE UNCHANGED vars
  BY <1>2, <1>5 DEF vars
<1>6. ASSUME NEW size \in Sizes, NEW managed \in BOOLEAN, NEW data \in Contents, NEW granted \in BOOLEAN,
             Malloc(size, managed, data, granted)
      PROVE  Where(qs, u) = Where(pools, u)
  <2>1. size \in Nat
    BY PoolAssumption
  <2>2. PICK rs : \E x \in {0, 1} :
           /\ Grown(pools, rs, x)
           /\ \A k \in 1 .. Len(pools) : rs[k] = pools[k]
           /\ qs = rs \/ \E k \in 1 .. Len(rs) : \E b : ServedAt(rs, qs, k, b) /\ PutIn(rs[k], qs[k], b)
    BY <1>1, <1>2, <1>4, <1>6, <2>1, MallocStep
  <2>3. PICK x \in {0, 1} :
           /\ Grown(pools, rs, x)
           /\ \A k \in 1 .. Len(pools) : rs[k] = pools[k]
           /\ qs = rs \/ \E k \in 1 .. Len(rs) : \E b : ServedAt(rs, qs, k, b) /\ PutIn(rs[k], qs[k], b)
    BY <2>2
  <2>4. qs = rs \/ \E k \in 1 .. Len(rs) : \E b : Changed(rs, qs, k) /\ PutIn(rs[k], qs[k], b)
    BY <2>3 DEF ServedAt
  <2>5. \A w : At(pools, u, w) => At(qs, u, w)
    BY <1>1, <2>3, <2>4, MallocStays
  <2> QED
    BY <1>1, <1>3, <2>5, StaysIfForward
<1>7. ASSUME NEW v \in Urids, Free(v) PROVE Where(qs, u) = Where(pools, u)
  <2>1a. PICK k \in 1 .. Len(pools) : \E b : FreedAt(pools, qs, k, b)
    BY <1>1, <1>2, <1>7, FreeStep
  <2>1. PICK b : FreedAt(pools, qs, k, b)
    BY <2>1a
  <2>2. \A w : At(qs, u, w) => At(pools, u, w)
    BY <2>1, FreeStays
  <2> QED
    BY <1>1, <1>3, <1>4, <2>2, StaysIfBackward
<1>8. ASSUME NEW W, Rewrites(W), Rewritten(pools, pools', W) PROVE Where(qs, u) = Where(pools, u)
  <2>1. Rewritten(pools, qs, W)
    BY <1>2, <1>8
  <2>2. \A w : At(pools, u, w) => At(qs, u, w)
    BY <1>1, <1>8, <2>1, RewriteStays
  <2> QED
    BY <1>1, <1>3, <2>2, StaysIfForward
<1>9. ASSUME NEW granted \in BOOLEAN, Sweep(granted) PROVE Where(qs, u) = Where(pools, u)
  <2>1. PICK ss : Swept(pools, ss) /\ qs = TrimEmpty(ss, granted)
    BY <1>1, <1>2, <1>9, SweepStep
  <2>2. \A w : At(qs, u, w) => At(pools, u, w)
    BY <2>1, SweepStays
  <2> QED
    BY <1>1, <1>3, <1>4, <2>2, StaysIfBackward
<1>10. ASSUME NEW v \in Urids, Mark(v) PROVE Where(qs, u) = Where(pools, u)
  BY <1>1, <1>8, <1>10, MarkStep
<1>11. ASSUME NEW v \in Urids, NEW data \in Contents, Write(v, data) PROVE Where(qs, u) = Where(pools, u)
  BY <1>1, <1>8, <1>11, WriteStep
<1>12. ASSUME Clear PROVE Where(qs, u) = Where(pools, u)
  BY <1>1, <1>8, <1>12, ClearStep
<1> QED
  BY <1>5, <1>6, <1>7, <1>9, <1>10, <1>11, <1>12 DEF Next, Operation

(* In a pool that does not align no operation moves a live block: the C    *)
(* pointers that callers keep across allocations stay good.                *)
THEOREM LiveBlocksStay == Spec => PointersStable
<1>1. IInv /\ IInv' /\ [Next]_vars => [Stays]_vars
  BY NextStays
<1>2. Spec => [][Stays]_vars
  BY <1>1, SpecIInv, PTL DEF Spec
<1> QED
  BY <1>2 DEF PointersStable, Stays

(***************************************************************************)
(* The map from urids to blocks that a set of entries stands for.          *)
(***************************************************************************)
MapOf(E) == [u \in {e[1] : e \in E} |-> (CHOOSE e \in E : e[1] = u)[2]]

Single(E) == \A e, f \in E : e[1] = f[1] => e = f

LEMMA MapOfFacts ==
  ASSUME NEW E, Single(E)
  PROVE  /\ DOMAIN MapOf(E) = {e[1] : e \in E}
         /\ \A e \in E : MapOf(E)[e[1]] = e[2]
<1>1. DOMAIN MapOf(E) = {e[1] : e \in E}
  BY DEF MapOf
<1>2. ASSUME NEW e \in E PROVE MapOf(E)[e[1]] = e[2]
  <2>1. PICK f : f = CHOOSE g \in E : g[1] = e[1]
    OBVIOUS
  <2>2. f \in E /\ f[1] = e[1]
    BY <2>1
  <2>3. f = e
    BY <2>2 DEF Single
  <2>4. e[1] \in {g[1] : g \in E}
    OBVIOUS
  <2>5. MapOf(E)[e[1]] = f[2]
    BY <2>1, <2>4 DEF MapOf
  <2> QED
    BY <2>3, <2>5
<1> QED
  BY <1>1, <1>2

LEMMA PoolsSingle ==
  ASSUME NEW ps, PoolsOK(ps)
  PROVE  Single(Entries(ps)) /\ {e[1] : e \in Entries(ps)} = LiveUrids(ps)
<1>1. Single(Entries(ps))
  BY EntriesUnique DEF Single
<1>2. ps \in Seq(SubPool)
  BY DEF PoolsOK
<1>3. \A u : u \in {e[1] : e \in Entries(ps)} <=> u \in LiveUrids(ps)
  BY <1>2, LiveUridsFacts
<1> QED
  BY <1>1, <1>3

LEMMA ContainedIs == PoolsOK(pools) => Contained = MapOf(Entries(pools))
<1> SUFFICES ASSUME PoolsOK(pools) PROVE Contained = MapOf(Entries(pools))
  OBVIOUS
<1>1. pools \in Seq(SubPool) /\ DOMAIN pools = 1 .. Len(pools)
  BY LenProperties DEF PoolsOK
<1>2. PICK E, A : E = Entries(pools) /\ A = AllBlocks
  OBVIOUS
<1>3. \A e : e \in E <=> \E b \in A : e = Entry(b)
  <2>1. \A e : e \in E <=> \E k \in 1 .. Len(pools) : \E b \in Range(pools[k].chain) : e = Entry(b)
    BY <1>2 DEF Entries, EntriesOf
  <2>2. \A b : b \in A <=> \E k \in 1 .. Len(pools) : b \in Range(pools[k].chain)
    BY <1>1, <1>2 DEF AllBlocks
  <2> QED
    BY <2>1, <2>2
<1>4. Single(E)
  BY <1>2, PoolsSingle
<1>5. {b.urid : b \in A} = {e[1] : e \in E}
  <2>1. \A b : Entry(b)[1] = b.urid
    BY DEF Entry
  <2> QED
    BY <1>3, <2>1
<1>6. ASSUME NEW u \in {e[1] : e \in E}, NEW b, b = CHOOSE c \in A : c.urid = u
      PROVE  [size |-> b.size, bit |-> b.bit, data |-> b.data] = MapOf(E)[u]
  <2>1. b \in A /\ b.urid = u
    <3>1. \E c \in A : c.urid = u
      BY <1>5
    <3> QED
      BY <1>6, <3>1
  <2>2. Entry(b) \in E /\ Entry(b)[1] = u /\ Entry(b)[2] = [size |-> b.size, bit |-> b.bit, data |-> b.data]
    BY <1>3, <2>1 DEF Entry
  <2> QED
    BY <1>4, <2>2, MapOfFacts
<1> DEFINE CellAt(u) == [size |-> (CHOOSE c \in A : c.urid = u).size,
                         bit |-> (CHOOSE c \in A : c.urid = u).bit,
                         data |-> (CHOOSE c \in A : c.urid = u).data]
<1>7. PICK D, M : D = {b.urid : b \in A} /\ M = MapOf(E)
  OBVIOUS
<1>8. Contained = [u \in D |-> CellAt(u)]
  BY <1>2, <1>7 DEF Contained
<1>9. \A u \in D : CellAt(u) = M[u]
  BY <1>5, <1>6, <1>7
<1>10. M = [u \in D |-> M[u]]
  <2>1. M = [u \in DOMAIN M |-> M[u]]
    BY <1>7 DEF MapOf
  <2>2. DOMAIN M = D
    BY <1>4, <1>5, <1>7, MapOfFacts
  <2> QED
    BY <2>1, <2>2
<1> HIDE DEF CellAt
<1>11. [u \in D |-> CellAt(u)] = [u \in D |-> M[u]]
  BY <1>9
<1> QED
  BY <1>2, <1>7, <1>8, <1>10, <1>11

(* Two maps are equal that have the same entries.                          *)
LEMMA MapIs ==
  ASSUME NEW E, Single(E), NEW D, NEW f, f = [u \in D |-> f[u]], D = {e[1] : e \in E},
         \A e \in E : f[e[1]] = e[2]
  PROVE  MapOf(E) = f
<1>1. ASSUME NEW u \in D PROVE MapOf(E)[u] = f[u]
  <2>1. PICK e \in E : e[1] = u
    OBVIOUS
  <2>2. MapOf(E)[e[1]] = e[2]
    BY MapOfFacts
  <2> QED
    BY <2>1, <2>2
<1>2. MapOf(E) = [u \in D |-> MapOf(E)[u]]
  BY DEF MapOf
<1> QED
  BY <1>1, <1>2

Added(M, u, c) == [v \in DOMAIN M \cup {u} |-> IF v = u THEN c ELSE M[v]]

LEMMA MapAdded ==
  ASSUME NEW E, Single(E), NEW u, u \notin {e[1] : e \in E}, NEW c, NEW F, F = E \cup {<<u, c>>}, Single(F)
  PROVE  MapOf(F) = Added(MapOf(E), u, c)
<1> DEFINE D == DOMAIN MapOf(E) \cup {u}
           f == [v \in D |-> IF v = u THEN c ELSE MapOf(E)[v]]
<1>1. D = {e[1] : e \in F}
  <2>1. DOMAIN MapOf(E) = {e[1] : e \in E}
    BY MapOfFacts
  <2>2. ASSUME NEW v PROVE v \in {e[1] : e \in F} <=> v \in {e[1] : e \in E} \cup {u}
    <3>1. v \in {e[1] : e \in F} <=> \E e \in F : v = e[1]
      OBVIOUS
    <3>2. v \in {e[1] : e \in E} <=> \E e \in E : v = e[1]
      OBVIOUS
    <3>3. <<u, c>>[1] = u
      OBVIOUS
    <3> QED
      BY <3>1, <3>2, <3>3
  <2> QED
    BY <2>1, <2>2
<1>2. f = [v \in D |-> f[v]]
  OBVIOUS
<1>3. ASSUME NEW e \in F PROVE f[e[1]] = e[2]
  <2>1. CASE e = <<u, c>>
    BY <2>1
  <2>2. CASE e \in E
    <3>1. e[1] # u /\ e[1] \in D /\ MapOf(E)[e[1]] = e[2]
      BY <2>2, MapOfFacts
    <3> QED
      BY <3>1
  <2> QED
    BY <2>1, <2>2
<1> HIDE DEF f, D
<1>4. MapOf(F) = f
  BY <1>1, <1>2, <1>3, MapIs
<1> QED
  BY <1>4 DEF f, D, Added

LEMMA MapFiltered ==
  ASSUME NEW E, Single(E), NEW F, F \subseteq E, NEW D, D = {e[1] : e \in F}
  PROVE  MapOf(F) = [v \in D |-> MapOf(E)[v]] /\ Single(F)
<1> DEFINE f == [v \in D |-> MapOf(E)[v]]
<1>1. Single(F)
  BY DEF Single
<1>2. f = [v \in D |-> f[v]]
  OBVIOUS
<1>3. ASSUME NEW e \in F PROVE f[e[1]] = e[2]
  BY MapOfFacts
<1> HIDE DEF f
<1>4. MapOf(F) = f
  BY <1>1, <1>2, <1>3, MapIs
<1> QED
  BY <1>1, <1>4 DEF f

(* What a rewritten pool holds, told block by block.                       *)
LEMMA MapRewritten ==
  ASSUME NEW ps, PoolsOK(ps), NEW W, Rewrites(W), NEW qs, Rewritten(ps, qs, W),
         NEW f, f = [v \in LiveUrids(ps) |-> f[v]],
         \A b \in Block : Entry(b) \in Entries(ps) => f[b.urid] = Entry(W[b])[2]
  PROVE  MapOf(Entries(qs)) = f
<1>1. /\ PoolsOK(qs) /\ ps \in Seq(SubPool) /\ qs \in Seq(SubPool) /\ Len(qs) = Len(ps)
      /\ \A k \in 1 .. Len(ps) : UridsOf(qs[k]) = UridsOf(ps[k])
  BY RewrittenOK DEF PoolsOK, Rewritten
<1>2. LiveUrids(qs) = LiveUrids(ps)
  <2>1. DOMAIN ps = 1 .. Len(ps) /\ DOMAIN qs = 1 .. Len(ps)
    BY <1>1, LenProperties
  <2> QED
    BY <1>1, <2>1 DEF LiveUrids
<1>3. Single(Entries(qs)) /\ {e[1] : e \in Entries(qs)} = LiveUrids(ps)
  BY <1>1, <1>2, PoolsSingle
<1>4. ASSUME NEW e \in Entries(qs) PROVE f[e[1]] = e[2]
  <2>1. PICK k \in 1 .. Len(ps) : \E i \in 1 .. Len(qs[k].chain) : e = Entry(qs[k].chain[i])
    BY <1>1, EntriesFacts
  <2>2. PICK i \in 1 .. Len(qs[k].chain) : e = Entry(qs[k].chain[i])
    BY <2>1
  <2>3. RewrittenSub(ps[k], qs[k], W) /\ ps[k].chain \in Seq(Block)
    BY SubFacts DEF Rewritten, PoolsOK, SubOK
  <2>4. PICK b : b = ps[k].chain[i]
    OBVIOUS
  <2>5. b \in Block /\ e = Entry(W[b]) /\ i \in 1 .. Len(ps[k].chain)
    BY <2>2, <2>3, <2>4, ChainFacts DEF RewrittenSub
  <2>6. Entry(b) \in Entries(ps)
    BY <1>1, <2>4, <2>5, EntriesFacts
  <2>7. e[1] = b.urid
    <3>1. W[b].urid = b.urid
      BY <2>5 DEF Rewrites
    <3> QED
      BY <2>5, <3>1 DEF Entry
  <2> QED
    BY <2>5, <2>6, <2>7
<1> QED
  BY <1>3, <1>4, MapIs

(* The operations on one block, and the clearing of all, at the map.       *)
LEMMA HeldBlock ==
  ASSUME NEW ps, PoolsOK(ps)
  PROVE  /\ MapOf(Entries(ps)) = [v \in LiveUrids(ps) |-> MapOf(Entries(ps))[v]]
         /\ DOMAIN MapOf(Entries(ps)) = LiveUrids(ps)
         /\ \A b \in Block : Entry(b) \in Entries(ps) =>
              /\ b.urid \in LiveUrids(ps)
              /\ MapOf(Entries(ps))[b.urid] = [size |-> b.size, bit |-> b.bit, data |-> b.data]
<1>1. PICK E : E = Entries(ps)
  OBVIOUS
<1>2. Single(E) /\ {e[1] : e \in E} = LiveUrids(ps)
  BY <1>1, PoolsSingle
<1>3. DOMAIN MapOf(E) = LiveUrids(ps) /\ \A e \in E : MapOf(E)[e[1]] = e[2]
  BY <1>2, MapOfFacts
<1>4. MapOf(E) = [v \in DOMAIN MapOf(E) |-> MapOf(E)[v]]
  BY DEF MapOf
<1>5. ASSUME NEW b \in Block, Entry(b) \in E
      PROVE  /\ b.urid \in LiveUrids(ps)
             /\ MapOf(E)[b.urid] = [size |-> b.size, bit |-> b.bit, data |-> b.data]
  <2>1. Entry(b)[1] = b.urid /\ Entry(b)[2] = [size |-> b.size, bit |-> b.bit, data |-> b.data]
    BY DEF Entry
  <2> QED
    BY <1>2, <1>3, <1>5, <2>1
<1> QED
  BY <1>1, <1>3, <1>4, <1>5

Writes(W, u, data) == \A b \in Block : W[b] = IF b.urid = u THEN [b EXCEPT !.data = data] ELSE b
Marks(W, u, t) == \A b \in Block : W[b] = IF b.urid = u THEN [b EXCEPT !.bit = t] ELSE b
Clears(W, t) == \A b \in Block : W[b] = [b EXCEPT !.bit = t]

Written(M, u, data) == [M EXCEPT ![u].data = data]
Marked(M, u, t) == [M EXCEPT ![u].bit = t]
Cleared(M, t) == [v \in DOMAIN M |-> [M[v] EXCEPT !.bit = t]]

LEMMA MapWrite ==
  ASSUME NEW ps, PoolsOK(ps), NEW W, Rewrites(W), NEW qs, Rewritten(ps, qs, W),
         NEW u \in LiveUrids(ps), NEW data,
         Writes(W, u, data)
  PROVE  MapOf(Entries(qs)) = Written(MapOf(Entries(ps)), u, data)
<1>1. PICK M, f, D : M = MapOf(Entries(ps)) /\ f = [M EXCEPT ![u].data = data] /\ D = LiveUrids(ps)
  OBVIOUS
<1>2. DOMAIN M = D /\ M = [v \in D |-> M[v]]
  BY <1>1, HeldBlock
<1>3. f = [v \in D |-> IF v = u THEN [M[u] EXCEPT !.data = data] ELSE M[v]]
  BY <1>1, <1>2
<1>4. f = [v \in D |-> f[v]]
  BY <1>3
<1>5. ASSUME NEW b \in Block, Entry(b) \in Entries(ps) PROVE f[b.urid] = Entry(W[b])[2]
  <2>1. b.urid \in D /\ M[b.urid] = [size |-> b.size, bit |-> b.bit, data |-> b.data]
    BY <1>1, <1>5, HeldBlock
  <2>2. CASE b.urid = u
    <3>1. W[b] = [b EXCEPT !.data = data]
      BY <2>2 DEF Writes
    <3>2. W[b].size = b.size /\ W[b].bit = b.bit /\ W[b].data = data
      BY <3>1 DEF Block
    <3>3. f[u] = [size |-> b.size, bit |-> b.bit, data |-> data]
      BY <1>3, <2>1, <2>2
    <3> QED
      BY <2>2, <3>2, <3>3 DEF Entry
  <2>3. CASE b.urid # u
    <3>1. W[b] = b /\ f[b.urid] = M[b.urid]
      BY <1>3, <2>1, <2>3 DEF Writes
    <3> QED
      BY <2>1, <3>1 DEF Entry
  <2> QED
    BY <2>2, <2>3
<1>6. f = [v \in LiveUrids(ps) |-> f[v]]
  BY <1>1, <1>4
<1>7. MapOf(Entries(qs)) = f
  BY <1>5, <1>6, MapRewritten
<1> QED
  BY <1>1, <1>7 DEF Written

LEMMA MapMark ==
  ASSUME NEW ps, PoolsOK(ps), NEW W, Rewrites(W), NEW qs, Rewritten(ps, qs, W),
         NEW u \in LiveUrids(ps), NEW t,
         Marks(W, u, t)
  PROVE  MapOf(Entries(qs)) = Marked(MapOf(Entries(ps)), u, t)
<1>1. PICK M, f, D : M = MapOf(Entries(ps)) /\ f = [M EXCEPT ![u].bit = t] /\ D = LiveUrids(ps)
  OBVIOUS
<1>2. DOMAIN M = D /\ M = [v \in D |-> M[v]]
  BY <1>1, HeldBlock
<1>3. f = [v \in D |-> IF v = u THEN [M[u] EXCEPT !.bit = t] ELSE M[v]]
  BY <1>1, <1>2
<1>4. f = [v \in D |-> f[v]]
  BY <1>3
<1>5. ASSUME NEW b \in Block, Entry(b) \in Entries(ps) PROVE f[b.urid] = Entry(W[b])[2]
  <2>1. b.urid \in D /\ M[b.urid] = [size |-> b.size, bit |-> b.bit, data |-> b.data]
    BY <1>1, <1>5, HeldBlock
  <2>2. CASE b.urid = u
    <3>1. W[b] = [b EXCEPT !.bit = t]
      BY <2>2 DEF Marks
    <3>2. W[b].size = b.size /\ W[b].bit = t /\ W[b].data = b.data
      BY <3>1 DEF Block
    <3>3. f[u] = [size |-> b.size, bit |-> t, data |-> b.data]
      <4>1. f[u] = [M[u] EXCEPT !.bit = t]
        BY <1>3, <2>1, <2>2
      <4>2. M[u] = [size |-> b.size, bit |-> b.bit, data |-> b.data]
        BY <2>1, <2>2
      <4> QED
        BY <4>1, <4>2
    <3> QED
      BY <2>2, <3>2, <3>3 DEF Entry
  <2>3. CASE b.urid # u
    <3>1. W[b] = b /\ f[b.urid] = M[b.urid]
      BY <1>3, <2>1, <2>3 DEF Marks
    <3> QED
      BY <2>1, <3>1 DEF Entry
  <2> QED
    BY <2>2, <2>3
<1>6. f = [v \in LiveUrids(ps) |-> f[v]]
  BY <1>1, <1>4
<1>7. MapOf(Entries(qs)) = f
  BY <1>5, <1>6, MapRewritten
<1> QED
  BY <1>1, <1>7 DEF Marked

LEMMA MapClear ==
  ASSUME NEW ps, PoolsOK(ps), NEW W, Rewrites(W), NEW qs, Rewritten(ps, qs, W), NEW t,
         Clears(W, t)
  PROVE  MapOf(Entries(qs)) = Cleared(MapOf(Entries(ps)), t)
<1>1. PICK M, f, D : /\ M = MapOf(Entries(ps)) /\ D = LiveUrids(ps)
                     /\ f = [v \in D |-> [M[v] EXCEPT !.bit = t]]
  OBVIOUS
<1>2. f = [v \in LiveUrids(ps) |-> f[v]]
  BY <1>1
<1>3. ASSUME NEW b \in Block, Entry(b) \in Entries(ps) PROVE f[b.urid] = Entry(W[b])[2]
  <2>1. b.urid \in D /\ M[b.urid] = [size |-> b.size, bit |-> b.bit, data |-> b.data]
    BY <1>1, <1>3, HeldBlock
  <2>2. f[b.urid] = [size |-> b.size, bit |-> t, data |-> b.data]
    <3>1. f[b.urid] = [M[b.urid] EXCEPT !.bit = t]
      BY <1>1, <2>1
    <3> QED
      BY <2>1, <3>1
  <2>3. W[b] = [b EXCEPT !.bit = t]
    BY DEF Clears
  <2>4. W[b].size = b.size /\ W[b].bit = t /\ W[b].data = b.data
    BY <2>3 DEF Block
  <2> QED
    BY <2>2, <2>4 DEF Entry
<1>4. MapOf(Entries(qs)) = f
  BY <1>2, <1>3, MapRewritten
<1>5. DOMAIN M = D
  BY <1>1, HeldBlock
<1> QED
  BY <1>1, <1>4, <1>5 DEF Cleared

(***************************************************************************)
(* The pool does what the map does.                                        *)
(***************************************************************************)
LEMMA ContainedNow ==
  /\ PoolsOK(pools) => Contained = MapOf(Entries(pools))
  /\ PoolsOK(pools') => Contained' = MapOf(Entries(pools'))
<1>1. (PoolsOK(pools) => Contained = MapOf(Entries(pools)))'
  BY ContainedIs, PTL
<1> QED
  BY <1>1, ContainedIs

LEMMA InitMaps == Init => Map!HInit
<1> SUFFICES ASSUME Init PROVE Contained = [u \in {} |-> 0]
  BY DEF Map!HInit
<1>1. PoolsOK(pools)
  BY InitIInv DEF IInv, PoolInv
<1>2. LiveUrids(pools) = {}
  <2>1. pools = <<SubNew(1)>> /\ UridsOf(SubNew(1)) = {}
    BY DEF Init, SubNew, UridsOf, Range
  <2>2. \A k \in DOMAIN pools : UridsOf(pools[k]) = {}
    BY <2>1
  <2> QED
    BY <2>2 DEF LiveUrids
<1>3. PICK M : M = MapOf(Entries(pools))
  OBVIOUS
<1>4. M = [v \in LiveUrids(pools) |-> M[v]]
  BY <1>1, <1>3, HeldBlock
<1>5. M = [u \in {} |-> 0]
  BY <1>2, <1>4
<1> QED
  BY <1>1, <1>3, <1>5, ContainedNow

LEMMA MallocMaps ==
  ASSUME IInv, PoolsOK(pools'), NEW size \in Sizes, NEW managed \in BOOLEAN, NEW data \in Contents,
         NEW granted \in BOOLEAN, Malloc(size, managed, data, granted)
  PROVE  Map!HMalloc(size, managed, data) \/ Contained' = Contained
<1>1. PoolsOK(pools) /\ Len(pools) <= MaxPools /\ size \in Nat
  BY PoolAssumption DEF IInv, PoolInv
<1>2. PICK ps : \E x \in {0, 1} :
           /\ Grown(pools, ps, x)
           /\ \/ pools' = ps
              \/ \E k \in 1 .. Len(ps) : \E b :
                   /\ AllocateUrid(ps) \in Urids /\ MadeOf(b, AllocateUrid(ps), managed, size, data)
                   /\ ServedAt(ps, pools', k, b)
  BY <1>1, MallocStep
<1>3. PoolsOK(ps) /\ Entries(ps) = Entries(pools)
  BY <1>2 DEF Grown
<1>4. CASE pools' = ps
  BY <1>1, <1>3, <1>4, ContainedNow
<1>5. ASSUME NEW k \in 1 .. Len(ps), NEW b, AllocateUrid(ps) \in Urids,
             MadeOf(b, AllocateUrid(ps), managed, size, data), ServedAt(ps, pools', k, b)
      PROVE  Map!HMalloc(size, managed, data)
  <2>1. PICK qs, E, u, c : /\ qs = pools' /\ E = Entries(pools) /\ u = b.urid
                           /\ c = [size |-> size, bit |-> managed, data |-> data]
    OBVIOUS
  <2>2. PoolsOK(qs) /\ Entries(qs) = E \cup {Entry(b)}
    BY <1>3, <1>5, <2>1, ServedAtFacts
  <2>3. Entry(b) = <<u, c>> /\ u \in Urids
    BY <1>5, <2>1 DEF Entry, MadeOf
  <2>4. u \notin {e[1] : e \in E}
    <3>1. u \notin LiveUrids(ps)
      BY <1>5, <2>1 DEF ServedAt
    <3> QED
      BY <1>3, <2>1, <3>1, PoolsSingle
  <2>5. Single(E) /\ Single(Entries(qs))
    BY <1>1, <2>1, <2>2, PoolsSingle
  <2>6. MapOf(Entries(qs)) = Added(MapOf(E), u, c)
    <3>1. PICK F : F = Entries(qs)
      OBVIOUS
    <3>2. F = E \cup {<<u, c>>} /\ Single(F)
      BY <2>2, <2>3, <2>5, <3>1
    <3>3. MapOf(F) = Added(MapOf(E), u, c)
      BY <2>4, <2>5, <3>2, MapAdded
    <3> QED
      BY <3>1, <3>3
  <2>7. DOMAIN MapOf(E) = {e[1] : e \in E}
    BY <2>5, MapOfFacts
  <2>8. Contained = MapOf(E) /\ Contained' = MapOf(Entries(qs))
    BY <1>1, <2>1, <2>2, ContainedNow
  <2>9. u \in Urids \ DOMAIN Contained
    BY <2>3, <2>4, <2>7, <2>8
  <2>10. Contained' = [v \in DOMAIN Contained \cup {u} |-> IF v = u THEN c ELSE Contained[v]]
    BY <2>6, <2>8 DEF Added
  <2> QED
    BY <2>1, <2>9, <2>10 DEF Map!HMalloc, Map!Live
<1> QED
  BY <1>2, <1>4, <1>5

LEMMA FreeMaps ==
  ASSUME IInv, PoolsOK(pools'), NEW u, Free(u)
  PROVE  Map!HFree(u)
<1>1. PoolsOK(pools)
  BY DEF IInv, PoolInv
<1>2a. PICK k \in 1 .. Len(pools) : \E b : b.urid = u /\ FreedAt(pools, pools', k, b)
  BY <1>1, FreeStep
<1>2. PICK b : b.urid = u /\ FreedAt(pools, pools', k, b)
  BY <1>2a
<1>3. PICK qs, E, F : qs = pools' /\ E = Entries(pools) /\ F = Entries(pools')
  OBVIOUS
<1>4. Entry(b) \in E /\ F = {e \in E : e[1] # u}
  BY <1>1, <1>2, <1>3, FreedAtFacts
<1>5. Single(E) /\ DOMAIN MapOf(E) = {e[1] : e \in E}
  BY <1>1, <1>3, PoolsSingle, MapOfFacts
<1>6. PICK D : D = {e[1] : e \in F}
  OBVIOUS
<1>7. D = DOMAIN MapOf(E) \ {u}
  BY <1>4, <1>5, <1>6
<1>8. MapOf(F) = [v \in D |-> MapOf(E)[v]]
  BY <1>4, <1>5, <1>6, MapFiltered
<1>9. u \in DOMAIN MapOf(E)
  BY <1>2, <1>4, <1>5 DEF Entry
<1>10. Contained = MapOf(E) /\ Contained' = MapOf(F)
  BY <1>1, <1>3, ContainedNow
<1> QED
  BY <1>7, <1>8, <1>9, <1>10 DEF Map!HFree, Map!Live

LEMMA SweepMaps ==
  ASSUME IInv, PoolsOK(pools'), NEW granted \in BOOLEAN, Sweep(granted)
  PROVE  Map!HSweep
<1>1. PoolsOK(pools) /\ PoolInv(pools, blocks, capacity, usage, peak)
  BY DEF IInv, PoolInv
<1>2. PICK ss : /\ Swept(pools, ss) /\ pools' = TrimEmpty(ss, granted)
  BY <1>1, SweepStep
<1>3. PICK qs, E, F : qs = pools' /\ E = Entries(pools) /\ F = Entries(pools')
  OBVIOUS
<1>4. Entries(qs) = Entries(ss)
  <2>1. qs = TrimEmpty(ss, granted)
    BY <1>2, <1>3
  <2>2. PICK cl, cap, us : /\ cl = blocks - (NumberOfBlocks(pools) - NumberOfBlocks(ss))
                           /\ cap = SizeCapacity(qs) /\ us = SizeCapacity(qs) - SizeFree(qs)
    OBVIOUS
  <2> QED
    BY <1>1, <1>2, <2>1, <2>2, SweptInv
<1>5. F = {e \in E : e[2].bit}
  BY <1>2, <1>3, <1>4 DEF Swept
<1>6. Single(E) /\ DOMAIN MapOf(E) = {e[1] : e \in E} /\ \A e \in E : MapOf(E)[e[1]] = e[2]
  BY <1>1, <1>3, PoolsSingle, MapOfFacts
<1>7. PICK D : D = {e[1] : e \in F}
  OBVIOUS
<1>8. D = {v \in DOMAIN MapOf(E) : MapOf(E)[v].bit}
  <2>1. ASSUME NEW v \in D PROVE v \in DOMAIN MapOf(E) /\ MapOf(E)[v].bit
    BY <1>5, <1>6, <1>7
  <2>2. ASSUME NEW v \in DOMAIN MapOf(E), MapOf(E)[v].bit PROVE v \in D
    <3>1. PICK e \in E : v = e[1]
      BY <1>6
    <3>2. e \in F
      BY <1>5, <1>6, <2>2, <3>1
    <3> QED
      BY <1>7, <3>1, <3>2
  <2> QED
    BY <2>1, <2>2
<1>9. MapOf(F) = [v \in D |-> MapOf(E)[v]]
  BY <1>5, <1>6, <1>7, MapFiltered
<1>10. Contained = MapOf(E) /\ Contained' = MapOf(F)
  BY <1>1, <1>3, ContainedNow
<1> QED
  BY <1>8, <1>9, <1>10 DEF Map!HSweep, Map!Live

LEMMA LiveHeld == PoolsOK(pools) => DOMAIN Contained = LiveUrids(pools)
<1> SUFFICES ASSUME PoolsOK(pools) PROVE DOMAIN Contained = LiveUrids(pools)
  OBVIOUS
<1>1. PICK M : M = MapOf(Entries(pools))
  OBVIOUS
<1>2. DOMAIN M = LiveUrids(pools)
  BY <1>1, HeldBlock
<1> QED
  BY <1>1, <1>2, ContainedNow

LEMMA WriteMaps ==
  ASSUME IInv, PoolsOK(pools'), NEW u, NEW data \in Contents, Write(u, data)
  PROVE  Map!HWrite(u, data)
<1>1. PoolsOK(pools) /\ u \in LiveUrids(pools) /\ u \in DOMAIN Contained
  BY LiveHeld DEF IInv, PoolInv, Write
<1>2. PICK W : /\ Rewrites(W) /\ Rewritten(pools, pools', W)
               /\ \A b \in Block : W[b] = IF b.urid = u THEN [b EXCEPT !.data = data] ELSE b
  BY <1>1, WriteStep
<1>3. PICK qs : qs = pools'
  OBVIOUS
<1>4. MapOf(Entries(qs)) = Written(MapOf(Entries(pools)), u, data)
  <2>1. Rewritten(pools, qs, W) /\ Writes(W, u, data)
    BY <1>2, <1>3 DEF Writes
  <2> QED
    BY <1>1, <1>2, <2>1, MapWrite
<1>5. Contained' = [Contained EXCEPT ![u].data = data]
  BY <1>1, <1>3, <1>4, ContainedNow DEF Written
<1> QED
  BY <1>1, <1>5 DEF Map!HWrite, Map!Live

LEMMA MarkMaps ==
  ASSUME IInv, PoolsOK(pools'), NEW u, Mark(u)
  PROVE  Map!HMark(u)
<1>1. PoolsOK(pools) /\ u \in LiveUrids(pools) /\ u \in DOMAIN Contained
  BY LiveHeld DEF IInv, PoolInv, Mark
<1>2. PICK W : /\ Rewrites(W) /\ Rewritten(pools, pools', W)
               /\ \A b \in Block : W[b] = IF b.urid = u THEN [b EXCEPT !.bit = TRUE] ELSE b
  BY <1>1, MarkStep
<1>3. PICK qs, t : qs = pools' /\ t = TRUE
  OBVIOUS
<1>4. MapOf(Entries(qs)) = Marked(MapOf(Entries(pools)), u, t)
  <2>1. Rewritten(pools, qs, W) /\ Marks(W, u, t)
    BY <1>2, <1>3 DEF Marks
  <2> QED
    BY <1>1, <1>2, <2>1, MapMark
<1>5. Contained' = [Contained EXCEPT ![u].bit = TRUE]
  BY <1>1, <1>3, <1>4, ContainedNow DEF Marked
<1> QED
  BY <1>1, <1>5 DEF Map!HMark, Map!Live

LEMMA ClearMaps ==
  ASSUME IInv, PoolsOK(pools'), Clear
  PROVE  Map!HClear
<1>1. PoolsOK(pools) /\ DOMAIN Contained = LiveUrids(pools)
  BY LiveHeld DEF IInv, PoolInv
<1>2. PICK W : /\ Rewrites(W) /\ Rewritten(pools, pools', W)
               /\ \A b \in Block : W[b] = [b EXCEPT !.bit = FALSE]
  BY <1>1, ClearStep
<1>3. PICK qs, t : qs = pools' /\ t = FALSE
  OBVIOUS
<1>4. MapOf(Entries(qs)) = Cleared(MapOf(Entries(pools)), t)
  <2>1. Rewritten(pools, qs, W) /\ Clears(W, t)
    BY <1>2, <1>3 DEF Clears
  <2> QED
    BY <1>1, <1>2, <2>1, MapClear
<1>5. Contained' = [v \in DOMAIN Contained |-> [Contained[v] EXCEPT !.bit = FALSE]]
  BY <1>1, <1>3, <1>4, ContainedNow DEF Cleared
<1> QED
  BY <1>5 DEF Map!HClear, Map!Live

LEMMA NextMaps ==
  ASSUME IInv, IInv', [Next]_vars
  PROVE  [Map!HNext]_Contained
<1>1. PoolsOK(pools')
  BY DEF IInv, PoolInv
<1>2. CASE UNCHANGED vars
  <2>1. pools' = pools
    BY <1>2 DEF vars
  <2>2. PoolsOK(pools)
    BY DEF IInv, PoolInv
  <2> QED
    BY <1>1, <2>1, <2>2, ContainedNow
<1>3. ASSUME NEW size \in Sizes, NEW managed \in BOOLEAN, NEW data \in Contents, NEW granted \in BOOLEAN,
             Malloc(size, managed, data, granted)
      PROVE  [Map!HNext]_Contained
  BY <1>1, <1>3, MallocMaps DEF Map!HNext
<1>4. ASSUME NEW u \in Urids, Free(u) PROVE Map!HNext
  BY <1>1, <1>4, FreeMaps DEF Map!HNext
<1>5. ASSUME NEW u \in Urids, Mark(u) PROVE Map!HNext
  BY <1>1, <1>5, MarkMaps DEF Map!HNext
<1>6. ASSUME NEW u \in Urids, NEW data \in Contents, Write(u, data) PROVE Map!HNext
  BY <1>1, <1>6, WriteMaps DEF Map!HNext
<1>7. ASSUME Clear PROVE Map!HNext
  BY <1>1, <1>7, ClearMaps DEF Map!HNext
<1>8. ASSUME NEW granted \in BOOLEAN, Sweep(granted) PROVE Map!HNext
  BY <1>1, <1>8, SweepMaps DEF Map!HNext
<1> QED
  BY <1>2, <1>3, <1>4, <1>5, <1>6, <1>7, <1>8 DEF Next, Operation

(* The pool is a map from urids to blocks to the rest of the run time      *)
(* system: wherever it puts or moves blocks and whatever sub pools it adds *)
(* or drops, an operation shows in the blocks it is about and in no other. *)
THEOREM PoolImplementsHeap == Spec => ImplementsHeap
<1>1. Init => Map!HInit
  BY InitMaps
<1>2. IInv /\ IInv' /\ [Next]_vars => [Map!HNext]_Contained
  BY NextMaps
<1> QED
  BY <1>1, <1>2, SpecIInv, PTL DEF Spec, ImplementsHeap, Map!HSpec
=============================================================================
