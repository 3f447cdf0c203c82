-------------------------------- MODULE Lemmas -------------------------------
(***************************************************************************)
(* Induction over the naturals in the form of sets, and sequences without  *)
(* repetition, for the proofs about recursive functions and linked lists.  *)
(***************************************************************************)
EXTENDS Naturals, TLAPS, WellFoundedInduction, SequenceTheorems, FiniteSetTheorems

LEMMA LessIsRelated ==
  ASSUME NEW x \in Nat, NEW y \in Nat, y < x
  PROVE  <<y, x>> \in OpToRel(<, Nat)
<1>1. OpToRel(<, Nat) = {ss \in Nat \X Nat : ss[1] < ss[2]}
  BY DEF OpToRel
<1>2. <<y, x>> \in {ss \in Nat \X Nat : ss[1] < ss[2]}
  OBVIOUS
<1> QED
  BY <1>1, <1>2

(* Of naturals one is the least.                                           *)
LEMMA Least ==
  ASSUME NEW I \in SUBSET Nat, I # {}
  PROVE  \E x \in I : \A y \in I : x <= y
<1>1. \E x \in I : \A y \in I : ~(<<y, x>> \in OpToRel(<, Nat))
  BY NatLessThanWellFounded, WFMin
<1>2. \A x, y \in I : x \in Nat /\ y \in Nat
  OBVIOUS
<1>3. \A x, y \in I : y < x => <<y, x>> \in OpToRel(<, Nat)
  BY <1>2, LessIsRelated, Zenon
<1>4. \E x \in I : \A y \in I : ~(y < x)
  BY <1>1, <1>3, Zenon
<1> QED
  BY <1>2, <1>4

(* What has zero and the successor of each of its numbers has them all.    *)
LEMMA NatSetInduction ==
  ASSUME NEW S, 0 \in S, \A n \in Nat : n \in S => n + 1 \in S
  PROVE  \A n \in Nat : n \in S
<1> DEFINE I == {n \in Nat : n \notin S}
<1>1. SUFFICES ASSUME I # {} PROVE FALSE
  OBVIOUS
<1>2. PICK x \in I : \A y \in I : x <= y
  <2>1. I \in SUBSET Nat
    OBVIOUS
  <2> HIDE DEF I
  <2> QED
    BY <1>1, <2>1, Least
<1>3. x \in Nat /\ x # 0
  OBVIOUS
<1>4. x - 1 \in Nat /\ x - 1 \in S /\ (x - 1) + 1 = x
  BY <1>2, <1>3
<1> QED
  BY <1>2, <1>4

Distinct(s) == \A i, j \in 1 .. Len(s) : s[i] = s[j] => i = j

(* No longer than the set its items are from.                              *)
LEMMA ItemsOfSeq ==
  ASSUME NEW S, IsFiniteSet(S), NEW s \in Seq(S), Distinct(s)
  PROVE  Len(s) <= Cardinality(S)
<1> DEFINE f == [i \in 1 .. Len(s) |-> s[i]]
<1>0. Len(s) \in Nat
  BY LenProperties
<1>1. IsFiniteSet(1 .. Len(s)) /\ Cardinality(1 .. Len(s)) = Len(s)
  <2>1. 1 \in Int /\ Len(s) \in Int
    BY <1>0
  <2>2. IsFiniteSet(1 .. Len(s)) /\ Cardinality(1 .. Len(s)) = IF 1 > Len(s) THEN 0 ELSE Len(s) - 1 + 1
    BY <2>1, FS_Interval
  <2> QED
    BY <1>0, <2>2
<1>2. f \in Injection(1 .. Len(s), S)
  <2>1. f \in [1 .. Len(s) -> S]
    BY ElementOfSeq
  <2>2. \A i, j \in 1 .. Len(s) : f[i] = f[j] => i = j
    BY DEF Distinct
  <2> HIDE DEF f
  <2>3. DOMAIN f = 1 .. Len(s)
    BY <2>1
  <2> QED
    BY <2>1, <2>2, <2>3 DEF Injection, IsInjective
<1> QED
  BY <1>0, <1>1, <1>2, FS_Injection
=============================================================================
