---------------------------- MODULE RegAllocProofs ----------------------------
(***************************************************************************)
(* Proofs about the register allocator, for every code.                    *)
(***************************************************************************)
EXTENDS RegAlloc, TLAPS, SequenceTheorems, FiniteSetTheorems

(***************************************************************************)
(* The code.                                                               *)
(***************************************************************************)
LEMMA CodeFacts ==
  ASSUME code \in Codes
  PROVE  /\ Len(code) \in Nat \ {0} /\ DOMAIN code = 1 .. Len(code)
         /\ \A i \in DOMAIN code : /\ Mentions(code[i]) \subseteq Nat
                                   /\ Writes(code[i]) \subseteq Mentions(code[i])
                                   /\ Reads(code[i]) \subseteq Mentions(code[i])
         /\ \A i, d, e \in DOMAIN code : Lands(i, d) /\ Lands(i, e) => d = e
<1>1. WellFormed(code)
  BY CodesAssumption
<1>2. Len(code) \in Nat /\ DOMAIN code = 1 .. Len(code)
  BY <1>1, LenProperties DEF WellFormed
<1>3. Len(code) # 0
  BY <1>1, EmptySeq DEF WellFormed
<1>4. ASSUME NEW i \in DOMAIN code
      PROVE  Mentions(code[i]) \subseteq Nat
  <2>1. code[i].dst \subseteq Nat /\ code[i].srcs \in Seq(Nat)
    BY <1>1 DEF WellFormed
  <2>2. Range(code[i].srcs) \subseteq Nat
    BY <2>1, ElementOfSeq, LenProperties DEF Range
  <2> QED
    BY <2>1, <2>2 DEF Mentions, Reads
<1> QED
  BY <1>1, <1>2, <1>3, <1>4 DEF WellFormed, Lands, Writes, Mentions

LEMMA MentionsFinite ==
  ASSUME code \in Codes, NEW i \in DOMAIN code
  PROVE  IsFiniteSet(Mentions(code[i]))
<1>1. WellFormed(code)
  BY CodesAssumption
<1> DEFINE s == code[i].srcs
<1>2. s \in Seq(Nat) /\ Len(s) \in Nat /\ DOMAIN s = 1 .. Len(s)
  BY <1>1, LenProperties DEF WellFormed
<1>3. IsFiniteSet(DOMAIN s)
  BY <1>2, FS_Interval
<1>4. s \in Surjection(DOMAIN s, Range(s))
  BY <1>2, SeqDef DEF Surjection, Range
<1>5. IsFiniteSet(Range(s))
  BY <1>3, <1>4, FS_Surjection
<1>6. IsFiniteSet(code[i].dst)
  <2>1. CASE code[i].dst = {}
    BY <2>1, FS_EmptySet
  <2>2. CASE code[i].dst # {}
    <3>1. PICK v \in code[i].dst : TRUE
      BY <2>2
    <3>2. code[i].dst = {v}
      BY <1>1, <3>1 DEF WellFormed
    <3> QED
      BY <3>2, FS_Singleton
  <2> QED
    BY <2>1, <2>2
<1> QED
  BY <1>5, <1>6, FS_Union DEF Mentions, Reads

(* The variables of the first items are the first numbers.                 *)
LEMMA MentionedNext ==
  ASSUME code \in Codes, NEW i \in DOMAIN code
  PROVE  Mentioned(code, i) = Mentioned(code, i - 1) \cup Mentions(code[i])
<1>1. i \in Nat \ {0}
  BY CodeFacts
<1>2. 1 .. i = (1 .. i - 1) \cup {i}
  BY <1>1
<1> QED
  BY <1>2 DEF Mentioned

LEMMA MentionedDense ==
  ASSUME code \in Codes, NEW i \in 0 .. Len(code), IsFiniteSet(Mentioned(code, i))
  PROVE  \A v \in Mentioned(code, i) : v < Cardinality(Mentioned(code, i))
<1>1. Mentioned(code, i) = 0 .. Cardinality(Mentioned(code, i)) - 1
  BY CodesAssumption DEF WellFormed
<1>2. Cardinality(Mentioned(code, i)) \in Nat
  BY FS_CardinalityType
<1> QED
  BY <1>1, <1>2

(***************************************************************************)
(* The scan.                                                               *)
(***************************************************************************)
LEMMA TouchedFacts ==
  ASSUME IInv, Scanning, NEW l, l = Touched(code[point])
  PROVE  /\ DOMAIN l = DOMAIN life \cup Mentions(code[point])
         /\ DOMAIN l \subseteq Nat /\ IsFiniteSet(DOMAIN l)
         /\ DOMAIN l = Mentioned(code, point)
         /\ \A v \in DOMAIN l : v < Cardinality(DOMAIN l)
         /\ \A v \in DOMAIN l : l[v].start \in 1 .. point /\ l[v].end \in l[v].start .. point
         /\ \A v \in DOMAIN life : /\ l[v].start = life[v].start
                                   /\ life[v].end <= l[v].end
         /\ \A v \in Mentions(code[point]) : l[v].end = point
         /\ \A v \in DOMAIN l : v \notin DOMAIN life => l[v].end = point
         /\ \A v \in DOMAIN life : l[v].end = life[v].end \/ l[v].end = point
<1>1. /\ DOMAIN code = 1 .. Len(code) /\ point \in 1 .. Len(code)
      /\ Mentions(code[point]) \subseteq Nat /\ IsFiniteSet(Mentions(code[point]))
  BY CodeFacts, MentionsFinite DEF IInv, TypeOK, Scanning
<1>2. DOMAIN life \subseteq Nat /\ IsFiniteSet(DOMAIN life)
  BY DEF IInv, TypeOK, LifeInv
<1>3. \A v \in DOMAIN life : /\ life[v].start \in 1 .. Len(code)
                             /\ life[v].end \in life[v].start .. Len(code)
                             /\ life[v].end < point
  BY DEF IInv, TypeOK, LifeInv, Scanning
<1>4. DOMAIN l = DOMAIN life \cup Mentions(code[point])
  BY DEF Touched
<1>5. \A v \in DOMAIN l :
         /\ l[v].start = IF v \in DOMAIN life THEN life[v].start ELSE point
         /\ l[v].end = IF v \in Mentions(code[point]) THEN point ELSE life[v].end
  BY DEF Touched
<1>6. IsFiniteSet(DOMAIN l)
  BY <1>1, <1>2, <1>4, FS_Union
<1>7. DOMAIN l = Mentioned(code, point)
  BY <1>1, <1>4, MentionedNext DEF IInv, TypeOK, LifeInv, Scanning
<1>8. \A v \in DOMAIN l : v < Cardinality(DOMAIN l)
  <2>1. point \in 0 .. Len(code) /\ code \in Codes
    BY <1>1, CodeFacts DEF IInv, TypeOK
  <2> QED
    BY <1>6, <1>7, <2>1, MentionedDense
<1>9. \A v \in DOMAIN l : l[v].start \in 1 .. point /\ l[v].end \in l[v].start .. point
  BY <1>1, <1>2, <1>3, <1>4, <1>5
<1>10. /\ DOMAIN l \subseteq Nat
       /\ \A v \in DOMAIN life : /\ l[v].start = life[v].start
                                 /\ life[v].end <= l[v].end
                                 /\ l[v].end = life[v].end \/ l[v].end = point
  BY <1>1, <1>2, <1>3, <1>4, <1>5
<1>11. /\ \A v \in Mentions(code[point]) : l[v].end = point
       /\ \A v \in DOMAIN l : v \notin DOMAIN life => l[v].end = point
  BY <1>4, <1>5
<1> QED
  BY <1>4, <1>6, <1>7, <1>8, <1>9, <1>10, <1>11

(* What a scan step leaves behind, given that the new intervals grow and   *)
(* cover the item.                                                         *)
LEMMA ScanStep ==
  ASSUME IInv, Scanning,
         UNCHANGED <<phase, passVars, runVars>>, point' = point + 1,
         DOMAIN life' \subseteq Nat, IsFiniteSet(DOMAIN life'),
         DOMAIN life' = Mentioned(code, point),
         \A v \in DOMAIN life' : v < Cardinality(DOMAIN life'),
         DOMAIN life \cup Mentions(code[point]) = DOMAIN life',
         \A v \in DOMAIN life' : /\ life'[v].start \in 1 .. point
                                 /\ life'[v].end \in life'[v].start .. point,
         \A v \in DOMAIN life : /\ life'[v].start = life[v].start
                                /\ life'[v].end = life[v].end \/ life'[v].end = point,
         \A v \in DOMAIN life' : v \notin DOMAIN life => life'[v].end = point,
         \A v \in Mentions(code[point]) : life'[v].end = point,
         \A d \in DOMAIN code : Lands(point, d) =>
           \A v \in DOMAIN life' : life'[v].end >= d => life'[v].end >= point
  PROVE  IInv'
<1>1. /\ Len(code) \in Nat /\ DOMAIN code = 1 .. Len(code) /\ point \in 1 .. Len(code)
      /\ \A v \in DOMAIN life : /\ life[v].start \in 1 .. Len(code)
                                /\ life[v].end \in life[v].start .. Len(code)
                                /\ life[v].end < point
  BY CodeFacts DEF IInv, TypeOK, LifeInv, Scanning
<1>2. phase = "scan" /\ phase' = "scan" /\ code' = code
  BY DEF Scanning, passVars
<1>3. TypeOK'
  BY <1>1, <1>2 DEF IInv, TypeOK, passVars, runVars, RunInv, RegInv
<1>4. LifeInv'
  <2>1. ASSUME NEW i \in DOMAIN code, i < point + 1
        PROVE  Covered(i)' /\ Closed(i)'
    <3>1. CASE i = point
      BY <1>1, <1>2, <3>1 DEF Covered, Closed, Alive, Lands
    <3>2. CASE i < point
      <4>1. Covered(i) /\ Closed(i)
        BY <1>2, <3>2 DEF IInv, LifeInv, Scanned
      <4>2. Covered(i)'
        BY <1>1, <1>2, <3>2, <4>1 DEF Covered, Alive
      <4>3. Closed(i)'
        BY <1>1, <1>2, <3>2, <4>1 DEF Closed, Lands
      <4> QED
        BY <4>2, <4>3
    <3> QED
      BY <1>1, <2>1, <3>1, <3>2
  <2> QED
    BY <1>1, <1>2, <2>1 DEF LifeInv, Scanned, TablesFit
<1>5. NeedInv' /\ RegInv' /\ RunInv' /\ (phase' = "failed" => Lost') /\ (phase' = "run" => ~Lost')
  BY <1>2 DEF IInv, NeedInv, RegInv, RunInv, passVars, runVars
<1> QED
  BY <1>3, <1>4, <1>5 DEF IInv

LEMMA ScanItemInv == ASSUME IInv, ScanItem PROVE IInv'
<1>1. Scanning /\ life' = Touched(code[point])
  BY DEF ScanItem
<1>2. \A d \in DOMAIN code : ~Lands(point, d)
  BY DEF ScanItem, Lands, LandsAt
<1> QED
  BY <1>1, <1>2, TouchedFacts, ScanStep DEF ScanItem

LEMMA ScanBranchInv == ASSUME IInv, ScanBranch PROVE IInv'
<1> DEFINE l == Touched(code[point])
<1>1. Scanning
  BY DEF ScanBranch
<1>2. PICK d \in DOMAIN code : Lands(point, d) /\ life' = Extended(l, d)
  BY DEF ScanBranch
<1>3. /\ DOMAIN l = DOMAIN life \cup Mentions(code[point])
      /\ DOMAIN l \subseteq Nat /\ IsFiniteSet(DOMAIN l)
      /\ DOMAIN l = Mentioned(code, point) /\ \A v \in DOMAIN l : v < Cardinality(DOMAIN l)
      /\ \A v \in DOMAIN l : l[v].start \in 1 .. point /\ l[v].end \in l[v].start .. point
      /\ \A v \in DOMAIN life : l[v].start = life[v].start
      /\ \A v \in Mentions(code[point]) : l[v].end = point
      /\ \A v \in DOMAIN l : v \notin DOMAIN life => l[v].end = point
      /\ \A v \in DOMAIN life : l[v].end = life[v].end \/ l[v].end = point
  BY <1>1, TouchedFacts
<1>4. l = [v \in DOMAIN life \cup Mentions(code[point]) |-> [start |-> l[v].start, end |-> l[v].end]]
  BY DEF Touched
<1> HIDE DEF l
<1>5. /\ DOMAIN life' = DOMAIN l
      /\ \A v \in DOMAIN l : /\ life'[v].start = l[v].start
                             /\ life'[v].end = IF l[v].end < d THEN l[v].end ELSE point
  BY <1>2, <1>3, <1>4 DEF Extended
<1>6. \A e \in DOMAIN code : Lands(point, e) => e = d
  BY <1>1, <1>2, CodeFacts DEF IInv, TypeOK, Scanning
<1>7. /\ DOMAIN code = 1 .. Len(code) /\ point \in DOMAIN code /\ Len(code) \in Nat
  BY <1>1, CodeFacts DEF IInv, TypeOK, Scanning
<1>8. \A e \in DOMAIN code : Lands(point, e) =>
         \A v \in DOMAIN life' : life'[v].end >= e => life'[v].end >= point
  BY <1>3, <1>5, <1>6, <1>7
<1>9. /\ \A v \in DOMAIN life' : life'[v].start \in 1 .. point /\ life'[v].end \in life'[v].start .. point
      /\ \A v \in DOMAIN life : /\ life'[v].start = life[v].start
                                /\ life'[v].end = life[v].end \/ life'[v].end = point
      /\ \A v \in DOMAIN life' : v \notin DOMAIN life => life'[v].end = point
      /\ \A v \in Mentions(code[point]) : life'[v].end = point
  BY <1>3, <1>5, <1>7
<1>10. UNCHANGED <<phase, passVars, runVars>> /\ point' = point + 1
  BY DEF ScanBranch
<1> QED
  BY <1>1, <1>3, <1>5, <1>8, <1>9, <1>10, ScanStep

LEMMA ScanLostInv == ASSUME IInv, ScanLost PROVE IInv'
<1>1. /\ Scanning /\ life' = Touched(code[point]) /\ phase' = "measure" /\ point' = 1
      /\ code' = code /\ need' = need /\ reg' = reg /\ using' = using
      /\ UNCHANGED runVars
  BY DEF ScanLost, passVars
<1>2. Lost /\ Lost'
  BY <1>1 DEF ScanLost, Scanning, Lost, Lands
<1>3. /\ DOMAIN code = 1 .. Len(code) /\ Len(code) \in Nat \ {0} /\ point \in 1 .. Len(code)
  BY <1>1, CodeFacts DEF IInv, TypeOK, Scanning
<1>4. /\ DOMAIN life \subseteq DOMAIN life' /\ DOMAIN life' \subseteq Nat /\ IsFiniteSet(DOMAIN life')
      /\ \A v \in DOMAIN life' : v < Cardinality(DOMAIN life')
      /\ \A v \in DOMAIN life' : life'[v].start \in 1 .. point /\ life'[v].end \in life'[v].start .. point
  BY <1>1, TouchedFacts
<1>5. /\ DOMAIN reg = {} /\ using = {} /\ written = {} /\ DOMAIN file = {} /\ pc = 1 /\ need \in Nat
      /\ code \in Codes
  BY <1>1 DEF IInv, TypeOK, RegInv, RunInv, Scanning
<1>6. TypeOK'
  BY <1>1, <1>3, <1>4, <1>5 DEF TypeOK, runVars
<1>7. LifeInv' /\ NeedInv' /\ RegInv' /\ RunInv'
  BY <1>1, <1>2, <1>3, <1>4, <1>5 DEF LifeInv, TablesFit, NeedInv, RegInv, RunInv, runVars
<1> QED
  BY <1>1, <1>6, <1>7 DEF IInv

LEMMA ScanEndsInv == ASSUME IInv, ScanEnds PROVE IInv'
<1>1. /\ phase = "scan" /\ point \notin DOMAIN code /\ phase' = "measure" /\ point' = 1
      /\ code' = code /\ need' = need /\ reg' = reg /\ using' = using /\ life' = life
      /\ UNCHANGED runVars
  BY DEF ScanEnds, passVars
<1>2. /\ DOMAIN code = 1 .. Len(code) /\ Len(code) \in Nat \ {0} /\ point = Len(code) + 1
  BY <1>1, CodeFacts DEF IInv, TypeOK
<1>3. /\ DOMAIN reg = {} /\ using = {} /\ written = {} /\ DOMAIN file = {} /\ pc = 1
  BY <1>1 DEF IInv, RegInv, RunInv
<1>4. TypeOK'
  BY <1>1, <1>2, <1>3 DEF IInv, TypeOK, runVars
<1>5. LifeInv'
  <2>1. ASSUME NEW i \in DOMAIN code PROVE Covered(i)' /\ Closed(i)'
    BY <1>1, <1>2 DEF IInv, LifeInv, Scanned, Covered, Closed, Alive, Lands
  <2> QED
    BY <1>1, <2>1 DEF IInv, LifeInv, TablesFit
<1>6. NeedInv' /\ RegInv' /\ RunInv'
  BY <1>1, <1>2, <1>3 DEF NeedInv, RegInv, RunInv, runVars
<1> QED
  BY <1>1, <1>4, <1>5, <1>6 DEF IInv

(***************************************************************************)
(* The later passes leave the intervals alone.                             *)
(***************************************************************************)
LEMMA LifeKept ==
  ASSUME IInv, phase # "scan", phase' # "scan", UNCHANGED <<code, life>>
  PROVE  LifeInv' /\ (Lost' <=> Lost)
<1>1. Lost' <=> Lost
  BY DEF Lost, Lands
<1>2. ASSUME ~Lost, NEW i \in DOMAIN code PROVE Covered(i)' /\ Closed(i)'
  <2>1. i < Len(code) + 1
    BY CodeFacts DEF IInv, TypeOK
  <2>2. Covered(i) /\ Closed(i)
    BY <1>2, <2>1 DEF IInv, LifeInv, Scanned
  <2> QED
    BY <2>2 DEF Covered, Closed, Alive, Lands
<1> QED
  BY <1>1, <1>2 DEF IInv, LifeInv, TablesFit

LEMMA LivingFacts ==
  ASSUME IInv, NEW p \in Nat
  PROVE  IsFiniteSet(Living(p)) /\ Cardinality(Living(p)) \in Nat
<1>1. Living(p) \in SUBSET (DOMAIN life) /\ IsFiniteSet(DOMAIN life)
  BY DEF Living, IInv, LifeInv
<1> QED
  BY <1>1, FS_Subset, FS_CardinalityType

LEMMA MeasureInv == ASSUME IInv, Measure PROVE IInv'
<1>1. /\ phase = "measure" /\ code' = code /\ life' = life /\ reg' = reg /\ using' = using
      /\ UNCHANGED runVars
  BY DEF Measure
<1>2. /\ DOMAIN code = 1 .. Len(code) /\ Len(code) \in Nat \ {0} /\ point \in 1 .. Len(code) + 1
      /\ \A v \in DOMAIN life : /\ life[v].start \in 1 .. Len(code)
                                /\ life[v].end \in life[v].start .. Len(code)
  BY CodeFacts DEF IInv, TypeOK
<1>3. /\ DOMAIN reg = {} /\ using = {} /\ written = {} /\ DOMAIN file = {} /\ pc = 1
  BY <1>1 DEF IInv, RegInv, RunInv
<1>4. Cardinality(Living(point)) \in Nat
  BY <1>2, LivingFacts
<1>5. \A p \in 1 .. Len(code) : Cardinality(Living(p)) \in Nat /\ Living(p)' = Living(p)
  <2>1. \A p \in 1 .. Len(code) : Cardinality(Living(p)) \in Nat
    BY <1>2, LivingFacts
  <2>2. \A p \in 1 .. Len(code) : Living(p)' = Living(p)
    BY <1>1 DEF Living, Alive
  <2> QED
    BY <2>1, <2>2
<1>6. CASE InPeriod(point)
  <2>1. /\ need' \in Nat /\ need' >= need /\ need' >= Cardinality(Living(point))
        /\ point' = point + 1 /\ phase' = phase
    BY <1>1, <1>4, <1>6 DEF Measure, IInv, TypeOK
  <2>2. point <= Len(code)
    BY <1>2, <1>6 DEF InPeriod
  <2>3. NeedInv'
    BY <1>1, <1>2, <1>5, <2>1, <2>2 DEF IInv, NeedInv, TypeOK
  <2>4. TypeOK' /\ RegInv' /\ RunInv'
    BY <1>1, <1>2, <1>3, <2>1, <2>2 DEF IInv, TypeOK, RegInv, RunInv, runVars
  <2> QED
    BY <1>1, <2>1, <2>3, <2>4, LifeKept DEF IInv
<1>7. CASE ~InPeriod(point)
  <2>1. need' = need /\ point' = 1 /\ phase' = "allocate"
    BY <1>7 DEF Measure
  <2>2. \A p \in 1 .. Len(code) : p >= point => Living(p) = {}
    BY <1>2, <1>7 DEF InPeriod, Living, Alive
  <2>3. \A p \in 1 .. Len(code) : p >= point => Cardinality(Living(p)) = 0
    BY <2>2, FS_EmptySet
  <2>4. NeedInv'
    BY <1>1, <1>2, <1>5, <2>1, <2>3 DEF IInv, NeedInv, TypeOK
  <2>5. TypeOK' /\ RegInv' /\ RunInv'
    BY <1>1, <1>2, <1>3, <2>1 DEF IInv, TypeOK, RegInv, RunInv, runVars
  <2> QED
    BY <1>1, <2>1, <2>4, <2>5, LifeKept DEF IInv
<1> QED
  BY <1>6, <1>7

(***************************************************************************)
(* The allocation.                                                         *)
(***************************************************************************)

(* What every step of the later passes shares.                             *)
LEMMA TableFacts ==
  ASSUME IInv, phase \in {"allocate", "generate", "run"}
  PROVE  /\ Len(code) \in Nat \ {0} /\ DOMAIN code = 1 .. Len(code)
         /\ point \in 1 .. Len(code) + 1 /\ need \in Nat
         /\ \A v \in DOMAIN life : /\ life[v].start \in 1 .. Len(code)
                                   /\ life[v].end \in life[v].start .. Len(code)
                                   /\ v \in Nat
         /\ DOMAIN reg \subseteq DOMAIN life
         /\ \A v \in DOMAIN reg : reg[v] \in 0 .. need - 1
         /\ \A u, v \in DOMAIN reg : u # v /\ reg[u] = reg[v] => Apart(u, v)
  BY CodeFacts DEF IInv, TypeOK, RegInv

LEMMA NeedKept ==
  ASSUME IInv, phase \in {"allocate", "generate", "run"},
         phase' \in {"allocate", "generate", "run", "failed"}, UNCHANGED <<code, life, need>>
  PROVE  NeedInv'
<1>1. \A p \in 1 .. Len(code) : Living(p)' = Living(p) /\ Cardinality(Living(p)) <= need
  BY DEF IInv, NeedInv, Living, Alive
<1> QED
  BY <1>1 DEF NeedInv

(* The registers in use belong to other variables that are alive, so       *)
(* there are fewer of them than the count of the second pass.              *)
LEMMA SomeFree ==
  ASSUME IInv, phase = "allocate", NEW v \in Starting
  PROVE  Free # {} /\ need >= 1
<1>1. /\ point \in 1 .. Len(code) + 1 /\ need \in Nat /\ Len(code) \in Nat
      /\ \A u \in DOMAIN life : /\ life[u].start \in 1 .. Len(code)
                                /\ life[u].end \in life[u].start .. Len(code)
      /\ DOMAIN reg \subseteq DOMAIN life
      /\ \A u \in DOMAIN reg : reg[u] \in 0 .. need - 1
  BY TableFacts
<1>2. v \in DOMAIN life /\ v \notin DOMAIN reg /\ life[v].start = point
  BY DEF Starting
<1> DEFINE L == Living(point)
           U == {u \in DOMAIN reg : life[u].end >= point}
           f == [u \in U |-> reg[u]]
<1>3. v \in L /\ IsFiniteSet(L) /\ Cardinality(L) \in Nat /\ Cardinality(L) <= need
  <2>1. v \in L
    BY <1>1, <1>2 DEF Living, Alive
  <2>2. point \in 1 .. Len(code) /\ point \in Nat
    BY <1>1, <1>2
  <2>3. IsFiniteSet(L) /\ Cardinality(L) \in Nat
    BY <2>2, LivingFacts
  <2>4. Cardinality(L) <= need
    BY <2>2 DEF IInv, NeedInv
  <2> QED
    BY <2>1, <2>3, <2>4
<1>4. U \subseteq L \ {v}
  BY <1>1, <1>2 DEF Living, Alive, IInv, RegInv
<1>5. IsFiniteSet(L \ {v}) /\ Cardinality(L \ {v}) = Cardinality(L) - 1
  BY <1>3, FS_RemoveElement
<1>6. IsFiniteSet(U) /\ Cardinality(U) <= Cardinality(L) - 1
  BY <1>4, <1>5, FS_Subset
<1>7. using = {reg[u] : u \in U}
  BY DEF IInv, RegInv
<1>8. f \in Surjection(U, using)
  BY <1>7 DEF Surjection
<1>9. IsFiniteSet(using) /\ Cardinality(using) <= Cardinality(U)
  BY <1>6, <1>8, FS_Surjection
<1>10. Cardinality(L) >= 1
  <2>1. L # {}
    BY <1>3
  <2> QED
    BY <1>3, <2>1, FS_EmptySet
<1>11. need >= 1
  BY <1>1, <1>3, <1>10
<1>12. Free # {}
  <2> SUFFICES ASSUME Free = {} PROVE FALSE
    OBVIOUS
  <2>1. 0 .. need - 1 \subseteq using
    BY <1>1, <1>11 DEF Free
  <2>2. Cardinality(0 .. need - 1) = need
    BY <1>1, <1>11, FS_Interval
  <2>3. need <= Cardinality(using)
    <3>1. Cardinality(0 .. need - 1) <= Cardinality(using)
      BY <1>9, <2>1, FS_Subset
    <3> QED
      BY <2>2, <3>1
  <2>4. Cardinality(using) \in Nat /\ Cardinality(U) \in Nat
    BY <1>6, <1>9, FS_CardinalityType
  <2> QED
    BY <1>1, <1>3, <1>6, <1>9, <2>3, <2>4
<1> QED
  BY <1>11, <1>12

LEMMA AllocateInv == ASSUME IInv, Allocate PROVE IInv'
<1>1. phase = "allocate"
  BY DEF Allocate
<1>2. PICK v \in Starting : Free # {} =>
         \E r \in Free : /\ reg' = [u \in DOMAIN reg \cup {v} |-> IF u = v THEN r ELSE reg[u]]
                         /\ using' = using \cup {r}
                         /\ phase' = phase
  BY DEF Allocate
<1>3. Free # {} /\ need >= 1
  BY <1>1, SomeFree
<1>4. PICK r \in Free :
         /\ reg' = [u \in DOMAIN reg \cup {v} |-> IF u = v THEN r ELSE reg[u]]
         /\ using' = using \cup {r} /\ phase' = phase
  BY <1>2, <1>3
<1>5. /\ code' = code /\ point' = point /\ life' = life /\ need' = need /\ UNCHANGED runVars
  BY DEF Allocate
<1>6. /\ Len(code) \in Nat \ {0} /\ point \in 1 .. Len(code) + 1 /\ need \in Nat
      /\ \A u \in DOMAIN life : /\ life[u].start \in 1 .. Len(code)
                                /\ life[u].end \in life[u].start .. Len(code)
                                /\ u \in Nat
      /\ DOMAIN reg \subseteq DOMAIN life
      /\ \A u \in DOMAIN reg : reg[u] \in 0 .. need - 1
      /\ \A u, w \in DOMAIN reg : u # w /\ reg[u] = reg[w] => Apart(u, w)
  BY <1>1, TableFacts
<1>7. v \in DOMAIN life /\ v \notin DOMAIN reg /\ life[v].start = point
  BY DEF Starting
<1>8. r \in 0 .. need - 1 /\ r \notin using
  BY <1>3, <1>4, <1>6 DEF Free
<1>9. /\ DOMAIN reg' = DOMAIN reg \cup {v} /\ reg'[v] = r
      /\ \A u \in DOMAIN reg : reg'[u] = reg[u]
  BY <1>4, <1>7
<1>10. /\ \A u \in DOMAIN reg : life[u].start <= point
       /\ \A u \in DOMAIN life : life[u].start < point => u \in DOMAIN reg
       /\ using = {reg[u] : u \in {w \in DOMAIN reg : life[w].end >= point}}
  BY <1>1 DEF IInv, RegInv
<1>11. \A u \in DOMAIN reg : reg[u] = r => life[u].end < point
  BY <1>6, <1>8, <1>10
<1>12. using' = {reg'[u] : u \in {w \in DOMAIN reg' : life'[w].end >= point'}}
  <2> DEFINE U == {w \in DOMAIN reg : life[w].end >= point}
             V == {w \in DOMAIN reg' : life'[w].end >= point'}
  <2>1. V = U \cup {v}
    BY <1>5, <1>6, <1>7, <1>9
  <2>2. \A u \in U : reg'[u] = reg[u]
    BY <1>9
  <2>3. using' = {reg[u] : u \in U} \cup {reg'[v]}
    BY <1>4, <1>9, <1>10
  <2> HIDE DEF U, V
  <2>4. using' = {reg'[u] : u \in V}
    BY <2>1, <2>2, <2>3
  <2> QED
    BY <2>4 DEF V
<1>13. \A u, w \in DOMAIN reg' : u # w /\ reg'[u] = reg'[w] => Apart(u, w)
  BY <1>6, <1>7, <1>9, <1>11 DEF Apart
<1>14. RegInv'
  <2>1. /\ \A u \in DOMAIN reg' : life'[u].start <= point' /\ reg'[u] \in 0 .. need' - 1
        /\ \A u \in DOMAIN life' : life'[u].start < point' => u \in DOMAIN reg'
    BY <1>5, <1>6, <1>7, <1>8, <1>9, <1>10
  <2>2. \A u, w \in DOMAIN reg' : u # w /\ reg'[u] = reg'[w] => Apart(u, w)'
    BY <1>5, <1>13 DEF Apart
  <2> QED
    BY <1>1, <1>4, <1>12, <2>1, <2>2 DEF RegInv
<1>15. TypeOK'
  <2>1. /\ code' = code /\ point' = point /\ life' = life /\ need' = need /\ phase' = phase
        /\ pc' = pc /\ file' = file /\ written' = written
    BY <1>4, <1>5 DEF runVars
  <2>2. DOMAIN reg' \subseteq DOMAIN life /\ \A u \in DOMAIN reg' : reg'[u] \in Nat
    BY <1>6, <1>7, <1>8, <1>9
  <2>3. using' \subseteq Nat
    <3>1. using \subseteq Nat
      BY DEF IInv, TypeOK
    <3> QED
      BY <1>4, <1>6, <1>8, <3>1
  <2> QED
    BY <2>1, <2>2, <2>3 DEF IInv, TypeOK
<1>16. NeedInv' /\ LifeInv'
  BY <1>1, <1>4, <1>5, NeedKept, LifeKept
<1>17. RunInv'
  BY <1>1, <1>4, <1>5 DEF IInv, RunInv, runVars
<1> QED
  BY <1>1, <1>4, <1>14, <1>15, <1>16, <1>17 DEF IInv

LEMMA AdvanceInv == ASSUME IInv, Advance PROVE IInv'
<1> DEFINE ending == {u \in DOMAIN life : life[u].end = point}
<1>1. /\ phase = "allocate" /\ InPeriod(point) /\ Starting = {}
      /\ using' = using \ {reg[u] : u \in ending} /\ point' = point + 1
      /\ code' = code /\ phase' = phase /\ life' = life /\ need' = need /\ reg' = reg
      /\ UNCHANGED runVars
  BY DEF Advance
<1>2. /\ Len(code) \in Nat \ {0} /\ point \in 1 .. Len(code) + 1 /\ need \in Nat
      /\ \A u \in DOMAIN life : /\ life[u].start \in 1 .. Len(code)
                                /\ life[u].end \in life[u].start .. Len(code)
                                /\ u \in Nat
      /\ DOMAIN reg \subseteq DOMAIN life
      /\ \A u \in DOMAIN reg : reg[u] \in 0 .. need - 1
      /\ \A u, w \in DOMAIN reg : u # w /\ reg[u] = reg[w] => Apart(u, w)
  BY <1>1, TableFacts
<1>3. /\ \A u \in DOMAIN reg : life[u].start <= point
      /\ \A u \in DOMAIN life : life[u].start < point => u \in DOMAIN reg
      /\ using = {reg[u] : u \in {w \in DOMAIN reg : life[w].end >= point}}
  BY <1>1 DEF IInv, RegInv
<1>4. \A u \in DOMAIN life : life[u].start <= point => u \in DOMAIN reg
  BY <1>1, <1>2, <1>3 DEF Starting
<1>5. ending \subseteq DOMAIN reg
  BY <1>2, <1>4
<1>6. \A u \in DOMAIN reg, w \in ending : life[u].end > point => reg[u] # reg[w]
  BY <1>2, <1>3, <1>5 DEF Apart
<1>7. using' = {reg'[u] : u \in {w \in DOMAIN reg' : life'[w].end >= point'}}
  <2>1. using' = {reg[u] : u \in {w \in DOMAIN reg : life[w].end >= point + 1}}
    BY <1>1, <1>2, <1>3, <1>5, <1>6
  <2> QED
    BY <1>1, <2>1
<1>8. RegInv'
  <2>1. /\ \A u \in DOMAIN reg' : life'[u].start <= point' /\ reg'[u] \in 0 .. need' - 1
        /\ \A u \in DOMAIN life' : life'[u].start < point' => u \in DOMAIN reg'
    BY <1>1, <1>2, <1>3, <1>4
  <2>2. \A u, w \in DOMAIN reg' : u # w /\ reg'[u] = reg'[w] => Apart(u, w)'
    BY <1>1, <1>2 DEF Apart
  <2> QED
    BY <1>1, <1>7, <2>1, <2>2 DEF RegInv
<1>9. point <= Len(code)
  BY <1>1, <1>2 DEF InPeriod
<1>10. TypeOK'
  <2>1. using' \subseteq Nat
    BY <1>1 DEF IInv, TypeOK
  <2>2. /\ code' = code /\ phase' = phase /\ life' = life /\ need' = need /\ reg' = reg
        /\ pc' = pc /\ file' = file /\ written' = written /\ point' \in 1 .. Len(code) + 1
    BY <1>1, <1>2, <1>9 DEF runVars
  <2> QED
    BY <2>1, <2>2 DEF IInv, TypeOK
<1>11. NeedInv' /\ LifeInv'
  BY <1>1, NeedKept, LifeKept
<1>12. RunInv'
  BY <1>1 DEF IInv, RunInv, runVars
<1> QED
  BY <1>1, <1>8, <1>10, <1>11, <1>12 DEF IInv

LEMMA AllocatedInv == ASSUME IInv, Allocated PROVE IInv'
<1>1. /\ phase = "allocate" /\ ~InPeriod(point) /\ phase' = "generate"
      /\ code' = code /\ point' = point /\ life' = life /\ need' = need /\ reg' = reg /\ using' = using
      /\ pc' = pc /\ file' = file /\ written' = written
  BY DEF Allocated, passVars, runVars
<1>2. /\ point \in 1 .. Len(code) + 1 /\ DOMAIN reg \subseteq DOMAIN life
      /\ \A u \in DOMAIN life : /\ life[u].start \in 1 .. Len(code)
                                /\ life[u].end \in life[u].start .. Len(code)
  BY <1>1, TableFacts
<1>3. \A u \in DOMAIN life : life[u].start < point
  BY <1>1, <1>2 DEF InPeriod
<1>4. DOMAIN reg = DOMAIN life
  BY <1>1, <1>2, <1>3 DEF IInv, RegInv
<1>5. \A u, v \in DOMAIN reg : Apart(u, v)' <=> Apart(u, v)
  BY <1>1 DEF Apart
<1>6. RegInv'
  BY <1>1, <1>4, <1>5 DEF IInv, RegInv
<1>7. TypeOK' /\ RunInv'
  BY <1>1 DEF IInv, TypeOK, RunInv
<1>8. NeedInv' /\ LifeInv'
  BY <1>1, NeedKept, LifeKept
<1> QED
  BY <1>1, <1>6, <1>7, <1>8 DEF IInv

(***************************************************************************)
(* The code and its run.                                                   *)
(***************************************************************************)
LEMMA GenerateInv == ASSUME IInv, Generate PROVE IInv'
<1>1. /\ phase = "generate" /\ phase' = IF Lost THEN "failed" ELSE "run"
      /\ code' = code /\ point' = point /\ life' = life /\ need' = need /\ reg' = reg /\ using' = using
      /\ pc' = pc /\ file' = file /\ written' = written
  BY DEF Generate, passVars, runVars
<1>2. LifeInv' /\ (Lost' <=> Lost) /\ NeedInv'
  BY <1>1, LifeKept, NeedKept
<1>3. RegInv'
  BY <1>1 DEF IInv, RegInv, Apart
<1>4. pc = 1 /\ written = {} /\ DOMAIN file = {}
  BY <1>1 DEF IInv, RunInv
<1>5. TypeOK' /\ RunInv'
  BY <1>1, <1>4 DEF IInv, TypeOK, RunInv
<1> QED
  BY <1>1, <1>2, <1>3, <1>5 DEF IInv

(* Whatever an item mentions has a register of its own at that point.      *)
LEMMA OperandFacts ==
  ASSUME IInv, phase = "run", need < Width, pc \in DOMAIN code, NEW v \in Mentions(code[pc])
  PROVE  /\ v \in DOMAIN life /\ v \in DOMAIN reg
         /\ life[v].start <= pc /\ pc <= life[v].end
         /\ reg[v] \in 0 .. need - 1 /\ Operand(v, pc) = reg[v]
<1>1. pc \in 1 .. Len(code) /\ Len(code) \in Nat /\ need \in Nat
  BY CodeFacts DEF IInv, TypeOK
<1>2. Covered(pc)
  BY <1>1 DEF IInv, LifeInv, Scanned
<1>3. v \in DOMAIN life /\ life[v].start <= pc /\ pc <= life[v].end
  BY <1>2 DEF Covered, Alive
<1>4. v \in DOMAIN reg /\ reg[v] \in 0 .. need - 1
  BY <1>3 DEF IInv, RegInv
<1>5. RegAt(v, pc) = reg[v]
  BY <1>3 DEF RegAt, Living, Alive
<1>6. reg[v] % Width = reg[v]
  BY <1>1, <1>4, WidthAssumption
<1> QED
  BY <1>3, <1>4, <1>5, <1>6 DEF Operand

(* A step of the run goes on, or to a label that no shorter life straddles.*)
LEMMA StepFacts ==
  ASSUME IInv, Exec
  PROVE  /\ pc' \in 1 .. Len(code) + 1
         /\ \A u \in DOMAIN life : life[u].end < pc => life[u].end < pc'
<1>1. /\ phase = "run" /\ pc \in DOMAIN code /\ pc' \in Successors(pc)
  BY DEF Exec
<1>2. /\ DOMAIN code = 1 .. Len(code) /\ Len(code) \in Nat
      /\ \A u \in DOMAIN life : life[u].end \in Nat
  BY <1>1, CodeFacts, TableFacts DEF IInv, TypeOK
<1>3. Closed(pc)
  BY <1>1, <1>2 DEF IInv, LifeInv, Scanned
<1>4. pc' = pc + 1 \/ \E d \in DOMAIN code : Lands(pc, d) /\ pc' = d
  BY <1>1 DEF Successors, Follows, Lands
<1>5. CASE pc' = pc + 1
  BY <1>1, <1>2, <1>5
<1>6. ASSUME NEW d \in DOMAIN code, Lands(pc, d), pc' = d
      PROVE  /\ pc' \in 1 .. Len(code) + 1
             /\ \A u \in DOMAIN life : life[u].end < pc => life[u].end < pc'
  BY <1>1, <1>2, <1>3, <1>6 DEF Closed
<1> QED
  BY <1>4, <1>5, <1>6

LEMMA ExecInv == ASSUME IInv, Exec PROVE IInv'
<1>1. /\ phase = "run" /\ phase' = "run" /\ pc \in DOMAIN code
      /\ code' = code /\ point' = point /\ life' = life /\ need' = need /\ reg' = reg /\ using' = using
  BY DEF Exec, passVars
<1>2. LifeInv' /\ (Lost' <=> Lost) /\ NeedInv'
  BY <1>1, LifeKept, NeedKept
<1>3. RegInv'
  BY <1>1 DEF IInv, RegInv, Apart
<1>4. /\ pc' \in 1 .. Len(code) + 1
      /\ \A u \in DOMAIN life : life[u].end < pc => life[u].end < pc'
  BY StepFacts
<1>5. /\ \A u \in DOMAIN life : life[u].start \in Nat /\ life[u].end \in Nat
      /\ DOMAIN reg = DOMAIN life
      /\ \A u, w \in DOMAIN reg : u # w /\ reg[u] = reg[w] => Apart(u, w)
      /\ written \subseteq DOMAIN life /\ pc \in Nat /\ need \in Nat
  BY <1>1, TableFacts DEF IInv, TypeOK, RegInv
<1>6. CASE UNCHANGED <<file, written>>
  <2>1. TypeOK'
    BY <1>1, <1>4, <1>6 DEF IInv, TypeOK
  <2>2. RunInv'
    BY <1>1, <1>4, <1>5, <1>6 DEF IInv, RunInv
  <2> QED
    BY <1>1, <1>2, <1>3, <2>1, <2>2 DEF IInv
<1>7. ASSUME NEW v \in Writes(code[pc]),
             file' = [r \in DOMAIN file \cup {Operand(v, pc)} |-> IF r = Operand(v, pc) THEN v ELSE file[r]],
             written' = written \cup {v}
      PROVE  IInv'
  <2>1. v \in Mentions(code[pc])
    BY <1>1, CodeFacts DEF IInv, TypeOK
  <2>2. v \in DOMAIN life /\ Operand(v, pc) \in Nat
    <3>1. Covered(pc)
      BY <1>1, CodeFacts DEF IInv, TypeOK, LifeInv, Scanned
    <3>2. v \in DOMAIN life /\ v \in Living(pc)
      BY <2>1, <3>1 DEF Covered, Living
    <3>3. reg[v] \in Nat
      BY <1>5, <3>2, <1>1 DEF IInv, TypeOK
    <3> QED
      BY <3>2, <3>3, WidthAssumption DEF Operand, RegAt
  <2>3. TypeOK'
    BY <1>1, <1>4, <1>7, <2>2 DEF IInv, TypeOK
  <2>4. ASSUME need < Width
        PROVE  /\ \A w \in written', u \in DOMAIN life : life[u].end < life[w].start => life[u].end < pc'
               /\ \A r \in DOMAIN file' : reg[file'[r]] = r
               /\ \A w \in written' :
                    /\ reg[w] \in DOMAIN file'
                    /\ \/ file'[reg[w]] = w
                       \/ life[w].end < life[file'[reg[w]]].start
    <3>1. /\ life[v].start <= pc /\ pc <= life[v].end /\ Operand(v, pc) = reg[v]
      BY <1>1, <2>1, <2>4, OperandFacts
    <3>2. /\ \A w \in written, u \in DOMAIN life : life[u].end < life[w].start => life[u].end < pc
          /\ \A r \in DOMAIN file : reg[file[r]] = r
          /\ \A w \in written : /\ reg[w] \in DOMAIN file
                                /\ \/ file[reg[w]] = w
                                   \/ life[w].end < life[file[reg[w]]].start
      BY <1>1, <2>4 DEF IInv, RunInv
    <3>3. \A w \in written', u \in DOMAIN life : life[u].end < life[w].start => life[u].end < pc'
      BY <1>4, <1>5, <1>7, <2>2, <3>1, <3>2
    <3>4. /\ DOMAIN file' = DOMAIN file \cup {reg[v]} /\ file'[reg[v]] = v
          /\ \A r \in DOMAIN file : r # reg[v] => file'[r] = file[r]
      BY <1>7, <3>1
    <3>5. \A r \in DOMAIN file' : reg[file'[r]] = r
      BY <3>2, <3>4
    <3>6. ASSUME NEW w \in written, w # v, reg[w] = reg[v]
          PROVE  life[w].end < life[v].start
      <4>1. Apart(w, v)
        BY <1>5, <2>2, <3>6
      <4>2. ~(life[v].end < life[w].start)
        BY <1>5, <2>2, <3>1, <3>2
      <4> QED
        BY <4>1, <4>2 DEF Apart
    <3>7. \A w \in written' : /\ reg[w] \in DOMAIN file'
                              /\ \/ file'[reg[w]] = w
                                 \/ life[w].end < life[file'[reg[w]]].start
      BY <1>7, <3>2, <3>4, <3>6
    <3> QED
      BY <3>3, <3>5, <3>7
  <2>5. RunInv'
    BY <1>1, <2>4 DEF RunInv
  <2> QED
    BY <1>1, <1>2, <1>3, <2>3, <2>5 DEF IInv
<1> QED
  BY <1>6, <1>7 DEF Exec

(***************************************************************************)
(* The theorems.                                                           *)
(***************************************************************************)
LEMMA InitInv == Init => IInv
<1> SUFFICES ASSUME Init PROVE IInv
  OBVIOUS
<1>1. DOMAIN life = {} /\ DOMAIN reg = {} /\ DOMAIN file = {}
  BY DEF Init
<1>2. Len(code) \in Nat \ {0} /\ DOMAIN code = 1 .. Len(code)
  BY CodeFacts DEF Init
<1>3. TypeOK /\ NeedInv /\ RegInv /\ RunInv
  BY <1>1, <1>2 DEF Init, TypeOK, NeedInv, RegInv, RunInv
<1>4. LifeInv
  <2>1. Mentioned(code, point - 1) = {}
    BY DEF Init, Mentioned
  <2> QED
    BY <1>1, <1>2, <2>1, FS_EmptySet DEF Init, LifeInv, Scanned, TablesFit
<1> QED
  BY <1>3, <1>4 DEF Init, IInv

LEMMA StutterInv == IInv /\ UNCHANGED vars => IInv'
<1> SUFFICES ASSUME IInv, UNCHANGED vars PROVE IInv'
  OBVIOUS
<1>1. /\ TypeOK' /\ RegInv' /\ RunInv'
  BY DEF vars, IInv, TypeOK, RegInv, RunInv, Apart
<1>2. LifeInv' /\ NeedInv' /\ (Lost' <=> Lost)
  BY DEF vars, IInv, LifeInv, TablesFit, NeedInv, Lost, Lands, Covered, Closed, Scanned, Alive, Living
<1> QED
  BY <1>1, <1>2 DEF vars, IInv

(* The invariant: a step of any pass, and of the run, preserves it.        *)
THEOREM Invariant == Spec => []IInv
<1>1. IInv /\ [Next]_vars => IInv'
  BY ScanItemInv, ScanBranchInv, ScanLostInv, ScanEndsInv, MeasureInv, AllocateInv,
     AdvanceInv, AllocatedInv, GenerateInv, ExecInv, StutterInv DEF Next
<1> QED
  BY InitInv, <1>1, PTL DEF Spec

(* The tables are well typed, for every code (xjs_regsched_set_r1).        *)
THEOREM TypeCorrect == Spec => []TypeOK
<1>1. IInv => TypeOK
  BY DEF IInv
<1> QED
  BY <1>1, Invariant, PTL

(* Every operand of the generated code names a register of the frame.      *)
THEOREM OperandsHaveRegisters == Spec => []OperandsFit
<1>1. IInv => OperandsFit
  BY OperandFacts DEF OperandsFit
<1> QED
  BY <1>1, Invariant, PTL

(* Sharing registers is sound on every path through every code: a variable *)
(* is read from the register it was written to, before any other variable  *)
(* was.                                                                    *)
THEOREM RegistersHold == Spec => []ReadsOwn
<1>1. ASSUME IInv, phase = "run", pc \in DOMAIN code, need < Width,
             NEW v \in Reads(code[pc]) \cap written
      PROVE  Operand(v, pc) \in DOMAIN file /\ file[Operand(v, pc)] = v
  <2>1. v \in Mentions(code[pc])
    BY <1>1 DEF Mentions
  <2>2. /\ v \in DOMAIN life /\ pc <= life[v].end /\ Operand(v, pc) = reg[v]
    BY <1>1, <2>1, OperandFacts
  <2>3. /\ reg[v] \in DOMAIN file
        /\ \/ file[reg[v]] = v
           \/ life[v].end < life[file[reg[v]]].start
    BY <1>1 DEF IInv, RunInv
  <2>4. file[reg[v]] \in written
    BY <1>1, <2>3 DEF IInv, TypeOK
  <2>5. pc \in Nat /\ life[v].end \in Nat
    BY <1>1, <2>2, TableFacts DEF IInv, TypeOK
  <2>6. ~(life[v].end < life[file[reg[v]]].start)
    BY <1>1, <2>2, <2>4, <2>5 DEF IInv, RunInv
  <2> QED
    BY <2>2, <2>3, <2>6
<1>2. IInv => ReadsOwn
  BY <1>1 DEF ReadsOwn
<1> QED
  BY <1>2, Invariant, PTL

(* No table of the later passes is indexed out of its bounds, for any code.*)
THEOREM TablesWideEnough == Spec => []TablesFit
<1>1. IInv => TablesFit
  BY DEF IInv, LifeInv
<1> QED
  BY <1>1, Invariant, PTL

(* The allocator asks for enough registers for every code.                 *)
THEOREM RegistersSuffice == Spec => []NeverShort
<1>1. IInv => NeverShort
  BY DEF IInv, NeverShort
<1> QED
  BY <1>1, Invariant, PTL

(* What each pass has counted suffices for the passes behind it.           *)
THEOREM CountsAlwaysSuffice == Spec => []CountsSuffice
  BY OperandsHaveRegisters, TablesWideEnough, RegistersSuffice, PTL DEF CountsSuffice
===============================================================================
