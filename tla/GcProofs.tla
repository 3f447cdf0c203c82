------------------------------- MODULE GcProofs -------------------------------
(***************************************************************************)
(* Proofs about the collector, for every pool, every program and every     *)
(* depth of calls.                                                         *)
(***************************************************************************)
EXTENDS Gc, Lemmas

(***************************************************************************)
(* Type correctness.                                                       *)
(***************************************************************************)
LEMMA RefsType ==
  ASSUME NEW b \in Block
  PROVE  Refs(b) \subseteq Urids
BY DEF Block, OrNil, Refs

LEMMA FramesType ==
  ASSUME TypeOK
  PROVE  /\ DOMAIN frames = 1 .. Len(frames) /\ Len(frames) \in Nat \ {0}
         /\ \A i \in 1 .. Len(frames) : frames[i].env \in Urids /\ frames[i].vals \subseteq Urids
<1>1. frames \in Seq(Frame) /\ Len(frames) \in 1 .. MaxFrames
  BY DEF TypeOK
<1>2. \A i \in 1 .. Len(frames) : frames[i] \in Frame
  BY <1>1, ElementOfSeq
<1>3. DOMAIN frames = 1 .. Len(frames) /\ Len(frames) \in Nat \ {0}
  BY <1>1, LenProperties
<1> QED
  BY <1>2, <1>3 DEF Frame

(* A register write: the environments stay, a frame gains at most v.       *)
LEMMA KeepFacts ==
  ASSUME TypeOK, NEW v \in Urids, Keep(v)
  PROVE  /\ frames' \in Seq(Frame) /\ Len(frames') = Len(frames)
         /\ \A i \in 1 .. Len(frames) : frames'[i].env = frames[i].env
         /\ \A i \in 1 .. Len(frames) : frames'[i].vals \subseteq frames[i].vals \cup {v}
<1> DEFINE n == Len(frames)
<1>1. /\ DOMAIN frames = 1 .. n /\ n \in 1 .. n
      /\ \A i \in 1 .. n : frames[i].env \in Urids /\ frames[i].vals \subseteq Urids
  BY FramesType
<1>2. PICK vals \in Kept(frames[n].vals, v) : frames' = [frames EXCEPT ![n].vals = vals]
  BY DEF Keep, Top
<1>3. vals \subseteq frames[n].vals \cup {v}
  BY <1>2 DEF Kept
<1>4. \A i \in 1 .. n : frames[i] \in Frame
  BY ElementOfSeq DEF TypeOK
<1>5. /\ DOMAIN frames' = 1 .. n
      /\ \A i \in 1 .. n : frames'[i] = IF i = n THEN [frames[i] EXCEPT !.vals = vals] ELSE frames[i]
  BY <1>1, <1>2
<1>6. \A i \in 1 .. n : /\ frames'[i] \in Frame
                        /\ frames'[i].env = frames[i].env
                        /\ frames'[i].vals \subseteq frames[i].vals \cup {v}
  BY <1>1, <1>3, <1>4, <1>5 DEF Frame
<1>7. frames' = [i \in 1 .. n |-> frames'[i]]
  BY <1>1, <1>2
<1>8. frames' \in Seq(Frame) /\ Len(frames') = n
  BY <1>1, <1>6, <1>7, IsASeq
<1> QED
  BY <1>6, <1>8

(* The frame that a return leaves on top.                                  *)
LEMMA ReturnFacts ==
  ASSUME TypeOK, NEW v \in Urids, Return(v)
  PROVE  /\ frames' \in Seq(Frame) /\ Len(frames') = Len(frames) - 1 /\ Len(frames') > 0
         /\ v \in frames[Len(frames)].vals
         /\ \A i \in 1 .. Len(frames') : frames'[i].env = frames[i].env
         /\ \A i \in 1 .. Len(frames') : frames'[i].vals \subseteq frames[i].vals \cup {v}
<1> DEFINE n == Len(frames) - 1
           s == SubSeq(frames, 1, n)
<1>1. /\ DOMAIN frames = 1 .. Len(frames) /\ Len(frames) \in Nat \ {0}
      /\ \A i \in 1 .. Len(frames) : frames[i].env \in Urids /\ frames[i].vals \subseteq Urids
  BY FramesType
<1>2. n \in 1 .. n /\ n \in Nat /\ v \in frames[Len(frames)].vals
  BY <1>1 DEF Return, Top
<1>3. \A i \in 1 .. Len(frames) : frames[i] \in Frame
  BY ElementOfSeq DEF TypeOK
<1>4. /\ s \in Seq(Frame) /\ Len(s) = n
      /\ \A i \in 1 .. n : s[i] = frames[i]
  <2>1. \A i \in 1 .. n : frames[i] \in Frame
    BY <1>1, <1>3
  <2> QED
    BY <1>2, <2>1, SubSeqProperties
<1>5. DOMAIN s = 1 .. n
  BY <1>4, LenProperties
<1>6. PICK vals \in Kept(frames[n].vals, v) : frames' = [s EXCEPT ![n].vals = vals]
  BY DEF Return
<1>7. vals \subseteq frames[n].vals \cup {v}
  BY <1>6 DEF Kept
<1>8. /\ DOMAIN frames' = 1 .. n
      /\ \A i \in 1 .. n : frames'[i] = IF i = n THEN [s[i] EXCEPT !.vals = vals] ELSE s[i]
  BY <1>2, <1>5, <1>6
<1>9. \A i \in 1 .. n : /\ frames'[i] \in Frame
                        /\ frames'[i].env = frames[i].env
                        /\ frames'[i].vals \subseteq frames[i].vals \cup {v}
  BY <1>1, <1>3, <1>4, <1>7, <1>8 DEF Frame
<1>10. frames' = [i \in 1 .. n |-> frames'[i]]
  BY <1>5, <1>6
<1>11. frames' \in Seq(Frame) /\ Len(frames') = n
  BY <1>2, <1>9, <1>10, IsASeq
<1> QED
  BY <1>2, <1>9, <1>11

(* The frame a call adds.                                                  *)
LEMMA CallFacts ==
  ASSUME TypeOK, NEW f \in Urids, NEW e \in Urids, NEW args \in SUBSET Urids, Call(f, e, args)
  PROVE  /\ frames' \in Seq(Frame) /\ Len(frames') = Len(frames) + 1
         /\ \A i \in 1 .. Len(frames) : frames'[i] = frames[i]
         /\ frames'[Len(frames) + 1] = [env |-> e, vals |-> args \cup {f}]
         /\ Len(frames') <= MaxFrames
<1>1. frames \in Seq(Frame) /\ Len(frames) \in Nat /\ [env |-> e, vals |-> args \cup {f}] \in Frame
  BY LenProperties DEF TypeOK, Frame
<1>2. frames' = Append(frames, [env |-> e, vals |-> args \cup {f}])
  BY DEF Call
<1>3. Len(frames) < MaxFrames /\ MaxFrames \in Nat
  BY GcAssumption DEF Call
<1> DEFINE new == [env |-> e, vals |-> args \cup {f}]
<1>4. /\ Append(frames, new) \in Seq(Frame)
      /\ Len(Append(frames, new)) = Len(frames) + 1
      /\ \A i \in 1 .. Len(frames) : Append(frames, new)[i] = frames[i]
      /\ Append(frames, new)[Len(frames) + 1] = new
  BY <1>1, AppendProperties
<1>5. Len(frames) + 1 <= MaxFrames
  BY <1>1, <1>3
<1> QED
  BY <1>2, <1>4, <1>5

(* An appended link: no other block refers to more than it did, but for    *)
(* the new link.                                                           *)
LEMMA AppendFacts ==
  ASSUME TypeOK, NEW o \in Live, NEW l \in Urids \ Live, NEW vs \in SUBSET Urids,
         heap' = AppendLink(heap, o, l, vs)
  PROVE  /\ DOMAIN heap' = Live \cup {l}
         /\ heap' \in [Live \cup {l} -> Block]
         /\ heap'[l] = Link(vs)
         /\ \A x \in Live : /\ heap'[x].kind = heap[x].kind
                            /\ heap'[x].vals = heap[x].vals
                            /\ heap'[x].list = heap[x].list \/ heap[x].list = Nil
                            /\ Refs(heap'[x]) \subseteq Refs(heap[x]) \cup {l}
<1>1. heap \in [Live -> Block] /\ Nil \notin Urids /\ l \in OrNil
  BY GcAssumption DEF TypeOK, Live, OrNil
<1>2. \A x \in Live : /\ Relinked(heap, x, o, l) \in Block
                      /\ Relinked(heap, x, o, l).kind = heap[x].kind
                      /\ Relinked(heap, x, o, l).vals = heap[x].vals
                      /\ \/ Relinked(heap, x, o, l).list = heap[x].list
                         \/ heap[x].list = Nil /\ Relinked(heap, x, o, l).list = l
                      /\ Relinked(heap, x, o, l).next \in {heap[x].next, l}
  <2> TAKE x \in Live
  <2>1. heap[x] \in Block
    BY <1>1
  <2>2. PICK list : list = IF x = o /\ heap[x].list = Nil THEN l ELSE heap[x].list
    OBVIOUS
  <2>3. PICK last : last = IF x = o THEN l ELSE heap[x].last
    OBVIOUS
  <2>4. PICK next : next = IF heap[o].list # Nil /\ x = heap[o].last THEN l ELSE heap[x].next
    OBVIOUS
  <2> PICK b \in Block : b = heap[x]
    BY <2>1
  <2> PICK c : c = Relinked(heap, x, o, l)
    OBVIOUS
  <2>5. c = [b EXCEPT !.list = list, !.last = last, !.next = next]
    BY <2>2, <2>3, <2>4 DEF Relinked
  <2>6. list \in OrNil /\ last \in OrNil /\ next \in OrNil
    <3>1. heap[x].list \in OrNil /\ heap[x].last \in OrNil /\ heap[x].next \in OrNil
      BY <2>1 DEF Block
    <3> QED
      BY <1>1, <2>2, <2>3, <2>4, <3>1
  <2>7. c \in Block /\ c.kind = b.kind /\ c.vals = b.vals /\ c.list = list /\ c.next = next
    BY <2>5, <2>6 DEF Block
  <2> QED
    BY <2>2, <2>4, <2>7
<1>3. Link(vs) \in Block
  BY DEF Link, Block, OrNil
<1>4. /\ DOMAIN heap' = Live \cup {l} /\ heap'[l] = Link(vs)
      /\ \A x \in Live : heap'[x] = Relinked(heap, x, o, l)
  BY DEF AppendLink, Live
<1>5. heap' \in [Live \cup {l} -> Block]
  BY <1>2, <1>3, <1>4 DEF AppendLink, Live
<1>6. \A x \in Live : Refs(heap'[x]) \subseteq Refs(heap[x]) \cup {l}
  BY <1>2, <1>4 DEF Refs
<1> QED
  BY <1>2, <1>4, <1>5, <1>6

(***************************************************************************)
(* The inductive invariant.                                                *)
(***************************************************************************)
LEMMA RootsLive ==
  ASSUME IInv
  PROVE  /\ \A i \in 1 .. Len(frames) : frames[i].env \in Live /\ frames[i].vals \subseteq Live
         /\ external \subseteq Live
         /\ Top.env \in Live /\ Top.vals \subseteq Live
<1>1. DOMAIN frames = 1 .. Len(frames) /\ Len(frames) \in Nat \ {0}
  BY FramesType DEF IInv
<1>2. Roots \subseteq Live
  BY DEF IInv, NoDangling
<1>3. /\ \A i \in 1 .. Len(frames) : frames[i].env \in Live /\ frames[i].vals \subseteq Live
      /\ external \subseteq Live
  BY <1>1, <1>2 DEF Roots
<1>4. Len(frames) \in 1 .. Len(frames)
  BY <1>1
<1> QED
  BY <1>3, <1>4 DEF Top

LEMMA AnchorLive ==
  ASSUME IInv
  PROVE  /\ GlobalEnv \in Live /\ ArrayVar \in Live /\ ArrayProto \in Live
         /\ heap[GlobalEnv].list = ArrayVar /\ heap[GlobalEnv].kind = "env"
         /\ ArrayProto \in heap[ArrayVar].vals
<1>1. 1 \in 1 .. Len(frames)
  BY FramesType DEF IInv
<1>2. GlobalEnv \in Live
  BY <1>1, RootsLive DEF IInv, Anchored
<1>3. ArrayVar \in Refs(heap[GlobalEnv])
  BY GcAssumption DEF IInv, Anchored, Refs
<1> QED
  BY <1>2, <1>3 DEF IInv, Anchored, NoDangling

(* A step of the program keeps the invariant when the blocks it changes    *)
(* and the frames it leaves refer to live blocks, or to those it adds.     *)
LEMMA ProgramStep ==
  ASSUME IInv, NEW new \in SUBSET Urids,
         DOMAIN heap' = Live \cup new, heap' \in [Live \cup new -> Block],
         \A x \in Live \cup new : Refs(heap'[x]) \subseteq Live \cup new,
         frames' \in Seq(Frame), Len(frames') \in 1 .. MaxFrames,
         \A i \in 1 .. Len(frames') : /\ frames'[i].env \in Live \cup new
                                     /\ frames'[i].vals \subseteq Live \cup new,
         frames'[1].env = frames[1].env,
         external' \subseteq Live \cup new,
         marked' \subseteq Urids, pending' \subseteq Urids, phase' = "run",
         heap'[GlobalEnv].kind = heap[GlobalEnv].kind,
         heap'[GlobalEnv].list = heap[GlobalEnv].list,
         heap'[ArrayVar].vals = heap[ArrayVar].vals
  PROVE  IInv'
<1>1. Live \subseteq Urids
  BY DEF IInv, TypeOK, Live
<1>2. TypeOK'
  BY <1>1 DEF TypeOK
<1>3. DOMAIN frames' = 1 .. Len(frames')
  BY LenProperties
<1>4. Roots' \subseteq Live \cup new
  BY <1>3 DEF Roots
<1>5. NoDangling'
  BY <1>4, AnchorLive DEF NoDangling, Live
<1>6. Anchored'
  BY DEF IInv, Anchored
<1>7. Closed' /\ Precise'
  BY DEF Closed, Precise
<1> QED
  BY <1>2, <1>5, <1>6, <1>7 DEF IInv

(* What the frames are like after a register write.                        *)
LEMMA KeepStep ==
  ASSUME IInv, NEW new \in SUBSET Urids, NEW v \in Live \cup new, Keep(v)
  PROVE  /\ frames' \in Seq(Frame) /\ Len(frames') \in 1 .. MaxFrames
         /\ \A i \in 1 .. Len(frames') : /\ frames'[i].env \in Live \cup new
                                         /\ frames'[i].vals \subseteq Live \cup new
         /\ frames'[1].env = frames[1].env
<1>1. v \in Urids
  BY DEF IInv, TypeOK, Live
<1>2. /\ frames' \in Seq(Frame) /\ Len(frames') = Len(frames)
      /\ \A i \in 1 .. Len(frames) : frames'[i].env = frames[i].env
      /\ \A i \in 1 .. Len(frames) : frames'[i].vals \subseteq frames[i].vals \cup {v}
  BY <1>1, KeepFacts DEF IInv
<1>3. Len(frames) \in 1 .. MaxFrames /\ 1 \in 1 .. Len(frames)
  BY FramesType DEF IInv, TypeOK
<1> QED
  BY <1>2, <1>3, RootsLive

(* What the frames are like when a step leaves them alone.                 *)
LEMMA FramesStay ==
  ASSUME IInv, NEW new \in SUBSET Urids, frames' = frames
  PROVE  /\ frames' \in Seq(Frame) /\ Len(frames') \in 1 .. MaxFrames
         /\ \A i \in 1 .. Len(frames') : /\ frames'[i].env \in Live \cup new
                                         /\ frames'[i].vals \subseteq Live \cup new
         /\ frames'[1].env = frames[1].env
BY RootsLive DEF IInv, TypeOK

(* What the heap is like when a step leaves it alone.                      *)
LEMMA HeapStays ==
  ASSUME IInv, heap' = heap
  PROVE  /\ DOMAIN heap' = Live \cup {} /\ heap' \in [Live \cup {} -> Block]
         /\ \A x \in Live \cup {} : Refs(heap'[x]) \subseteq Live \cup {}
         /\ heap'[GlobalEnv].kind = heap[GlobalEnv].kind
         /\ heap'[GlobalEnv].list = heap[GlobalEnv].list
         /\ heap'[ArrayVar].vals = heap[ArrayVar].vals
BY DEF IInv, TypeOK, NoDangling, Live

(* What the heap is like once a link is appended.                          *)
LEMMA AppendStep ==
  ASSUME IInv, NEW o \in Live, NEW l \in Urids \ Live, NEW vs \in SUBSET Live,
         heap' = AppendLink(heap, o, l, vs)
  PROVE  /\ DOMAIN heap' = Live \cup {l} /\ heap' \in [Live \cup {l} -> Block]
         /\ \A x \in Live \cup {l} : Refs(heap'[x]) \subseteq Live \cup {l}
         /\ heap'[GlobalEnv].kind = heap[GlobalEnv].kind
         /\ heap'[GlobalEnv].list = heap[GlobalEnv].list
         /\ heap'[ArrayVar].vals = heap[ArrayVar].vals
<1>1. vs \in SUBSET Urids
  BY DEF IInv, TypeOK, Live
<1>2. TypeOK
  BY DEF IInv
<1>3. /\ DOMAIN heap' = Live \cup {l}
      /\ heap' \in [Live \cup {l} -> Block]
      /\ heap'[l] = Link(vs)
      /\ \A x \in Live : /\ heap'[x].kind = heap[x].kind
                         /\ heap'[x].vals = heap[x].vals
                         /\ heap'[x].list = heap[x].list \/ heap[x].list = Nil
                         /\ Refs(heap'[x]) \subseteq Refs(heap[x]) \cup {l}
  BY <1>1, <1>2, AppendFacts
<1>4. Refs(heap'[l]) \subseteq Live
  BY <1>3 DEF Refs, Link
<1>5. \A x \in Live : Refs(heap[x]) \subseteq Live
  BY DEF IInv, NoDangling
<1>6. ArrayVar # Nil
  BY GcAssumption
<1> QED
  BY <1>3, <1>4, <1>5, <1>6, AnchorLive

(* What the heap is like once a block is made.                             *)
LEMMA NewBlockStep ==
  ASSUME IInv, NEW u \in Urids \ Live, NEW b \in Block, Refs(b) \subseteq Live,
         heap' = NewBlock(heap, u, b)
  PROVE  /\ DOMAIN heap' = Live \cup {u} /\ heap' \in [Live \cup {u} -> Block]
         /\ \A x \in Live \cup {u} : Refs(heap'[x]) \subseteq Live \cup {u}
         /\ heap'[GlobalEnv].kind = heap[GlobalEnv].kind
         /\ heap'[GlobalEnv].list = heap[GlobalEnv].list
         /\ heap'[ArrayVar].vals = heap[ArrayVar].vals
<1>1. heap' = [x \in Live \cup {u} |-> IF x = u THEN b ELSE heap[x]]
  BY DEF NewBlock, Live
<1>2. heap \in [Live -> Block] /\ \A x \in Live : Refs(heap[x]) \subseteq Live
  BY DEF IInv, TypeOK, NoDangling, Live
<1>3. /\ DOMAIN heap' = Live \cup {u} /\ heap' \in [Live \cup {u} -> Block]
      /\ heap'[u] = b /\ \A x \in Live : heap'[x] = heap[x]
  BY <1>1, <1>2
<1> QED
  BY <1>2, <1>3, AnchorLive

(* What the heap is like once one block is replaced.                       *)
LEMMA UpdateStep ==
  ASSUME IInv, NEW o \in Live, NEW b \in Block, Refs(b) \subseteq Live,
         heap' = [heap EXCEPT ![o] = b],
         o = GlobalEnv => b.kind = heap[o].kind /\ b.list = heap[o].list,
         o = ArrayVar => b.vals = heap[o].vals
  PROVE  /\ DOMAIN heap' = Live \cup {} /\ heap' \in [Live \cup {} -> Block]
         /\ \A x \in Live \cup {} : Refs(heap'[x]) \subseteq Live \cup {}
         /\ heap'[GlobalEnv].kind = heap[GlobalEnv].kind
         /\ heap'[GlobalEnv].list = heap[GlobalEnv].list
         /\ heap'[ArrayVar].vals = heap[ArrayVar].vals
<1>1. /\ heap \in [Live -> Block] /\ \A x \in Live : Refs(heap[x]) \subseteq Live
      /\ heap = [x \in Live |-> heap[x]]
  BY DEF IInv, TypeOK, NoDangling, Live
<1>2. /\ DOMAIN heap' = Live /\ heap' \in [Live -> Block]
      /\ heap'[o] = b /\ \A x \in Live : x # o => heap'[x] = heap[x]
  BY <1>1
<1> QED
  BY <1>1, <1>2, AnchorLive

(***************************************************************************)
(* The steps of the program.                                               *)
(***************************************************************************)
LEMMA ChainsLive ==
  /\ \A o : LinksOf(o) \subseteq Live
  /\ Variables \subseteq Live
<1>1. \A u : Chain(u) \subseteq Live
  BY DEF Chain
<1>2. \A o : LinksOf(o) \subseteq Live
  BY <1>1 DEF LinksOf
<1> QED
  BY <1>2 DEF Variables

(* A value on the heap refers to live blocks only, and so do their links.  *)
LEMMA RefsLive ==
  ASSUME IInv, NEW x \in Live
  PROVE  /\ heap[x] \in Block /\ heap[x].vals \subseteq Live
         /\ heap[x].list = Nil \/ heap[x].list \in Live
         /\ heap[x].next = Nil \/ heap[x].next \in Live
BY DEF IInv, TypeOK, NoDangling, Refs, Live

LEMMA NoNew == {} \in SUBSET Urids
OBVIOUS

LEMMA MakeValueStep ==
  ASSUME IInv, NEW u \in Urids, NEW isFunction \in BOOLEAN, MakeValue(u, isFunction)
  PROVE  IInv'
<1> DEFINE b == [kind |-> "val", vals |-> {ArrayProto}, list |-> Nil, last |-> Nil,
                 next |-> IF isFunction THEN Top.env ELSE Nil]
<1>1. u \in Urids \ Live /\ heap' = NewBlock(heap, u, b)
  BY DEF MakeValue
<1>2. b \in Block /\ Refs(b) \subseteq Live
  <2>1. Live \subseteq Urids
    BY DEF IInv, TypeOK, Live
  <2>2. Top.env \in Live /\ ArrayProto \in Live
    BY RootsLive, AnchorLive
  <2> QED
    BY <2>1, <2>2 DEF Block, OrNil, Refs
<1>3. /\ DOMAIN heap' = Live \cup {u} /\ heap' \in [Live \cup {u} -> Block]
      /\ \A x \in Live \cup {u} : Refs(heap'[x]) \subseteq Live \cup {u}
      /\ heap'[GlobalEnv].kind = heap[GlobalEnv].kind
      /\ heap'[GlobalEnv].list = heap[GlobalEnv].list
      /\ heap'[ArrayVar].vals = heap[ArrayVar].vals
  BY <1>1, <1>2, NewBlockStep
<1>4. {u} \in SUBSET Urids /\ Keep(u) /\ u \in Live \cup {u}
  BY DEF MakeValue
<1>5. /\ frames' \in Seq(Frame) /\ Len(frames') \in 1 .. MaxFrames
      /\ \A i \in 1 .. Len(frames') : /\ frames'[i].env \in Live \cup {u}
                                      /\ frames'[i].vals \subseteq Live \cup {u}
      /\ frames'[1].env = frames[1].env
  BY <1>4, KeepStep
<1>6. /\ external' \subseteq Live \cup {u}
      /\ marked' \subseteq Urids /\ pending' \subseteq Urids /\ phase' = "run"
  BY RootsLive DEF MakeValue, IInv, TypeOK, Running
<1> QED
  BY <1>3, <1>4, <1>5, <1>6, ProgramStep

(* Steps that add a link to a list.                                        *)
LEMMA AppendingStep ==
  ASSUME IInv, Running, NEW o \in Live, NEW l \in Urids \ Live, NEW vs \in SUBSET Live,
         heap' = AppendLink(heap, o, l, vs), marked' = marked \cup {l},
         UNCHANGED <<frames, external, phase, pending>>
  PROVE  IInv'
<1>1. {l} \in SUBSET Urids
  OBVIOUS
<1>2. /\ DOMAIN heap' = Live \cup {l} /\ heap' \in [Live \cup {l} -> Block]
      /\ \A x \in Live \cup {l} : Refs(heap'[x]) \subseteq Live \cup {l}
      /\ heap'[GlobalEnv].kind = heap[GlobalEnv].kind
      /\ heap'[GlobalEnv].list = heap[GlobalEnv].list
      /\ heap'[ArrayVar].vals = heap[ArrayVar].vals
  BY AppendStep
<1>3. /\ frames' \in Seq(Frame) /\ Len(frames') \in 1 .. MaxFrames
      /\ \A i \in 1 .. Len(frames') : /\ frames'[i].env \in Live \cup {l}
                                      /\ frames'[i].vals \subseteq Live \cup {l}
      /\ frames'[1].env = frames[1].env
  BY <1>1, FramesStay
<1>4. /\ external' \subseteq Live \cup {l}
      /\ marked' \subseteq Urids /\ pending' \subseteq Urids /\ phase' = "run"
  BY RootsLive DEF IInv, TypeOK, Running
<1> QED
  BY <1>1, <1>2, <1>3, <1>4, ProgramStep

LEMMA SetPropertyStep ==
  ASSUME IInv, NEW o \in Urids, NEW l \in Urids, NEW key \in Urids, NEW value \in Urids,
         SetProperty(o, l, key, value)
  PROVE  IInv'
<1>1. o \in Live /\ {key, value} \in SUBSET Live /\ l \in Urids \ Live
  BY RootsLive DEF SetProperty
<1> QED
  BY <1>1, AppendingStep DEF SetProperty

LEMMA DeclareVariableStep ==
  ASSUME IInv, NEW l \in Urids, NEW value \in Urids, DeclareVariable(l, value)
  PROVE  IInv'
<1>1. Top.env \in Live /\ {value} \in SUBSET Live /\ l \in Urids \ Live
  BY RootsLive DEF DeclareVariable
<1> QED
  BY <1>1, AppendingStep DEF DeclareVariable

(* Steps that read a live value into a register.                           *)
LEMMA ReadingStep ==
  ASSUME IInv, Running, NEW value \in Live, Keep(value),
         UNCHANGED <<heap, marked, external, phase, pending>>
  PROVE  IInv'
<1>1. /\ DOMAIN heap' = Live \cup {} /\ heap' \in [Live \cup {} -> Block]
      /\ \A x \in Live \cup {} : Refs(heap'[x]) \subseteq Live \cup {}
      /\ heap'[GlobalEnv].kind = heap[GlobalEnv].kind
      /\ heap'[GlobalEnv].list = heap[GlobalEnv].list
      /\ heap'[ArrayVar].vals = heap[ArrayVar].vals
  BY HeapStays
<1>2. value \in Live \cup {}
  OBVIOUS
<1>3. /\ frames' \in Seq(Frame) /\ Len(frames') \in 1 .. MaxFrames
      /\ \A i \in 1 .. Len(frames') : /\ frames'[i].env \in Live \cup {}
                                      /\ frames'[i].vals \subseteq Live \cup {}
      /\ frames'[1].env = frames[1].env
  BY <1>2, NoNew, KeepStep
<1>4. /\ external' \subseteq Live \cup {}
      /\ marked' \subseteq Urids /\ pending' \subseteq Urids /\ phase' = "run"
  BY RootsLive DEF IInv, TypeOK, Running
<1> QED
  BY <1>1, <1>3, <1>4, NoNew, ProgramStep

LEMMA GetPropertyStep ==
  ASSUME IInv, NEW o \in Urids, NEW value \in Urids, GetProperty(o, value)
  PROVE  IInv'
<1>1. o \in Live
  BY RootsLive DEF GetProperty
<1>2. heap[o].vals \subseteq Live /\ \A l \in LinksOf(o) : heap[l].vals \subseteq Live
  BY <1>1, RefsLive, ChainsLive
<1>3. value \in Live
  BY <1>2 DEF GetProperty
<1> QED
  BY <1>3, ReadingStep DEF GetProperty

LEMMA LoadVariableStep ==
  ASSUME IInv, NEW l \in Urids, NEW value \in Urids, LoadVariable(l, value)
  PROVE  IInv'
<1>1. l \in Live
  BY ChainsLive DEF LoadVariable
<1>2. value \in Live
  BY <1>1, RefsLive DEF LoadVariable
<1> QED
  BY <1>2, ReadingStep DEF LoadVariable

LEMMA ShiftItemHeap ==
  ASSUME IInv, NEW o \in Urids, NEW value \in Urids, ShiftItem(o, value)
  PROVE  /\ DOMAIN heap' = Live \cup {} /\ heap' \in [Live \cup {} -> Block]
         /\ \A x \in Live \cup {} : Refs(heap'[x]) \subseteq Live \cup {}
         /\ heap'[GlobalEnv].kind = heap[GlobalEnv].kind
         /\ heap'[GlobalEnv].list = heap[GlobalEnv].list
         /\ heap'[ArrayVar].vals = heap[ArrayVar].vals
         /\ value \in Live
<1> DEFINE rest == heap[heap[o].list].next
           b == [heap[o] EXCEPT !.list = rest, !.last = IF rest = Nil THEN Nil ELSE @]
<1>1. o \in Live /\ heap[o] \in Block
  BY RootsLive, RefsLive DEF ShiftItem
<1>2. heap[o].list \in Live
  BY <1>1, RefsLive DEF ShiftItem
<1>3. rest = Nil \/ rest \in Live
  BY <1>2, RefsLive
<1>4. value \in Live
  BY <1>2, RefsLive DEF ShiftItem
<1>5. b \in Block /\ b.vals = heap[o].vals /\ b.list = rest /\ b.next = heap[o].next
      /\ b.kind = heap[o].kind
  <2>1. rest \in OrNil
    BY <1>3 DEF OrNil, IInv, TypeOK, Live
  <2> HIDE DEF rest
  <2> QED
    BY <1>1, <2>1 DEF Block, OrNil
<1>6. Refs(b) \subseteq Live
  BY <1>1, <1>3, <1>5, RefsLive DEF Refs
<1>7. heap' = [heap EXCEPT ![o] = b]
  <2>1. heap' = [heap EXCEPT ![o].list = rest, ![o].last = IF rest = Nil THEN Nil ELSE @]
    BY DEF ShiftItem
  <2>2. heap = [x \in Live |-> heap[x]]
    BY DEF IInv, TypeOK, Live
  <2> HIDE DEF rest
  <2> QED
    BY <1>1, <2>1, <2>2
<1>8. heap[o].kind # "env"
  BY DEF ShiftItem
<1>9. /\ DOMAIN heap' = Live \cup {} /\ heap' \in [Live \cup {} -> Block]
      /\ \A x \in Live \cup {} : Refs(heap'[x]) \subseteq Live \cup {}
      /\ heap'[GlobalEnv].kind = heap[GlobalEnv].kind
      /\ heap'[GlobalEnv].list = heap[GlobalEnv].list
      /\ heap'[ArrayVar].vals = heap[ArrayVar].vals
  BY <1>1, <1>5, <1>6, <1>7, <1>8, AnchorLive, UpdateStep
<1> QED
  BY <1>4, <1>9

LEMMA ShiftItemStep ==
  ASSUME IInv, NEW o \in Urids, NEW value \in Urids, ShiftItem(o, value)
  PROVE  IInv'
<1>1. /\ DOMAIN heap' = Live \cup {} /\ heap' \in [Live \cup {} -> Block]
      /\ \A x \in Live \cup {} : Refs(heap'[x]) \subseteq Live \cup {}
      /\ heap'[GlobalEnv].kind = heap[GlobalEnv].kind
      /\ heap'[GlobalEnv].list = heap[GlobalEnv].list
      /\ heap'[ArrayVar].vals = heap[ArrayVar].vals
      /\ value \in Live
  BY ShiftItemHeap
<1>2. value \in Live \cup {} /\ Keep(value)
  BY <1>1 DEF ShiftItem
<1>3. /\ frames' \in Seq(Frame) /\ Len(frames') \in 1 .. MaxFrames
      /\ \A i \in 1 .. Len(frames') : /\ frames'[i].env \in Live \cup {}
                                      /\ frames'[i].vals \subseteq Live \cup {}
      /\ frames'[1].env = frames[1].env
  BY <1>2, NoNew, KeepStep
<1>4. /\ external' \subseteq Live \cup {}
      /\ marked' \subseteq Urids /\ pending' \subseteq Urids /\ phase' = "run"
  BY RootsLive DEF ShiftItem, IInv, TypeOK, Running
<1> QED
  BY <1>1, <1>3, <1>4, NoNew, ProgramStep

LEMMA StoreVariableStep ==
  ASSUME ~Reassign, IInv, NEW l \in Urids, NEW vs \in SUBSET Urids, StoreVariable(l, vs)
  PROVE  IInv'
<1> DEFINE b == [heap[l] EXCEPT !.vals = vs]
<1>1. l \in Live /\ heap[l] \in Block /\ vs \subseteq Live /\ l # ArrayVar
  BY ChainsLive, RootsLive, RefsLive DEF StoreVariable
<1>2. b \in Block /\ b.vals = vs /\ b.list = heap[l].list /\ b.next = heap[l].next
      /\ b.kind = heap[l].kind
  BY <1>1 DEF Block
<1>3. Refs(b) \subseteq Live
  BY <1>1, <1>2, RefsLive DEF Refs
<1>4. heap' = [heap EXCEPT ![l] = b]
  BY <1>1 DEF StoreVariable
<1>5. /\ DOMAIN heap' = Live \cup {} /\ heap' \in [Live \cup {} -> Block]
      /\ \A x \in Live \cup {} : Refs(heap'[x]) \subseteq Live \cup {}
      /\ heap'[GlobalEnv].kind = heap[GlobalEnv].kind
      /\ heap'[GlobalEnv].list = heap[GlobalEnv].list
      /\ heap'[ArrayVar].vals = heap[ArrayVar].vals
  BY <1>1, <1>2, <1>3, <1>4, UpdateStep
<1>6. /\ frames' \in Seq(Frame) /\ Len(frames') \in 1 .. MaxFrames
      /\ \A i \in 1 .. Len(frames') : /\ frames'[i].env \in Live \cup {}
                                      /\ frames'[i].vals \subseteq Live \cup {}
      /\ frames'[1].env = frames[1].env
  BY NoNew, FramesStay DEF StoreVariable
<1>7. /\ external' \subseteq Live \cup {}
      /\ marked' \subseteq Urids /\ pending' \subseteq Urids /\ phase' = "run"
  BY RootsLive DEF StoreVariable, IInv, TypeOK, Running
<1> QED
  BY <1>5, <1>6, <1>7, NoNew, ProgramStep

LEMMA CallStep ==
  ASSUME IInv, NEW f \in Urids, NEW e \in Urids, NEW args \in SUBSET Urids, Call(f, e, args)
  PROVE  IInv'
<1> DEFINE b == [kind |-> "env", vals |-> {}, list |-> Nil, last |-> Nil, next |-> heap[f].next]
<1>1. f \in Live /\ args \subseteq Live /\ e \in Urids \ Live /\ {e} \in SUBSET Urids
  BY RootsLive DEF Call
<1>2. heap[f].next \in Live
  BY <1>1, RefsLive DEF Call
<1>3. b \in Block /\ Refs(b) \subseteq Live
  BY <1>2 DEF Block, OrNil, Refs, IInv, TypeOK, Live
<1>4. heap' = NewBlock(heap, e, b)
  BY DEF Call
<1>5. /\ DOMAIN heap' = Live \cup {e} /\ heap' \in [Live \cup {e} -> Block]
      /\ \A x \in Live \cup {e} : Refs(heap'[x]) \subseteq Live \cup {e}
      /\ heap'[GlobalEnv].kind = heap[GlobalEnv].kind
      /\ heap'[GlobalEnv].list = heap[GlobalEnv].list
      /\ heap'[ArrayVar].vals = heap[ArrayVar].vals
  BY <1>1, <1>3, <1>4, NewBlockStep
<1>6. /\ frames' \in Seq(Frame) /\ Len(frames') = Len(frames) + 1
      /\ \A i \in 1 .. Len(frames) : frames'[i] = frames[i]
      /\ frames'[Len(frames) + 1] = [env |-> e, vals |-> args \cup {f}]
      /\ Len(frames') <= MaxFrames
  BY CallFacts DEF IInv
<1>7. Len(frames) \in Nat \ {0} /\ MaxFrames \in Nat
  BY FramesType, GcAssumption DEF IInv
<1>8. /\ frames' \in Seq(Frame) /\ Len(frames') \in 1 .. MaxFrames
      /\ \A i \in 1 .. Len(frames') : /\ frames'[i].env \in Live \cup {e}
                                      /\ frames'[i].vals \subseteq Live \cup {e}
      /\ frames'[1].env = frames[1].env
  <2>1. \A i \in 1 .. Len(frames') : i \in 1 .. Len(frames) \/ i = Len(frames) + 1
    BY <1>6, <1>7
  <2>2. 1 \in 1 .. Len(frames) /\ Len(frames') \in 1 .. MaxFrames
    BY <1>6, <1>7
  <2> QED
    BY <1>1, <1>6, <2>1, <2>2, RootsLive
<1>9. /\ external' \subseteq Live \cup {e}
      /\ marked' \subseteq Urids /\ pending' \subseteq Urids /\ phase' = "run"
  BY RootsLive DEF Call, IInv, TypeOK, Running
<1> QED
  BY <1>1, <1>5, <1>8, <1>9, ProgramStep

LEMMA ReturnStep ==
  ASSUME IInv, NEW v \in Urids, Return(v)
  PROVE  IInv'
<1>1. /\ DOMAIN heap' = Live \cup {} /\ heap' \in [Live \cup {} -> Block]
      /\ \A x \in Live \cup {} : Refs(heap'[x]) \subseteq Live \cup {}
      /\ heap'[GlobalEnv].kind = heap[GlobalEnv].kind
      /\ heap'[GlobalEnv].list = heap[GlobalEnv].list
      /\ heap'[ArrayVar].vals = heap[ArrayVar].vals
  BY HeapStays DEF Return
<1>2. /\ frames' \in Seq(Frame) /\ Len(frames') = Len(frames) - 1 /\ Len(frames') > 0
      /\ v \in frames[Len(frames)].vals
      /\ \A i \in 1 .. Len(frames') : frames'[i].env = frames[i].env
      /\ \A i \in 1 .. Len(frames') : frames'[i].vals \subseteq frames[i].vals \cup {v}
  BY ReturnFacts DEF IInv
<1>3. Len(frames) \in 1 .. MaxFrames /\ Len(frames) \in Nat /\ MaxFrames \in Nat
  BY FramesType, GcAssumption DEF IInv, TypeOK
<1>4. v \in Live
  BY <1>2, <1>3, RootsLive
<1>5. /\ frames' \in Seq(Frame) /\ Len(frames') \in 1 .. MaxFrames
      /\ \A i \in 1 .. Len(frames') : /\ frames'[i].env \in Live \cup {}
                                      /\ frames'[i].vals \subseteq Live \cup {}
      /\ frames'[1].env = frames[1].env
  <2>1. Len(frames') \in 1 .. MaxFrames /\ 1 \in 1 .. Len(frames')
    BY <1>2, <1>3
  <2>2. \A i \in 1 .. Len(frames') : i \in 1 .. Len(frames)
    BY <1>2, <1>3
  <2> QED
    BY <1>2, <1>4, <2>1, <2>2, RootsLive
<1>6. /\ external' \subseteq Live \cup {}
      /\ marked' \subseteq Urids /\ pending' \subseteq Urids /\ phase' = "run"
  BY RootsLive DEF Return, IInv, TypeOK, Running
<1> QED
  BY <1>1, <1>5, <1>6, NoNew, ProgramStep

LEMMA ExternalStep ==
  ASSUME IInv, NEW v \in Urids, RegisterExternal(v) \/ UnregisterExternal(v)
  PROVE  IInv'
<1>1. /\ DOMAIN heap' = Live \cup {} /\ heap' \in [Live \cup {} -> Block]
      /\ \A x \in Live \cup {} : Refs(heap'[x]) \subseteq Live \cup {}
      /\ heap'[GlobalEnv].kind = heap[GlobalEnv].kind
      /\ heap'[GlobalEnv].list = heap[GlobalEnv].list
      /\ heap'[ArrayVar].vals = heap[ArrayVar].vals
  BY HeapStays DEF RegisterExternal, UnregisterExternal
<1>2. /\ frames' \in Seq(Frame) /\ Len(frames') \in 1 .. MaxFrames
      /\ \A i \in 1 .. Len(frames') : /\ frames'[i].env \in Live \cup {}
                                      /\ frames'[i].vals \subseteq Live \cup {}
      /\ frames'[1].env = frames[1].env
  BY NoNew, FramesStay DEF RegisterExternal, UnregisterExternal
<1>3. /\ external' \subseteq Live \cup {}
      /\ marked' \subseteq Urids /\ pending' \subseteq Urids /\ phase' = "run"
  BY RootsLive DEF RegisterExternal, UnregisterExternal, IInv, TypeOK, Running
<1> QED
  BY <1>1, <1>2, <1>3, NoNew, ProgramStep

(***************************************************************************)
(* The steps of the collector.                                             *)
(***************************************************************************)
(* The least closed set: it has the live roots and, with a block, every    *)
(* live block that one refers to; and any set that does contains it.       *)
LEMMA ReachableClosed ==
  /\ Reachable \subseteq Live /\ Roots \cap Live \subseteq Reachable
  /\ \A m \in Reachable : Refs(heap[m]) \cap Live \subseteq Reachable
BY DEF Reachable

LEMMA ReachableLeast ==
  ASSUME NEW S \in SUBSET Live, Roots \cap Live \subseteq S,
         \A m \in S : Refs(heap[m]) \cap Live \subseteq S
  PROVE  Reachable \subseteq S
BY DEF Reachable

LEMMA StartGcStep ==
  ASSUME IInv, StartGc
  PROVE  IInv'
<1>1. Roots \subseteq Live /\ Live \subseteq Urids
  BY DEF IInv, NoDangling, TypeOK, Live
<1>2. heap' = heap /\ frames' = frames /\ external' = external
  BY DEF StartGc
<1>3. Roots' = Roots /\ Live' = Live /\ Reachable' = Reachable
  BY <1>2 DEF Roots, Live, Reachable
<1>4. marked' = {} /\ pending' = Roots /\ phase' = "mark"
  BY DEF StartGc
<1>5. TypeOK'
  BY <1>1, <1>2, <1>4 DEF IInv, TypeOK
<1>6. NoDangling' /\ Anchored'
  BY <1>2, <1>3 DEF IInv, NoDangling, Anchored
<1>7. Closed'
  BY <1>3, <1>4 DEF Closed
<1>8. Roots \subseteq Reachable
  BY <1>1, ReachableClosed
<1>9. Precise'
  BY <1>3, <1>4, <1>8 DEF Precise
<1> QED
  BY <1>5, <1>6, <1>7, <1>9 DEF IInv

LEMMA VisitStep ==
  ASSUME IInv, NEW u \in Urids, Visit(u)
  PROVE  IInv'
<1>1. u \in Live /\ u \in pending /\ phase = "mark" /\ phase' = "mark"
  BY DEF Visit
<1>2. heap' = heap /\ frames' = frames /\ external' = external
  BY DEF Visit
<1>3. Roots' = Roots /\ Live' = Live /\ Reachable' = Reachable
  BY <1>2 DEF Roots, Live, Reachable
<1>4. /\ marked' = marked \cup {u}
      /\ pending' \subseteq pending \cup Refs(heap[u])
      /\ marked \cup pending \subseteq marked' \cup pending'
      /\ u \notin marked => Refs(heap[u]) \subseteq marked' \cup pending'
  BY DEF Visit
<1>5. Refs(heap[u]) \subseteq Live /\ Live \subseteq Urids
  BY <1>1 DEF IInv, NoDangling, TypeOK, Live
<1>6. TypeOK'
  BY <1>1, <1>2, <1>4, <1>5 DEF IInv, TypeOK
<1>7. NoDangling' /\ Anchored'
  BY <1>2, <1>3 DEF IInv, NoDangling, Anchored
<1>8. Closed'
  <2>1. /\ Roots \subseteq marked \cup pending
        /\ \A x \in Live \cap marked : Refs(heap[x]) \subseteq marked \cup pending
    BY <1>1 DEF IInv, Closed
  <2>2. \A x \in Live \cap marked' : Refs(heap[x]) \subseteq marked' \cup pending'
    BY <1>4, <2>1
  <2>3. Roots' \subseteq marked' \cup pending'
    BY <1>3, <1>4, <2>1
  <2> QED
    BY <1>2, <1>3, <2>2, <2>3 DEF Closed
<1>9. Precise'
  <2>1. marked \cup pending \subseteq Reachable
    BY <1>1 DEF IInv, Precise
  <2>2. Refs(heap[u]) \subseteq Reachable
    BY <1>1, <1>5, <2>1, ReachableClosed
  <2> QED
    BY <1>1, <1>3, <1>4, <2>1, <2>2 DEF Precise
<1> QED
  BY <1>6, <1>7, <1>8, <1>9 DEF IInv

(* At the end of the marking, the marked blocks are the reachable ones.    *)
LEMMA MarkedIsReachable ==
  ASSUME IInv, phase = "mark", pending = {}
  PROVE  /\ Live \cap marked = Reachable
         /\ Roots \subseteq marked
         /\ \A x \in Live \cap marked : Refs(heap[x]) \subseteq Live \cap marked
<1>1. /\ Roots \subseteq marked
      /\ \A x \in Live \cap marked : Refs(heap[x]) \subseteq marked
  BY DEF IInv, Closed
<1>2. \A x \in Live \cap marked : Refs(heap[x]) \subseteq Live \cap marked
  BY <1>1 DEF IInv, NoDangling
<1>3. Reachable \subseteq Live \cap marked
  BY <1>1, <1>2, ReachableLeast
<1>4. marked \subseteq Reachable
  BY DEF IInv, Precise
<1> QED
  BY <1>1, <1>2, <1>3, <1>4

LEMMA SweepHeapStep ==
  ASSUME IInv, SweepHeap
  PROVE  IInv'
<1>1. /\ phase = "mark" /\ pending = {} /\ phase' = "run"
      /\ heap' = [u \in Live \cap marked |-> heap[u]]
      /\ UNCHANGED <<marked, frames, external, pending>>
  BY DEF SweepHeap
<1> DEFINE kept == Live \cap marked
<1>2. DOMAIN heap' = kept /\ \A u \in kept : heap'[u] = heap[u]
  BY <1>1
<1>3. Roots \subseteq marked /\ \A x \in kept : Refs(heap[x]) \subseteq kept
  BY <1>1, MarkedIsReachable
<1>4. Roots \subseteq kept /\ Roots' = Roots
  BY <1>1, <1>3 DEF IInv, NoDangling, Roots
<1>5. TypeOK'
  <2>1. heap' \in [kept -> Block] /\ kept \subseteq Urids
    BY <1>1 DEF IInv, TypeOK, Live
  <2> QED
    BY <1>1, <1>2, <2>1 DEF IInv, TypeOK
<1>6. {GlobalEnv, ArrayVar, ArrayProto} \subseteq kept
  <2>1. 1 \in 1 .. Len(frames) /\ DOMAIN frames = 1 .. Len(frames)
    BY FramesType DEF IInv
  <2>2. GlobalEnv \in Roots
    BY <2>1 DEF IInv, Anchored, Roots
  <2>3. GlobalEnv \in kept
    BY <1>4, <2>2
  <2>4. ArrayVar \in Refs(heap[GlobalEnv])
    BY AnchorLive, GcAssumption DEF Refs
  <2>5. ArrayVar \in kept
    BY <1>3, <2>3, <2>4
  <2>6. ArrayProto \in Refs(heap[ArrayVar])
    BY AnchorLive DEF Refs
  <2> QED
    BY <1>3, <2>3, <2>5, <2>6
<1>7. NoDangling'
  BY <1>2, <1>3, <1>4, <1>6 DEF NoDangling, Live
<1>8. Anchored'
  BY <1>1, <1>2, <1>6 DEF IInv, Anchored
<1>9. Closed' /\ Precise'
  BY <1>1 DEF Closed, Precise
<1> QED
  BY <1>5, <1>7, <1>8, <1>9 DEF IInv

(***************************************************************************)
(* The theorems.  They are about programs that do not assign to the        *)
(* variable "Array": for one that does, TLC finds the prototype collected. *)
(***************************************************************************)
LEMMA InitInvariant == Init => IInv
<1> SUFFICES ASSUME Init PROVE IInv
  OBVIOUS
<1> DEFINE live == {GlobalEnv, ArrayVar, ArrayProto}
           env == [kind |-> "env", vals |-> {}, list |-> ArrayVar, last |-> ArrayVar, next |-> Nil]
           var == Link({ArrayProto})
           proto == [kind |-> "val", vals |-> {}, list |-> Nil, last |-> Nil, next |-> Nil]
<1>1. /\ live \subseteq Urids /\ MaxFrames \in Nat \ {0} /\ Nil \notin Urids
      /\ GlobalEnv # ArrayVar /\ GlobalEnv # ArrayProto /\ ArrayVar # ArrayProto
  BY GcAssumption
<1>2. /\ env \in Block /\ Refs(env) = {ArrayVar}
      /\ var \in Block /\ Refs(var) = {ArrayProto} /\ ArrayProto \in var.vals
      /\ proto \in Block /\ Refs(proto) = {}
      /\ env.kind = "env" /\ env.list = ArrayVar
  BY <1>1 DEF Block, OrNil, Link, Refs
<1>3. heap = [u \in live |-> CASE u = GlobalEnv -> env [] u = ArrayVar -> var [] OTHER -> proto]
  BY DEF Init
<1> HIDE DEF env, var, proto
<1>4. /\ DOMAIN heap = live
      /\ heap[GlobalEnv] = env /\ heap[ArrayVar] = var /\ heap[ArrayProto] = proto
  BY <1>1, <1>3
<1>5. \A u \in live : heap[u] \in Block /\ Refs(heap[u]) \subseteq live
  BY <1>2, <1>4
<1>6. heap = [u \in live |-> heap[u]]
  BY <1>3
<1>7. heap \in [live -> Block]
  BY <1>5, <1>6
<1> DEFINE first == [env |-> GlobalEnv, vals |-> {}]
<1>8. frames = <<first>> /\ external = {} /\ phase = "run" /\ pending = {} /\ marked = live
  BY DEF Init
<1>9. first \in Frame /\ first.env = GlobalEnv /\ first.vals = {}
  BY <1>1 DEF Frame
<1> HIDE DEF first
<1>10. frames \in Seq(Frame) /\ Len(frames) = 1 /\ frames[1] = first /\ DOMAIN frames = {1}
  BY <1>8, <1>9
<1>11. TypeOK
  BY <1>1, <1>4, <1>7, <1>8, <1>10 DEF TypeOK
<1>12. Roots = {GlobalEnv}
  BY <1>8, <1>9, <1>10 DEF Roots
<1>13. NoDangling
  BY <1>4, <1>5, <1>12 DEF NoDangling, Live
<1>14. Anchored
  BY <1>2, <1>4, <1>9, <1>10 DEF Anchored
<1>15. Closed /\ Precise
  BY <1>8 DEF Closed, Precise
<1> QED
  BY <1>11, <1>13, <1>14, <1>15 DEF IInv

LEMMA StepInvariant == ~Reassign /\ IInv /\ [Next]_vars => IInv'
<1> SUFFICES ASSUME ~Reassign, IInv, [Next]_vars PROVE IInv'
  OBVIOUS
<1>1. CASE Step
  <2>1. CASE \E u \in Urids, isFunction \in BOOLEAN : MakeValue(u, isFunction)
    BY <2>1, MakeValueStep
  <2>2. CASE \E o, l, key, value \in Urids : SetProperty(o, l, key, value)
    BY <2>2, SetPropertyStep
  <2>3. CASE \E o, value \in Urids : ShiftItem(o, value) \/ GetProperty(o, value)
    BY <2>3, ShiftItemStep, GetPropertyStep
  <2>4. CASE \E l, value \in Urids : DeclareVariable(l, value) \/ LoadVariable(l, value)
    BY <2>4, DeclareVariableStep, LoadVariableStep
  <2>5. CASE \E l \in Urids, vs \in SUBSET Urids : StoreVariable(l, vs)
    BY <2>5, StoreVariableStep
  <2>6. CASE \E f, e \in Urids, args \in SUBSET Urids : Call(f, e, args)
    BY <2>6, CallStep
  <2>7. CASE \E v \in Urids : Return(v) \/ RegisterExternal(v) \/ UnregisterExternal(v)
    BY <2>7, ReturnStep, ExternalStep
  <2> QED
    BY <1>1, <2>1, <2>2, <2>3, <2>4, <2>5, <2>6, <2>7 DEF Step
<1>2. CASE StartGc
  BY <1>2, StartGcStep
<1>3. CASE Collect
  BY <1>3, VisitStep, SweepHeapStep DEF Collect
<1>4. CASE UNCHANGED vars
  BY <1>4 DEF vars, IInv, TypeOK, NoDangling, Anchored, Closed, Precise, Roots, Live, Reachable
<1> QED
  BY <1>1, <1>2, <1>3, <1>4 DEF Next

(* Every state is well typed, whatever the program does and however often  *)
(* the collector runs.                                                     *)
THEOREM TypeCorrect == ~Reassign => (Spec => []TypeOK)
<1> SUFFICES ASSUME ~Reassign PROVE Spec => []TypeOK
  OBVIOUS
<1>1. IInv /\ [Next]_vars => IInv'
  BY StepInvariant
<1>2. IInv => TypeOK
  BY DEF IInv
<1> QED
  BY <1>1, <1>2, InitInvariant, PTL DEF Spec

(* The collector never takes away a block the program can still use: each  *)
(* root, each block a live one refers to and the prototype new values get  *)
(* are live at all times.                                                  *)
THEOREM NothingDangles == ~Reassign => (Spec => []NoDangling)
<1> SUFFICES ASSUME ~Reassign PROVE Spec => []NoDangling
  OBVIOUS
<1>1. IInv /\ [Next]_vars => IInv'
  BY StepInvariant
<1>2. IInv => NoDangling
  BY DEF IInv
<1> QED
  BY <1>1, <1>2, InitInvariant, PTL DEF Spec

(* A collection leaves the reachable blocks, untouched, and no other.      *)
THEOREM SweepIsExact == ~Reassign => (Spec => SweepExact)
<1> SUFFICES ASSUME ~Reassign PROVE Spec => SweepExact
  OBVIOUS
<1> DEFINE Exact == phase = "mark" /\ phase' = "run" => heap' = [u \in Reachable |-> heap[u]]
<1>1. IInv /\ [Next]_vars => [Exact]_vars
  <2> SUFFICES ASSUME IInv, Next, phase = "mark", phase' = "run"
               PROVE  heap' = [u \in Reachable |-> heap[u]]
    OBVIOUS
  <2>1. CASE SweepHeap
    BY <2>1, MarkedIsReachable DEF SweepHeap
  <2>2. CASE \E u \in Urids : Visit(u)
    BY <2>2 DEF Visit
  <2>3. ~Step /\ ~StartGc
    BY DEF Step, StartGc, Running, MakeValue, SetProperty, ShiftItem, GetProperty, DeclareVariable,
           LoadVariable, StoreVariable, Call, Return, RegisterExternal, UnregisterExternal
  <2> QED
    BY <2>1, <2>2, <2>3 DEF Next, Collect
<1>2. IInv /\ [Next]_vars => IInv'
  BY StepInvariant
<1> QED
  BY <1>1, <1>2, InitInvariant, PTL DEF Spec, SweepExact

(***************************************************************************)
(* The lists of links.  Each block has a sequence of links, empty for one  *)
(* that has none, and no link is in two of them.  A heap is a parameter of *)
(* what follows, since the lemmas compare two of them.                     *)
(***************************************************************************)
ListOf(h, s, o) ==
  /\ s \in Seq(DOMAIN h) /\ Distinct(s)
  /\ h[o].list = IF Len(s) = 0 THEN Nil ELSE s[1]
  /\ h[o].last = IF Len(s) = 0 THEN Nil ELSE s[Len(s)]
  /\ \A i \in 1 .. Len(s) : h[s[i]].next = IF i < Len(s) THEN s[i + 1] ELSE Nil

Apart(s, t) == \A i \in 1 .. Len(s), j \in 1 .. Len(t) : s[i] # t[j]

Lists(h, lists) ==
  /\ \A o \in DOMAIN h : ListOf(h, lists[o], o)
  /\ \A o, q \in DOMAIN h : o # q => Apart(lists[o], lists[q])

ListInv == IInv /\ IsFiniteSet(Live) /\ \E lists : Lists(heap, lists)

LEMMA ListFacts ==
  ASSUME NEW h, Nil \notin DOMAIN h, NEW s, NEW o, ListOf(h, s, o)
  PROVE  /\ s \in Seq(DOMAIN h) /\ Len(s) \in Nat
         /\ \A i \in 1 .. Len(s) : s[i] \in DOMAIN h /\ s[i] # Nil
         /\ h[o].list = Nil <=> Len(s) = 0
<1>1. s \in Seq(DOMAIN h) /\ Len(s) \in Nat
  BY LenProperties DEF ListOf
<1>2. \A i \in 1 .. Len(s) : s[i] \in DOMAIN h /\ s[i] # Nil
  BY <1>1, ElementOfSeq
<1>3. Len(s) # 0 => s[1] # Nil
  <2>1. Len(s) # 0 => 1 \in 1 .. Len(s)
    BY <1>1
  <2> QED
    BY <1>2, <2>1
<1> QED
  BY <1>1, <1>2, <1>3 DEF ListOf

(* A list of the heap is one of another heap that has its links unchanged. *)
LEMMA ListKept ==
  ASSUME NEW h, NEW k, NEW s, NEW o, ListOf(h, s, o), Nil \notin DOMAIN h,
         k[o].list = h[o].list, k[o].last = h[o].last,
         \A i \in 1 .. Len(s) : s[i] \in DOMAIN k /\ k[s[i]].next = h[s[i]].next
  PROVE  ListOf(k, s, o)
<1>1. s \in Seq(DOMAIN h) /\ Len(s) \in Nat
  BY ListFacts
<1>2. s \in Seq(DOMAIN k)
  <2>1. s = [i \in 1 .. Len(s) |-> s[i]]
    BY <1>1, LenProperties
  <2>2. s \in [1 .. Len(s) -> DOMAIN k]
    BY <2>1
  <2> QED
    BY <1>1, <2>2, SeqDef
<1> QED
  BY <1>2 DEF ListOf

LEMMA EmptyListOf ==
  ASSUME NEW k, NEW o, k[o].list = Nil, k[o].last = Nil
  PROVE  ListOf(k, <<>>, o)
BY DEF ListOf, Distinct

(* New blocks begin with empty lists.                                      *)
LEMMA ListsGrow ==
  ASSUME NEW h, Nil \notin DOMAIN h, NEW lists, Lists(h, lists),
         NEW k, NEW new, DOMAIN k = DOMAIN h \cup new, new \cap DOMAIN h = {},
         \A x \in DOMAIN h : /\ k[x].list = h[x].list /\ k[x].last = h[x].last
                             /\ k[x].next = h[x].next,
         \A x \in new : k[x].list = Nil /\ k[x].last = Nil
  PROVE  \E later : Lists(k, later)
<1> DEFINE later == [x \in DOMAIN k |-> IF x \in new THEN <<>> ELSE lists[x]]
<1>1. ASSUME NEW o \in DOMAIN k PROVE ListOf(k, later[o], o)
  <2>1. CASE o \in new
    BY <2>1, EmptyListOf
  <2>2. CASE o \notin new
    <3>1. o \in DOMAIN h /\ later[o] = lists[o] /\ ListOf(h, lists[o], o)
      BY <2>2 DEF Lists
    <3>2. \A i \in 1 .. Len(lists[o]) : lists[o][i] \in DOMAIN h
      BY <3>1, ListFacts
    <3> QED
      BY <3>1, <3>2, ListKept
  <2> QED
    BY <2>1, <2>2
<1>2. ASSUME NEW o \in DOMAIN k, NEW q \in DOMAIN k, o # q PROVE Apart(later[o], later[q])
  <2>1. CASE o \in new \/ q \in new
    <3>1. Len(<<>>) = 0 /\ (later[o] = <<>> \/ later[q] = <<>>)
      BY <2>1
    <3> QED
      BY <3>1 DEF Apart
  <2>2. CASE ~(o \in new \/ q \in new)
    BY <1>2, <2>2 DEF Lists
  <2> QED
    BY <2>1, <2>2
<1> QED
  BY <1>1, <1>2 DEF Lists

(* A link is appended to the list of o.                                    *)
Appended(h, k, o, l) ==
  /\ DOMAIN k = DOMAIN h \cup {l}
  /\ k[l].list = Nil /\ k[l].last = Nil /\ k[l].next = Nil
  /\ \A x \in DOMAIN h :
       /\ k[x].list = IF x = o /\ h[x].list = Nil THEN l ELSE h[x].list
       /\ k[x].last = IF x = o THEN l ELSE h[x].last
       /\ k[x].next = IF h[o].list # Nil /\ x = h[o].last THEN l ELSE h[x].next

LEMMA AppendedTo ==
  ASSUME NEW h, Nil \notin DOMAIN h, NEW o \in DOMAIN h, NEW l, l \notin DOMAIN h, l # Nil,
         NEW k, Appended(h, k, o, l), NEW s, ListOf(h, s, o)
  PROVE  ListOf(k, Append(s, l), o)
<1> PICK n : n = Len(s)
  OBVIOUS
<1>1. /\ s \in Seq(DOMAIN h) /\ n \in Nat
      /\ \A i \in 1 .. n : s[i] \in DOMAIN h /\ s[i] # Nil
      /\ h[o].list = Nil <=> n = 0
  BY ListFacts
<1> PICK t : t = Append(s, l)
  OBVIOUS
<1>2. DOMAIN k = DOMAIN h \cup {l}
  BY DEF Appended
<1>3. /\ t \in Seq(DOMAIN k) /\ Len(t) = n + 1
      /\ \A i \in 1 .. n : t[i] = s[i]
      /\ t[n + 1] = l
  <2>1. s \in Seq(DOMAIN k) /\ l \in DOMAIN k
    BY <1>1, <1>2, SeqMonotonic
  <2> QED
    BY <2>1, AppendProperties
<1>4. Distinct(t)
  <2> SUFFICES ASSUME NEW i \in 1 .. n + 1, NEW j \in 1 .. n + 1, t[i] = t[j] PROVE i = j
    BY <1>3 DEF Distinct
  <2>1. CASE i # n + 1 /\ j # n + 1
    <3>1. i \in 1 .. n /\ j \in 1 .. n
      BY <1>1, <2>1
    <3> QED
      BY <1>3, <3>1 DEF ListOf, Distinct
  <2>2. CASE i # n + 1 /\ j = n + 1
    <3>1. i \in 1 .. n
      BY <1>1, <2>2
    <3> QED
      BY <1>1, <1>3, <2>2, <3>1
  <2>3. CASE i = n + 1 /\ j # n + 1
    <3>1. j \in 1 .. n
      BY <1>1, <2>3
    <3> QED
      BY <1>1, <1>3, <2>3, <3>1
  <2> QED
    BY <2>1, <2>2, <2>3
<1>5. k[o].list = t[1]
  <2>1. k[o].list = IF h[o].list = Nil THEN l ELSE h[o].list
    BY DEF Appended
  <2>2. CASE n = 0
    BY <1>1, <1>3, <2>1, <2>2
  <2>3. CASE n # 0
    <3>1. 1 \in 1 .. n /\ h[o].list = s[1]
      BY <1>1, <2>3 DEF ListOf
    <3> QED
      BY <1>1, <1>3, <2>1, <2>3, <3>1
  <2> QED
    BY <2>2, <2>3
<1>6. k[o].last = l
  BY DEF Appended
<1>7. ASSUME NEW i \in 1 .. n + 1 PROVE k[t[i]].next = IF i < n + 1 THEN t[i + 1] ELSE Nil
  <2>1. CASE i = n + 1
    BY <1>1, <1>3, <2>1 DEF Appended
  <2>2. CASE i = n
    <3>1. i \in 1 .. n /\ i + 1 = n + 1 /\ n # 0
      BY <1>1, <2>2
    <3>2. s[i] = h[o].last /\ h[o].list # Nil /\ s[i] \in DOMAIN h
      BY <1>1, <2>2, <3>1 DEF ListOf
    <3>3. k[s[i]].next = l
      BY <3>2 DEF Appended
    <3> QED
      BY <1>1, <1>3, <2>2, <3>1, <3>3
  <2>3. CASE i # n /\ i # n + 1
    <3>1. i \in 1 .. n /\ n \in 1 .. n /\ i < n /\ n # 0 /\ i + 1 \in 1 .. n
      BY <1>1, <2>3
    <3>2. s[i] # s[n]
      BY <3>1 DEF ListOf, Distinct
    <3>3. h[o].last = s[n] /\ h[s[i]].next = s[i + 1] /\ s[i] \in DOMAIN h
      BY <1>1, <3>1 DEF ListOf
    <3>4. k[s[i]].next = s[i + 1]
      BY <3>2, <3>3 DEF Appended
    <3> QED
      BY <1>1, <1>3, <3>1, <3>4
  <2> QED
    BY <2>1, <2>2, <2>3
<1>8. Len(t) # 0 /\ t[Len(t)] = l
  BY <1>1, <1>3
<1> QED
  BY <1>3, <1>4, <1>5, <1>6, <1>7, <1>8 DEF ListOf

LEMMA ListsAppend ==
  ASSUME NEW h, Nil \notin DOMAIN h, NEW lists, Lists(h, lists),
         NEW o \in DOMAIN h, NEW l, l \notin DOMAIN h, l # Nil, NEW k, Appended(h, k, o, l)
  PROVE  \E later : Lists(k, later)
<1> PICK t : t = Append(lists[o], l)
  OBVIOUS
<1> DEFINE later == [x \in DOMAIN k |-> IF x = l THEN <<>> ELSE IF x = o THEN t ELSE lists[x]]
<1>1. /\ DOMAIN k = DOMAIN h \cup {l} /\ o # l
      /\ \A x \in DOMAIN h : ListOf(h, lists[x], x)
  BY DEF Appended, Lists
<1>2. /\ later[l] = <<>> /\ later[o] = t
      /\ \A x \in DOMAIN h : x # o => later[x] = lists[x]
  BY <1>1
<1> HIDE DEF later
<1>3. ListOf(k, t, o)
  BY <1>1, AppendedTo
<1>4. /\ Len(lists[o]) \in Nat /\ Len(t) = Len(lists[o]) + 1
      /\ \A i \in 1 .. Len(lists[o]) : t[i] = lists[o][i]
      /\ t[Len(lists[o]) + 1] = l
      /\ h[o].list = Nil <=> Len(lists[o]) = 0
      /\ \A i \in 1 .. Len(lists[o]) : lists[o][i] \in DOMAIN h
  <2>1. lists[o] \in Seq(DOMAIN h \cup {l})
    BY <1>1, ListFacts, SeqMonotonic
  <2>2. l \in DOMAIN h \cup {l}
    OBVIOUS
  <2>3. /\ Len(t) = Len(lists[o]) + 1
        /\ \A i \in 1 .. Len(lists[o]) : t[i] = lists[o][i]
        /\ t[Len(lists[o]) + 1] = l
    BY <2>1, <2>2, AppendProperties
  <2> QED
    BY <1>1, <2>3, ListFacts
<1>5. ASSUME NEW q \in DOMAIN h, q # o PROVE ListOf(k, lists[q], q)
  <2>1. ListOf(h, lists[q], q) /\ \A i \in 1 .. Len(lists[q]) : lists[q][i] \in DOMAIN h
    BY <1>1, ListFacts
  <2>2. Apart(lists[o], lists[q])
    BY <1>5 DEF Lists
  <2>3. ASSUME NEW i \in 1 .. Len(lists[q]), h[o].list # Nil PROVE lists[q][i] # h[o].last
    <3>1. Len(lists[o]) \in 1 .. Len(lists[o]) /\ h[o].last = lists[o][Len(lists[o])]
      BY <1>1, <1>4, <2>3 DEF ListOf
    <3> QED
      BY <2>2, <3>1 DEF Apart
  <2>4. \A i \in 1 .. Len(lists[q]) : lists[q][i] \in DOMAIN k /\ k[lists[q][i]].next = h[lists[q][i]].next
    BY <1>1, <2>1, <2>3 DEF Appended
  <2>5. k[q].list = h[q].list /\ k[q].last = h[q].last
    BY <1>5 DEF Appended
  <2> QED
    BY <2>1, <2>4, <2>5, ListKept
<1>6. ListOf(k, <<>>, l)
  BY EmptyListOf DEF Appended
<1>7. ASSUME NEW x \in DOMAIN k PROVE ListOf(k, later[x], x)
  BY <1>1, <1>2, <1>3, <1>5, <1>6
<1>8. ASSUME NEW q \in DOMAIN h, q # o PROVE Apart(t, lists[q]) /\ Apart(lists[q], t)
  <2>1. Apart(lists[o], lists[q])
    BY <1>8 DEF Lists
  <2>2. \A j \in 1 .. Len(lists[q]) : lists[q][j] \in DOMAIN h
    BY <1>1, ListFacts
  <2>3. ASSUME NEW i \in 1 .. Len(lists[o]) + 1, NEW j \in 1 .. Len(lists[q])
        PROVE  t[i] # lists[q][j]
    <3>1. CASE i = Len(lists[o]) + 1
      BY <1>4, <2>2, <3>1
    <3>2. CASE i # Len(lists[o]) + 1
      <4>1. i \in 1 .. Len(lists[o])
        BY <1>4, <3>2
      <4> QED
        BY <1>4, <2>1, <4>1 DEF Apart
    <3> QED
      BY <3>1, <3>2
  <2> QED
    BY <1>4, <2>3 DEF Apart
<1>9. ASSUME NEW x \in DOMAIN k, NEW q \in DOMAIN k, x # q PROVE Apart(later[x], later[q])
  <2>1. CASE x = l \/ q = l
    <3>1. Len(<<>>) = 0 /\ (later[x] = <<>> \/ later[q] = <<>>)
      BY <1>2, <2>1
    <3> QED
      BY <3>1 DEF Apart
  <2>2. CASE x # l /\ q # l
    <3>1. x \in DOMAIN h /\ q \in DOMAIN h
      BY <1>1, <2>2
    <3>2. CASE x = o
      BY <1>2, <1>8, <1>9, <3>1, <3>2
    <3>3. CASE q = o
      BY <1>2, <1>8, <1>9, <3>1, <3>3
    <3>4. CASE x # o /\ q # o
      BY <1>2, <1>9, <3>1, <3>4 DEF Lists
    <3> QED
      BY <3>2, <3>3, <3>4
  <2> QED
    BY <2>1, <2>2
<1> QED
  BY <1>7, <1>9 DEF Lists

(* The first link leaves the list of o.                                    *)
Shifted(h, k, o) ==
  LET rest == h[h[o].list].next
  IN  /\ DOMAIN k = DOMAIN h
      /\ \A x \in DOMAIN h : k[x].next = h[x].next
      /\ \A x \in DOMAIN h : x # o => k[x].list = h[x].list /\ k[x].last = h[x].last
      /\ k[o].list = rest /\ k[o].last = IF rest = Nil THEN Nil ELSE h[o].last

LEMMA ShiftedFrom ==
  ASSUME NEW h, Nil \notin DOMAIN h, NEW o \in DOMAIN h, h[o].list # Nil,
         NEW k, Shifted(h, k, o), NEW s, ListOf(h, s, o)
  PROVE  /\ ListOf(k, Tail(s), o)
         /\ \A i \in 1 .. Len(Tail(s)) : i + 1 \in 1 .. Len(s) /\ Tail(s)[i] = s[i + 1]
<1> PICK n : n = Len(s)
  OBVIOUS
<1>1. /\ s \in Seq(DOMAIN h) /\ n \in Nat /\ n # 0
      /\ \A i \in 1 .. n : s[i] \in DOMAIN h /\ s[i] # Nil
  BY ListFacts
<1> PICK t : t = Tail(s)
  OBVIOUS
<1>2. s # <<>>
  BY <1>1
<1>3. /\ t \in Seq(DOMAIN h) /\ Len(t) = n - 1
      /\ \A i \in 1 .. n - 1 : t[i] = s[i + 1]
  BY <1>1, <1>2, HeadTailProperties
<1>4. \A i \in 1 .. n - 1 : i + 1 \in 1 .. n
  BY <1>1
<1>5. DOMAIN k = DOMAIN h /\ \A x \in DOMAIN h : k[x].next = h[x].next
  BY DEF Shifted
<1>6. Distinct(t)
  <2> SUFFICES ASSUME NEW i \in 1 .. n - 1, NEW j \in 1 .. n - 1, t[i] = t[j] PROVE i = j
    BY <1>3 DEF Distinct
  <2>1. s[i + 1] = s[j + 1] /\ i + 1 \in 1 .. n /\ j + 1 \in 1 .. n
    BY <1>3, <1>4
  <2>2. i + 1 = j + 1
    BY <2>1 DEF ListOf, Distinct
  <2> QED
    BY <2>2
<1>7. 1 \in 1 .. n /\ h[o].list = s[1] /\ h[o].last = s[n]
  BY <1>1 DEF ListOf
<1>8. h[s[1]].next = IF 1 < n THEN s[1 + 1] ELSE Nil
  BY <1>7 DEF ListOf
<1>9. CASE n = 1
  <2>1. k[o].list = Nil /\ k[o].last = Nil /\ Len(t) = 0
    BY <1>3, <1>7, <1>8, <1>9 DEF Shifted
  <2>2. ListOf(k, t, o)
    BY <1>3, <1>5, <1>6, <2>1 DEF ListOf
  <2> QED
    BY <1>3, <1>4, <2>2
<1>10. CASE n # 1
  <2>1. 1 < n /\ 1 \in 1 .. n - 1 /\ n - 1 \in 1 .. n - 1 /\ 1 + 1 \in 1 .. n
    BY <1>1, <1>10
  <2>2. t[1] = s[1 + 1] /\ t[n - 1] = s[n] /\ t[1] # Nil
    <3>1. t[1] = s[1 + 1] /\ t[n - 1] = s[(n - 1) + 1]
      BY <1>3, <2>1
    <3>2. (n - 1) + 1 = n
      BY <1>1
    <3> QED
      BY <1>1, <2>1, <3>1, <3>2
  <2>3. h[h[o].list].next = t[1]
    BY <1>7, <1>8, <2>1, <2>2
  <2>4. k[o].list = t[1] /\ k[o].last = t[n - 1]
    BY <1>7, <2>2, <2>3 DEF Shifted
  <2>5. ASSUME NEW i \in 1 .. n - 1 PROVE k[t[i]].next = IF i < n - 1 THEN t[i + 1] ELSE Nil
    <3>1. i + 1 \in 1 .. n /\ t[i] = s[i + 1] /\ s[i + 1] \in DOMAIN h
      BY <1>1, <1>3, <1>4
    <3>2. h[s[i + 1]].next = IF i + 1 < n THEN s[i + 1 + 1] ELSE Nil
      BY <3>1 DEF ListOf
    <3>3. k[t[i]].next = IF i + 1 < n THEN s[i + 1 + 1] ELSE Nil
      BY <1>5, <3>1, <3>2
    <3>4. i < n - 1 => i + 1 \in 1 .. n - 1
      BY <1>1
    <3>5. i < n - 1 => t[i + 1] = s[i + 1 + 1]
      BY <1>3, <3>4
    <3>6. i + 1 < n <=> i < n - 1
      BY <1>1
    <3> QED
      BY <3>3, <3>5, <3>6
  <2>6. Len(t) # 0 /\ Len(t) = n - 1
    BY <1>3, <2>1
  <2>7. ListOf(k, t, o)
    BY <1>3, <1>5, <1>6, <2>4, <2>5, <2>6 DEF ListOf
  <2> QED
    BY <1>3, <1>4, <2>7
<1> QED
  BY <1>9, <1>10

LEMMA ListsShift ==
  ASSUME NEW h, Nil \notin DOMAIN h, NEW lists, Lists(h, lists),
         NEW o \in DOMAIN h, h[o].list # Nil, NEW k, Shifted(h, k, o)
  PROVE  \E later : Lists(k, later)
<1> PICK t : t = Tail(lists[o])
  OBVIOUS
<1> DEFINE later == [x \in DOMAIN k |-> IF x = o THEN t ELSE lists[x]]
<1>1. DOMAIN k = DOMAIN h /\ \A x \in DOMAIN h : ListOf(h, lists[x], x)
  BY DEF Shifted, Lists
<1>2. later[o] = t /\ \A x \in DOMAIN h : x # o => later[x] = lists[x]
  BY <1>1
<1> HIDE DEF later
<1>3. /\ ListOf(k, t, o)
      /\ \A i \in 1 .. Len(t) : i + 1 \in 1 .. Len(lists[o]) /\ t[i] = lists[o][i + 1]
  BY <1>1, ShiftedFrom
<1>4. ASSUME NEW q \in DOMAIN h, q # o PROVE ListOf(k, lists[q], q)
  <2>1. ListOf(h, lists[q], q) /\ \A i \in 1 .. Len(lists[q]) : lists[q][i] \in DOMAIN h
    BY <1>1, ListFacts
  <2>2. /\ k[q].list = h[q].list /\ k[q].last = h[q].last
        /\ \A x \in DOMAIN h : k[x].next = h[x].next
    BY <1>4 DEF Shifted
  <2> QED
    BY <1>1, <2>1, <2>2, ListKept
<1>5. ASSUME NEW q \in DOMAIN h, q # o PROVE Apart(t, lists[q]) /\ Apart(lists[q], t)
  <2>1. Apart(lists[o], lists[q])
    BY <1>5 DEF Lists
  <2> QED
    BY <1>3, <2>1 DEF Apart
<1>6. ASSUME NEW x \in DOMAIN h, NEW q \in DOMAIN h, x # q PROVE Apart(later[x], later[q])
  <2>1. CASE x = o
    BY <1>2, <1>5, <1>6, <2>1
  <2>2. CASE q = o
    BY <1>2, <1>5, <1>6, <2>2
  <2>3. CASE x # o /\ q # o
    BY <1>2, <1>6, <2>3 DEF Lists
  <2> QED
    BY <2>1, <2>2, <2>3
<1> QED
  BY <1>1, <1>2, <1>3, <1>4, <1>6 DEF Lists

(* Of the heap a part is left that has, with a block, what its "list" and  *)
(* "next" name: whole lists stay.                                          *)
LEMMA ListsSweep ==
  ASSUME NEW h, Nil \notin DOMAIN h, NEW lists, Lists(h, lists),
         NEW k, DOMAIN k \subseteq DOMAIN h, \A x \in DOMAIN k : k[x] = h[x],
         \A x \in DOMAIN k : {h[x].list, h[x].next} \subseteq DOMAIN k \cup {Nil}
  PROVE  \E later : Lists(k, later)
<1> DEFINE later == [x \in DOMAIN k |-> lists[x]]
<1>1. ASSUME NEW o \in DOMAIN k PROVE ListOf(k, lists[o], o)
  <2> PICK s : s = lists[o]
    OBVIOUS
  <2> PICK n : n = Len(s)
    OBVIOUS
  <2>1. /\ ListOf(h, s, o) /\ n \in Nat
        /\ \A i \in 1 .. n : s[i] \in DOMAIN h /\ s[i] # Nil
    BY ListFacts DEF Lists
  <2> DEFINE S == {m \in Nat : m + 1 \in 1 .. n => s[m + 1] \in DOMAIN k}
  <2>2. 0 \in S
    <3> SUFFICES ASSUME 1 \in 1 .. n PROVE s[1] \in DOMAIN k
      OBVIOUS
    <3>1. h[o].list = s[1] /\ s[1] # Nil
      BY <2>1 DEF ListOf
    <3> QED
      BY <3>1
  <2>3. ASSUME NEW m \in Nat, m \in S PROVE m + 1 \in S
    <3> SUFFICES ASSUME m + 1 + 1 \in 1 .. n PROVE s[m + 1 + 1] \in DOMAIN k
      OBVIOUS
    <3>1. m + 1 \in 1 .. n /\ m + 1 < n
      BY <2>1
    <3>2. s[m + 1] \in DOMAIN k
      BY <2>3, <3>1
    <3>3. h[s[m + 1]].next = s[m + 1 + 1] /\ s[m + 1 + 1] # Nil
      BY <2>1, <3>1 DEF ListOf
    <3> QED
      BY <3>2, <3>3
  <2>4. \A m \in Nat : m \in S
    <3> HIDE DEF S
    <3> QED
      BY <2>2, <2>3, NatSetInduction
  <2>5. ASSUME NEW i \in 1 .. n PROVE s[i] \in DOMAIN k
    <3>1. i - 1 \in Nat /\ (i - 1) + 1 = i
      BY <2>1
    <3>2. i - 1 \in S
      BY <2>4, <3>1
    <3> QED
      BY <3>1, <3>2
  <2> HIDE DEF S
  <2> QED
    BY <2>1, <2>5, ListKept
<1>2. ASSUME NEW o \in DOMAIN k, NEW q \in DOMAIN k, o # q PROVE Apart(lists[o], lists[q])
  BY <1>2 DEF Lists
<1> QED
  BY <1>1, <1>2 DEF Lists

(***************************************************************************)
(* A walk along "next" goes through the list.                              *)
(***************************************************************************)
LEMMA WalkIsList ==
  ASSUME Nil \notin Live, NEW o \in Live, NEW s, ListOf(heap, s, o)
  PROVE  \A n \in Nat : Along(heap[o].list)[n] = IF n < Len(s) THEN s[n + 1] ELSE Nil
<1> DEFINE g == [n \in Nat |-> IF n < Len(s) THEN s[n + 1] ELSE Nil]
           u == heap[o].list
           step == Along(u)
<1>1. /\ s \in Seq(Live) /\ Len(s) \in Nat
      /\ \A i \in 1 .. Len(s) : s[i] \in Live
  BY ListFacts DEF Live
<1>2. u = IF Len(s) = 0 THEN Nil ELSE s[1]
  BY DEF ListOf
<1> HIDE DEF u
<1>3. ASSUME NEW n \in Nat
      PROVE  g[n] = IF n = 0 THEN u ELSE IF g[n - 1] \in Live THEN heap[g[n - 1]].next ELSE Nil
  <2>1. CASE n = 0
    BY <1>1, <1>2, <2>1
  <2>2. CASE n # 0 /\ n - 1 < Len(s)
    <3>1. n - 1 \in Nat /\ n \in 1 .. Len(s) /\ g[n - 1] = s[n] /\ s[n] \in Live
      BY <1>1, <2>2
    <3>2. heap[s[n]].next = IF n < Len(s) THEN s[n + 1] ELSE Nil
      BY <3>1 DEF ListOf
    <3> QED
      BY <2>2, <3>1, <3>2
  <2>3. CASE n # 0 /\ ~(n - 1 < Len(s))
    BY <1>1, <2>3
  <2> QED
    BY <2>1, <2>2, <2>3
<1>4. g = [n \in Nat |-> IF n = 0 THEN u ELSE IF g[n - 1] \in Live THEN heap[g[n - 1]].next ELSE Nil]
  <2> DEFINE h == [n \in Nat |-> IF n = 0 THEN u ELSE IF g[n - 1] \in Live THEN heap[g[n - 1]].next ELSE Nil]
  <2>1. \A n \in Nat : g[n] = h[n]
    <3> HIDE DEF g
    <3> QED
      BY <1>3
  <2>2. g = [n \in Nat |-> g[n]] /\ h = [n \in Nat |-> h[n]]
    OBVIOUS
  <2> QED
    BY <2>1, <2>2, Zenon
<1> HIDE DEF g
<1>5. step = [n \in Nat |-> IF n = 0 THEN u ELSE IF step[n - 1] \in Live THEN heap[step[n - 1]].next ELSE Nil]
  BY <1>4, Zenon DEF Along
<1> HIDE DEF step
<1> DEFINE S == {n \in Nat : step[n] = g[n]}
<1>6. step[0] = u /\ g[0] = u
  BY <1>3, <1>5
<1>7. ASSUME NEW n \in Nat, step[n] = g[n] PROVE step[n + 1] = g[n + 1]
  <2>1. n + 1 \in Nat /\ n + 1 # 0 /\ (n + 1) - 1 = n
    OBVIOUS
  <2>2. g[n + 1] = IF g[n] \in Live THEN heap[g[n]].next ELSE Nil
    BY <1>3, <2>1
  <2>3. step[n + 1] = IF step[n] \in Live THEN heap[step[n]].next ELSE Nil
    BY <1>5, <2>1
  <2> QED
    BY <1>7, <2>2, <2>3
<1>8. \A n \in Nat : n \in S
  <2>1. 0 \in S /\ \A n \in Nat : n \in S => n + 1 \in S
    BY <1>6, <1>7
  <2> HIDE DEF S
  <2> QED
    BY <2>1, NatSetInduction
<1> QED
  BY <1>8 DEF g, step, u

LEMMA NilNotLive ==
  ASSUME IInv
  PROVE  Nil \notin DOMAIN heap /\ Nil \notin Live
BY GcAssumption DEF IInv, TypeOK, Live

(* The invariant gives ListEnds.                                           *)
LEMMA EndsOfLists == ListInv => ListEnds
<1> SUFFICES ASSUME ListInv, NEW o \in Live
             PROVE  IF heap[o].list = Nil THEN heap[o].last = Nil
                    ELSE heap[o].last \in LinksOf(o) /\ heap[heap[o].last].next = Nil
  BY DEF ListEnds
<1>1. IInv /\ IsFiniteSet(Live) /\ Nil \notin Live
  BY NilNotLive DEF ListInv
<1>2. PICK lists : Lists(heap, lists)
  BY DEF ListInv
<1> PICK s : s = lists[o]
  OBVIOUS
<1> PICK n : n = Len(s)
  OBVIOUS
<1>3. ListOf(heap, s, o)
  BY <1>2 DEF Lists, Live
<1>4. /\ s \in Seq(Live) /\ n \in Nat
      /\ \A i \in 1 .. n : s[i] \in Live /\ s[i] # Nil
      /\ heap[o].list = Nil <=> n = 0
  BY <1>1, <1>3, ListFacts DEF Live
<1>5. CASE n = 0
  BY <1>3, <1>4, <1>5 DEF ListOf
<1>6. CASE n # 0
  <2>1. n \in 1 .. n /\ n - 1 \in Nat /\ (n - 1) + 1 = n /\ n - 1 < n
    BY <1>4, <1>6
  <2>2. heap[o].last = s[n] /\ heap[s[n]].next = Nil /\ s[n] \in Live
    BY <1>3, <1>4, <1>6, <2>1 DEF ListOf
  <2>3. n <= Cardinality(Live) /\ Cardinality(Live) \in Nat
    BY <1>1, <1>3, <1>4, ItemsOfSeq, FS_CardinalityType DEF ListOf
  <2>4. n - 1 \in 0 .. Cardinality(Live)
    BY <2>1, <2>3
  <2>5. Along(heap[o].list)[n - 1] = s[n]
    BY <1>1, <1>3, <2>1, WalkIsList
  <2>6. s[n] \in LinksOf(o)
    BY <2>2, <2>4, <2>5 DEF LinksOf, Chain
  <2> QED
    BY <1>4, <1>6, <2>2, <2>6
<1> QED
  BY <1>5, <1>6

(***************************************************************************)
(* Every step keeps the lists.                                             *)
(***************************************************************************)
ListsNext == IsFiniteSet(Live)' /\ \E later : Lists(heap', later)

LEMMA SameHeapLists ==
  ASSUME ListInv, heap' = heap
  PROVE  ListsNext
BY DEF ListInv, ListsNext, Live

LEMMA MadeLists ==
  ASSUME ListInv, NEW u \in Urids \ Live, NEW b \in Block, b.list = Nil, b.last = Nil,
         heap' = NewBlock(heap, u, b)
  PROVE  ListsNext
<1>1. PICK k : k = NewBlock(heap, u, b)
  OBVIOUS
<1>2. /\ DOMAIN k = DOMAIN heap \cup {u} /\ {u} \cap DOMAIN heap = {}
      /\ \A x \in DOMAIN heap : k[x] = heap[x]
      /\ k[u] = b
  BY <1>1 DEF NewBlock, Live
<1>3. /\ \A x \in DOMAIN heap : /\ k[x].list = heap[x].list /\ k[x].last = heap[x].last
                                /\ k[x].next = heap[x].next
      /\ \A x \in {u} : k[x].list = Nil /\ k[x].last = Nil
  BY <1>2
<1>4. PICK lists : Lists(heap, lists)
  BY DEF ListInv
<1>5. Nil \notin DOMAIN heap
  BY NilNotLive DEF ListInv
<1>6. \E later : Lists(k, later)
  BY <1>2, <1>3, <1>4, <1>5, ListsGrow
<1>7. IsFiniteSet(Live \cup {u})
  BY FS_AddElement DEF ListInv
<1>8. heap' = k /\ Live' = Live \cup {u}
  BY <1>1, <1>2 DEF Live
<1> QED
  BY <1>6, <1>7, <1>8 DEF ListsNext

LEMMA AppendedLists ==
  ASSUME ListInv, NEW o \in Live, NEW l \in Urids \ Live, NEW vs,
         heap' = AppendLink(heap, o, l, vs)
  PROVE  ListsNext
<1>1. PICK k : k = AppendLink(heap, o, l, vs)
  OBVIOUS
<1>2. heap \in [DOMAIN heap -> Block]
  BY DEF ListInv, IInv, TypeOK
<1>3. /\ DOMAIN k = DOMAIN heap \cup {l} /\ k[l] = Link(vs)
      /\ \A x \in DOMAIN heap : k[x] = Relinked(heap, x, o, l)
  BY <1>1 DEF AppendLink, Live
<1>4. \A x \in DOMAIN heap :
        /\ Relinked(heap, x, o, l).list = IF x = o /\ heap[x].list = Nil THEN l ELSE heap[x].list
        /\ Relinked(heap, x, o, l).last = IF x = o THEN l ELSE heap[x].last
        /\ Relinked(heap, x, o, l).next = IF heap[o].list # Nil /\ x = heap[o].last THEN l
                                          ELSE heap[x].next
  BY <1>2 DEF Relinked, Block
<1>5. k[l].list = Nil /\ k[l].last = Nil /\ k[l].next = Nil
  BY <1>3 DEF Link
<1>6. Appended(heap, k, o, l)
  BY <1>3, <1>4, <1>5 DEF Appended
<1>7. PICK lists : Lists(heap, lists)
  BY DEF ListInv
<1>8. Nil \notin DOMAIN heap /\ o \in DOMAIN heap /\ l \notin DOMAIN heap /\ l # Nil
  BY NilNotLive, GcAssumption DEF ListInv, Live
<1>9. \E later : Lists(k, later)
  BY <1>6, <1>7, <1>8, ListsAppend
<1>10. IsFiniteSet(Live \cup {l})
  BY FS_AddElement DEF ListInv
<1>11. heap' = k /\ Live' = Live \cup {l}
  BY <1>1, <1>3 DEF Live
<1> QED
  BY <1>9, <1>10, <1>11 DEF ListsNext

LEMMA ShiftedLists ==
  ASSUME ListInv, NEW o, NEW value, ShiftItem(o, value)
  PROVE  ListsNext
<1>1. o \in Live /\ heap[o].list # Nil
  BY RootsLive DEF ShiftItem, ListInv
<1>2. heap \in [DOMAIN heap -> Block] /\ heap[o] \in Block /\ heap = [x \in DOMAIN heap |-> heap[x]]
  BY <1>1 DEF ListInv, IInv, TypeOK, Live
<1>3. PICK rest : rest = heap[heap[o].list].next
  OBVIOUS
<1>4. PICK k : k = [heap EXCEPT ![o].list = rest, ![o].last = IF rest = Nil THEN Nil ELSE @]
  OBVIOUS
<1>5. heap' = k
  BY <1>3, <1>4 DEF ShiftItem
<1>6. /\ DOMAIN k = DOMAIN heap
      /\ \A x \in DOMAIN heap : x # o => k[x] = heap[x]
      /\ k[o] = [heap[o] EXCEPT !.list = rest, !.last = IF rest = Nil THEN Nil ELSE @]
  BY <1>1, <1>2, <1>4 DEF Live
<1>7. k[o].list = rest /\ k[o].last = (IF rest = Nil THEN Nil ELSE heap[o].last)
      /\ k[o].next = heap[o].next
  BY <1>2, <1>6 DEF Block
<1>8. /\ \A x \in DOMAIN heap : k[x].next = heap[x].next
      /\ \A x \in DOMAIN heap : x # o => k[x].list = heap[x].list /\ k[x].last = heap[x].last
  BY <1>6, <1>7
<1>9. Shifted(heap, k, o)
  BY <1>3, <1>6, <1>7, <1>8 DEF Shifted
<1>10. PICK lists : Lists(heap, lists)
  BY DEF ListInv
<1>11. Nil \notin DOMAIN heap /\ o \in DOMAIN heap
  BY <1>1, NilNotLive DEF ListInv, Live
<1>12. \E later : Lists(k, later)
  BY <1>1, <1>9, <1>10, <1>11, ListsShift
<1>13. Live' = Live
  BY <1>5, <1>6 DEF Live
<1> QED
  BY <1>5, <1>12, <1>13 DEF ListsNext, ListInv

LEMMA StoredLists ==
  ASSUME ListInv, NEW l, NEW vs, StoreVariable(l, vs)
  PROVE  ListsNext
<1>1. l \in Live
  BY ChainsLive DEF StoreVariable
<1>2. heap \in [DOMAIN heap -> Block] /\ heap[l] \in Block
  BY <1>1 DEF ListInv, IInv, TypeOK, Live
<1>3. PICK k : k = [heap EXCEPT ![l].vals = vs]
  OBVIOUS
<1>4. heap' = k
  BY <1>3 DEF StoreVariable
<1>5. /\ DOMAIN k = DOMAIN heap
      /\ \A x \in DOMAIN heap : x # l => k[x] = heap[x]
      /\ k[l] = [heap[l] EXCEPT !.vals = vs]
  BY <1>1, <1>2, <1>3 DEF Live
<1>6. k[l].list = heap[l].list /\ k[l].last = heap[l].last /\ k[l].next = heap[l].next
  BY <1>2, <1>5 DEF Block
<1>7. \A x \in DOMAIN heap : /\ k[x].list = heap[x].list /\ k[x].last = heap[x].last
                             /\ k[x].next = heap[x].next
  BY <1>5, <1>6
<1>8. PICK lists : Lists(heap, lists)
  BY DEF ListInv
<1>9. Nil \notin DOMAIN heap
  BY NilNotLive DEF ListInv
<1>10. DOMAIN k = DOMAIN heap \cup {} /\ {} \cap DOMAIN heap = {}
  BY <1>5
<1>11. \E later : Lists(k, later)
  BY <1>7, <1>8, <1>9, <1>10, ListsGrow
<1>12. Live' = Live
  BY <1>4, <1>5 DEF Live
<1> QED
  BY <1>4, <1>11, <1>12 DEF ListsNext, ListInv

(* A sweep leaves whole lists: the links of a marked block are marked.     *)
LEMMA SweptLists ==
  ASSUME ListInv, SweepHeap
  PROVE  ListsNext
<1>1. PICK k : k = [x \in Live \cap marked |-> heap[x]]
  OBVIOUS
<1>2. heap' = k /\ phase = "mark" /\ pending = {}
  BY <1>1 DEF SweepHeap
<1>3. /\ DOMAIN k = Live \cap marked /\ DOMAIN k \subseteq DOMAIN heap
      /\ \A x \in DOMAIN k : k[x] = heap[x]
  BY <1>1 DEF Live
<1>4. \A x \in Live \cap marked : Refs(heap[x]) \subseteq Live \cap marked
  BY <1>2, MarkedIsReachable DEF ListInv
<1>5. \A x \in DOMAIN k : {heap[x].list, heap[x].next} \subseteq DOMAIN k \cup {Nil}
  BY <1>3, <1>4 DEF Refs
<1>6. \A x \in DOMAIN k : {k[x].list, k[x].next} \subseteq DOMAIN k \cup {Nil}
  BY <1>3, <1>5
<1>7. PICK lists : Lists(heap, lists)
  BY DEF ListInv
<1>8. Nil \notin DOMAIN heap
  BY NilNotLive DEF ListInv
<1>9. \E later : Lists(k, later)
  BY <1>3, <1>6, <1>7, <1>8, ListsSweep
<1>10. IsFiniteSet(Live \cap marked)
  <2>1. Live \cap marked \subseteq Live
    OBVIOUS
  <2> QED
    BY <2>1, FS_Subset DEF ListInv
<1>11. Live' = Live \cap marked
  BY <1>2, <1>3 DEF Live
<1> QED
  BY <1>2, <1>9, <1>10, <1>11 DEF ListsNext

(* The global environment starts with the one variable "Array".            *)
LEMMA InitLists == Init => IsFiniteSet(Live) /\ \E lists : Lists(heap, lists)
<1> SUFFICES ASSUME Init
             PROVE  IsFiniteSet(Live) /\ \E lists : Lists(heap, lists)
  OBVIOUS
<1> DEFINE first == {GlobalEnv, ArrayVar, ArrayProto}
<1>1. /\ DOMAIN heap = first
      /\ heap[GlobalEnv].list = ArrayVar /\ heap[GlobalEnv].last = ArrayVar
      /\ heap[ArrayVar].list = Nil /\ heap[ArrayVar].last = Nil /\ heap[ArrayVar].next = Nil
      /\ heap[ArrayProto].list = Nil /\ heap[ArrayProto].last = Nil
  BY GcAssumption DEF Init, Link
<1>2. IsFiniteSet(first)
  <2>1. IsFiniteSet({GlobalEnv}) /\ IsFiniteSet({ArrayVar}) /\ IsFiniteSet({ArrayProto})
    BY FS_Singleton
  <2>2. IsFiniteSet({GlobalEnv} \cup {ArrayVar})
    BY <2>1, FS_Union
  <2>3. IsFiniteSet(({GlobalEnv} \cup {ArrayVar}) \cup {ArrayProto})
    BY <2>1, <2>2, FS_Union
  <2>4. first = ({GlobalEnv} \cup {ArrayVar}) \cup {ArrayProto}
    OBVIOUS
  <2> QED
    BY <2>3, <2>4
<1>3. PICK lists : lists = [o \in first |-> IF o = GlobalEnv THEN <<ArrayVar>> ELSE <<>>]
  OBVIOUS
<1>4. /\ lists[GlobalEnv] = <<ArrayVar>>
      /\ \A o \in first : o # GlobalEnv => lists[o] = <<>>
  BY <1>3
<1>5. ListOf(heap, <<ArrayVar>>, GlobalEnv)
  <2>1. <<ArrayVar>> \in Seq(DOMAIN heap) /\ Len(<<ArrayVar>>) = 1 /\ <<ArrayVar>>[1] = ArrayVar
    BY <1>1
  <2>2. Distinct(<<ArrayVar>>)
    BY <2>1 DEF Distinct
  <2>3. \A i \in 1 .. Len(<<ArrayVar>>) : i = 1 /\ ~(i < Len(<<ArrayVar>>))
    BY <2>1
  <2> QED
    BY <1>1, <2>1, <2>2, <2>3 DEF ListOf
<1>6. \A o \in first : o # GlobalEnv => ListOf(heap, <<>>, o)
  BY <1>1, EmptyListOf, GcAssumption
<1>7. \A o \in first : ListOf(heap, lists[o], o)
  BY <1>4, <1>5, <1>6
<1>8. \A o, q \in first : o # q => Apart(lists[o], lists[q])
  <2>1. Apart(<<>>, <<>>) /\ Apart(<<ArrayVar>>, <<>>) /\ Apart(<<>>, <<ArrayVar>>)
    BY DEF Apart
  <2> QED
    BY <1>4, <2>1
<1>9. Lists(heap, lists)
  BY <1>1, <1>7, <1>8 DEF Lists
<1> QED
  BY <1>1, <1>2, <1>9 DEF Live

LEMMA StepLists ==
  ASSUME ListInv, [Next]_vars
  PROVE  ListsNext
<1>1. ASSUME NEW u \in Urids, NEW isFunction \in BOOLEAN, MakeValue(u, isFunction)
      PROVE  ListsNext
  <2> DEFINE b == [kind |-> "val", vals |-> {ArrayProto}, list |-> Nil, last |-> Nil,
                   next |-> IF isFunction THEN Top.env ELSE Nil]
  <2>1. u \in Urids \ Live /\ heap' = NewBlock(heap, u, b)
    BY <1>1 DEF MakeValue
  <2>2. b \in Block /\ b.list = Nil /\ b.last = Nil
    BY RootsLive, GcAssumption DEF ListInv, IInv, TypeOK, Live, Block, OrNil
  <2> QED
    BY <2>1, <2>2, MadeLists
<1>2. ASSUME NEW o \in Urids, NEW l \in Urids, NEW key \in Urids, NEW value \in Urids,
             SetProperty(o, l, key, value)
      PROVE  ListsNext
  <2>1. o \in Live /\ l \in Urids \ Live /\ heap' = AppendLink(heap, o, l, {key, value})
    BY <1>2, RootsLive DEF SetProperty, ListInv
  <2> QED
    BY <2>1, AppendedLists
<1>3. ASSUME NEW o \in Urids, NEW value \in Urids, ShiftItem(o, value)
      PROVE  ListsNext
  BY <1>3, ShiftedLists
<1>4. ASSUME NEW o \in Urids, NEW value \in Urids, GetProperty(o, value)
      PROVE  ListsNext
  BY <1>4, SameHeapLists DEF GetProperty
<1>5. ASSUME NEW l \in Urids, NEW value \in Urids, DeclareVariable(l, value)
      PROVE  ListsNext
  <2>1. Top.env \in Live /\ l \in Urids \ Live /\ heap' = AppendLink(heap, Top.env, l, {value})
    BY <1>5, RootsLive DEF DeclareVariable, ListInv
  <2> QED
    BY <2>1, AppendedLists
<1>6. ASSUME NEW l \in Urids, NEW value \in Urids, LoadVariable(l, value)
      PROVE  ListsNext
  BY <1>6, SameHeapLists DEF LoadVariable
<1>7. ASSUME NEW l \in Urids, NEW vs \in SUBSET Urids, StoreVariable(l, vs)
      PROVE  ListsNext
  BY <1>7, StoredLists
<1>8. ASSUME NEW f \in Urids, NEW e \in Urids, NEW args \in SUBSET Urids, Call(f, e, args)
      PROVE  ListsNext
  <2> DEFINE b == [kind |-> "env", vals |-> {}, list |-> Nil, last |-> Nil,
                   next |-> heap[f].next]
  <2>1. e \in Urids \ Live /\ heap' = NewBlock(heap, e, b) /\ f \in Live
    BY <1>8, RootsLive DEF Call, ListInv
  <2>2. heap[f] \in Block
    BY <2>1, RefsLive DEF ListInv
  <2>3. b \in Block /\ b.list = Nil /\ b.last = Nil
    BY <2>2 DEF Block, OrNil
  <2> QED
    BY <2>1, <2>3, MadeLists
<1>9. ASSUME NEW v \in Urids, Return(v) \/ RegisterExternal(v) \/ UnregisterExternal(v)
      PROVE  ListsNext
  BY <1>9, SameHeapLists DEF Return, RegisterExternal, UnregisterExternal
<1>10. CASE StartGc
  BY <1>10, SameHeapLists DEF StartGc
<1>11. ASSUME NEW u \in Urids, Visit(u)
       PROVE  ListsNext
  BY <1>11, SameHeapLists DEF Visit
<1>12. CASE SweepHeap
  BY <1>12, SweptLists
<1>13. CASE UNCHANGED vars
  BY <1>13, SameHeapLists DEF vars
<1> QED
  BY <1>1, <1>2, <1>3, <1>4, <1>5, <1>6, <1>7, <1>8, <1>9, <1>10, <1>11, <1>12, <1>13
     DEF Next, Step, Collect

(* However many items are pushed and shifted, properties set, variables    *)
(* declared and blocks swept in between: every "last" is the end of the    *)
(* list it belongs to (xjr_val_as_array_push appends behind it, and the    *)
(* collector walks from the front).                                        *)
THEOREM ListsEndWell == ~Reassign => (Spec => []ListEnds)
<1> SUFFICES ASSUME ~Reassign
             PROVE  Spec => []ListEnds
  OBVIOUS
<1>1. Init => ListInv
  BY InitInvariant, InitLists DEF ListInv
<1>2. ListInv /\ [Next]_vars => ListInv'
  <2> SUFFICES ASSUME ListInv, [Next]_vars
               PROVE  ListInv'
    OBVIOUS
  <2>1. IInv'
    BY StepInvariant DEF ListInv
  <2>2. ListsNext
    BY StepLists
  <2> QED
    BY <2>1, <2>2 DEF ListInv, ListsNext
<1>3. ListInv => ListEnds
  BY EndsOfLists
<1> QED
  BY <1>1, <1>2, <1>3, PTL DEF Spec
=============================================================================
