---------------------------- MODULE VmStackProofs ----------------------------
(***************************************************************************)
(* Proofs about the stack of the virtual machine, for every size of it,    *)
(* for functions of every width and native functions that call back.       *)
(***************************************************************************)
EXTENDS VmStack, TLAPS, SequenceTheorems

(* The type invariant without the history.                                 *)
Typed ==
  /\ pc \in Sites
  /\ sdp \in Nat
  /\ saved \in Seq(Nat)
  /\ DOMAIN mem \subseteq Nat /\ mem \in [DOMAIN mem -> Header]
  /\ calls \in Seq(Nat) /\ Len(calls) <= MaxDepth
  /\ control \in Seq({"main", "extern", "native"})

(***************************************************************************)
(* Sequences and sizes.                                                    *)
(***************************************************************************)
LEMMA FrontFacts ==
  ASSUME NEW S, NEW s \in Seq(S), s # <<>>
  PROVE  /\ Front(s) \in Seq(S) /\ Len(s) \in Nat /\ Len(s) > 0 /\ Len(Front(s)) = Len(s) - 1
         /\ \A i \in 1 .. Len(s) - 1 : Front(s)[i] = s[i]
         /\ Last(s) = s[Len(s)] /\ Last(s) \in S
<1> DEFINE n == Len(s) - 1
<1>1. Len(s) \in Nat /\ Len(s) > 0
  BY LenProperties, EmptySeq
<1>2. \A i \in 1 .. Len(s) : s[i] \in S
  BY ElementOfSeq
<1>3. \A i \in 1 .. n : s[i] \in S
  BY <1>1, <1>2
<1>4. n \in Nat
  BY <1>1
<1> HIDE DEF n
<1>5. /\ SubSeq(s, 1, n) \in Seq(S)
      /\ Len(SubSeq(s, 1, n)) = IF 1 <= n THEN n - 1 + 1 ELSE 0
      /\ \A i \in 1 .. n - 1 + 1 : SubSeq(s, 1, n)[i] = s[1 + i - 1]
  BY <1>3, <1>4, SubSeqProperties
<1>6. /\ SubSeq(s, 1, n) \in Seq(S) /\ Len(SubSeq(s, 1, n)) = n
      /\ \A i \in 1 .. n : SubSeq(s, 1, n)[i] = s[i]
  BY <1>4, <1>5
<1> QED
  BY <1>1, <1>2, <1>6 DEF Front, Last, n

LEMMA BasesFacts ==
  ASSUME Typed
  PROVE  /\ Len(saved) \in Nat /\ Len(Bases) = Len(saved) + 1
         /\ \A i \in 1 .. Len(saved) : Bases[i] = saved[i]
         /\ Bases[Len(saved) + 1] = sdp
         /\ \A i \in 1 .. Len(Bases) : Bases[i] \in Nat
<1>1. saved \in Seq(Nat) /\ sdp \in Nat
  BY DEF Typed
<1>2. Len(saved) \in Nat
  BY <1>1, LenProperties
<1>3. /\ Bases \in Seq(Nat) /\ Len(Bases) = Len(saved) + 1
      /\ \A i \in 1 .. Len(saved) : Bases[i] = saved[i]
      /\ Bases[Len(saved) + 1] = sdp
  BY <1>1, AppendProperties DEF Bases
<1>4. \A i \in 1 .. Len(Bases) : Bases[i] \in Nat
  BY <1>3, ElementOfSeq
<1> QED
  BY <1>2, <1>3, <1>4

LEMMA SizeAtLeast ==
  ASSUME NEW h \in Header
  PROVE  FrameSize(h) \in Nat /\ FrameSize(h) >= 18
<1>1. h.argc \in Nat /\ h.vregc \in Nat
  BY StackAssumption DEF Header
<1> QED
  BY <1>1 DEF FrameSize, HeaderSize, ValSize

LEMMA SpFacts ==
  ASSUME Typed
  PROVE  Sp \in Int /\ Sp = StackSize - 4 * Len(saved) /\ StackSize \in Nat
BY BasesFacts, StackAssumption DEF Sp, EntrySize

(***************************************************************************)
(* The frames and the levels of the C stack.                               *)
(***************************************************************************)

(* The offsets of the active frames are those of headers, in their order.  *)
Based ==
  /\ \A i \in 1 .. Len(Bases) : Bases[i] \in DOMAIN mem
  /\ \A i, j \in 1 .. Len(Bases) : i <= j => Bases[i] <= Bases[j]

(* Runs and native functions take turns on the C stack, the first run may  *)
(* be that of the program, and each other run has a level.                 *)
Main == IF control # <<>> /\ control[1] = "main" THEN 1 ELSE 0

Alternate ==
  /\ control # <<>> => control[1] # "native"
  /\ \A j \in 1 .. Len(control) - 1 : control[j] = "native" <=> control[j + 1] # "native"
  /\ \A j \in 2 .. Len(control) : control[j] # "main"

Turns == Alternate /\ Len(control) + (IF Running THEN 1 ELSE 0) = 2 * (Len(calls) + Main)

(* Between two levels lie the frame of the native function that has made   *)
(* the call and the entry of the call itself.                              *)
Levels ==
  /\ \A i \in 1 .. Len(calls) - 1 : calls[i + 1] + 8 <= calls[i]
  /\ calls # <<>> => Sp + (IF InNative THEN 4 ELSE 0) <= Last(calls)

Aligned == \A i \in 1 .. Len(calls) : \E m \in 0 .. StackSize : calls[i] = StackSize - 4 * m

HostInv == Typed /\ Based /\ Turns /\ Levels /\ Aligned

LEMMA BaseFacts ==
  ASSUME Typed, Based
  PROVE  /\ sdp \in DOMAIN mem /\ mem[sdp] \in Header /\ mem[sdp].restore \in Sites
         /\ FrameSize(mem[sdp]) \in Nat /\ FrameSize(mem[sdp]) >= 18
<1>1. Len(saved) + 1 \in 1 .. Len(Bases) /\ Bases[Len(saved) + 1] = sdp
  BY BasesFacts
<1>2. sdp \in DOMAIN mem /\ mem[sdp] \in Header
  BY <1>1 DEF Based, Typed
<1>3. mem[sdp].argc \in Nat /\ mem[sdp].vregc \in Nat /\ mem[sdp].restore \in Sites
  BY <1>2, StackAssumption DEF Header
<1> QED
  BY <1>2, <1>3 DEF FrameSize, HeaderSize, ValSize

(* The frames after a step, as far as they are typed.                      *)
FramesTyped ==
  saved \in Seq(Nat) /\ sdp \in Nat /\ DOMAIN mem \subseteq Nat /\ mem \in [DOMAIN mem -> Header]

LEMMA PushFacts ==
  ASSUME Typed, Based, NEW type \in {"CALL", "NEW"}, NEW dst \in Dsts, NEW argc \in Argcs,
         PushFrame(type, dst, argc)
  PROVE  LET n == Len(saved)
             next == sdp + FrameSize(mem[sdp])
             h == NewFrame(type, dst, argc)
         IN  /\ n \in Nat /\ sdp \in Nat /\ next \in Nat /\ next >= sdp + 18
             /\ Len(Bases) = n + 1 /\ Bases[n + 1] = sdp
             /\ saved' \in Seq(Nat) /\ Len(saved') = n + 1 /\ sdp' = next
             /\ Len(Bases') = n + 2 /\ Bases'[n + 2] = next
             /\ \A i \in 1 .. n + 1 : /\ Bases'[i] = Bases[i] /\ Bases[i] \in Nat /\ Bases[i] <= sdp
                                      /\ Bases[i] \in DOMAIN mem' /\ mem'[Bases[i]] = mem[Bases[i]]
             /\ h \in Header /\ next \in DOMAIN mem' /\ mem'[next] = h
             /\ DOMAIN mem' \subseteq Nat /\ mem' \in [DOMAIN mem' -> Header]
<1> DEFINE n == Len(saved)
           h == NewFrame(type, dst, argc)
           next == sdp + FrameSize(mem[sdp])
<1>1. /\ n \in Nat /\ Len(Bases) = n + 1
      /\ \A i \in 1 .. n : Bases[i] = saved[i]
      /\ Bases[n + 1] = sdp /\ \A i \in 1 .. n + 1 : Bases[i] \in Nat
  BY BasesFacts
<1>2. next \in Nat /\ next >= sdp + 18 /\ sdp \in Nat
  BY BaseFacts DEF Typed
<1>3. h \in Header
  BY StackAssumption DEF NewFrame, Header, Typed
<1>4. saved' = Append(saved, sdp) /\ sdp' = next
  BY DEF PushFrame
<1>5. mem' = [o \in UpTo(next) \cup {next} |-> IF o = next THEN h ELSE mem[o]]
  BY DEF PushFrame, PutFrame
<1> HIDE DEF next, h
<1>6. UpTo(next) = {o \in DOMAIN mem : o <= next}
  BY DEF UpTo
<1>7. DOMAIN mem' = UpTo(next) \cup {next}
  BY <1>5
<1>8. DOMAIN mem' \subseteq Nat /\ mem' \in [DOMAIN mem' -> Header]
  <2>1. \A o \in UpTo(next) \cup {next} : o \in Nat /\ (IF o = next THEN h ELSE mem[o]) \in Header
    BY <1>2, <1>3, <1>6 DEF Typed
  <2> QED
    BY <2>1, <1>5
<1>9. /\ saved' \in Seq(Nat) /\ Len(saved') = n + 1
      /\ \A i \in 1 .. n + 1 : saved'[i] = Bases[i]
  BY <1>1, <1>4 DEF Typed, Bases
<1>10. /\ Len(Bases') = n + 2
       /\ \A i \in 1 .. n + 1 : Bases'[i] = Bases[i]
       /\ Bases'[n + 2] = next
  BY <1>1, <1>2, <1>4, <1>9, AppendProperties DEF Bases
<1>11. \A i \in 1 .. n + 1 : Bases[i] \in DOMAIN mem /\ Bases[i] <= sdp
  <2>1. n + 1 \in 1 .. n + 1 /\ \A i \in 1 .. n + 1 : i <= n + 1
    BY <1>1
  <2> QED
    BY <1>1, <2>1 DEF Based
<1>12. \A i \in 1 .. n + 1 : Bases[i] \in UpTo(next) /\ Bases[i] # next
  BY <1>1, <1>2, <1>6, <1>11
<1>13. \A i \in 1 .. n + 1 : Bases[i] \in DOMAIN mem' /\ mem'[Bases[i]] = mem[Bases[i]]
  BY <1>5, <1>7, <1>12
<1>14. next \in DOMAIN mem' /\ mem'[next] = h
  BY <1>5, <1>7
<1> QED
  BY <1>1, <1>2, <1>3, <1>4, <1>8, <1>9, <1>10, <1>11, <1>13, <1>14 DEF next, h

LEMMA PushKeepsBases ==
  ASSUME Typed, Based, NEW type \in {"CALL", "NEW"}, NEW dst \in Dsts, NEW argc \in Argcs,
         PushFrame(type, dst, argc)
  PROVE  FramesTyped' /\ Based' /\ Sp' = Sp - 4
<1> DEFINE n == Len(saved)
           next == sdp + FrameSize(mem[sdp])
<1>1. /\ n \in Nat /\ sdp \in Nat /\ next \in Nat /\ next >= sdp + 18
      /\ Len(Bases) = n + 1
      /\ saved' \in Seq(Nat) /\ Len(saved') = n + 1 /\ sdp' = next
      /\ Len(Bases') = n + 2 /\ Bases'[n + 2] = next
      /\ \A i \in 1 .. n + 1 : /\ Bases'[i] = Bases[i] /\ Bases[i] \in Nat /\ Bases[i] <= sdp
                               /\ Bases[i] \in DOMAIN mem'
      /\ next \in DOMAIN mem'
      /\ DOMAIN mem' \subseteq Nat /\ mem' \in [DOMAIN mem' -> Header]
  BY PushFacts
<1> HIDE DEF next
<1>2. \A i \in 1 .. n + 2 : Bases'[i] \in DOMAIN mem'
  BY <1>1
<1>3. ASSUME NEW i \in 1 .. n + 2, NEW j \in 1 .. n + 2, i <= j
      PROVE  Bases'[i] <= Bases'[j]
  <2>1. CASE j # n + 2
    <3>1. i \in 1 .. n + 1 /\ j \in 1 .. n + 1
      BY <1>1, <1>3, <2>1
    <3>2. Bases[i] <= Bases[j]
      BY <1>1, <1>3, <3>1 DEF Based
    <3> QED
      BY <1>1, <3>1, <3>2
  <2>2. CASE j = n + 2 /\ i # n + 2
    <3>1. i \in 1 .. n + 1
      BY <1>1, <2>2
    <3> QED
      BY <1>1, <2>2, <3>1
  <2>3. CASE j = n + 2 /\ i = n + 2
    BY <1>1, <2>3
  <2> QED
    BY <2>1, <2>2, <2>3
<1>4. Based'
  BY <1>1, <1>2, <1>3 DEF Based
<1>5. Sp' = Sp - 4
  BY <1>1, SpFacts DEF Sp, EntrySize
<1> QED
  BY <1>1, <1>4, <1>5 DEF FramesTyped

LEMMA PopFacts ==
  ASSUME Typed, Based, saved # <<>>, PopFrame
  PROVE  LET n == Len(saved)
             base == Last(saved)
         IN  /\ n \in Nat /\ n > 0 /\ sdp \in Nat /\ base \in Nat /\ base <= sdp
             /\ Len(Bases) = n + 1
             /\ saved' \in Seq(Nat) /\ Len(saved') = n - 1 /\ sdp' = base
             /\ Len(Bases') = n
             /\ \A i \in 1 .. n : /\ Bases'[i] = Bases[i] /\ Bases[i] \in Nat /\ Bases[i] <= base
                                  /\ Bases[i] \in DOMAIN mem' /\ mem'[Bases[i]] = mem[Bases[i]]
             /\ DOMAIN mem' \subseteq Nat /\ mem' \in [DOMAIN mem' -> Header]
<1> DEFINE n == Len(saved)
           base == Last(saved)
<1>1. /\ n \in Nat /\ Len(Bases) = n + 1
      /\ \A i \in 1 .. n : Bases[i] = saved[i]
      /\ Bases[n + 1] = sdp /\ \A i \in 1 .. n + 1 : Bases[i] \in Nat
  BY BasesFacts
<1>2. /\ n > 0 /\ saved' \in Seq(Nat) /\ Len(saved') = n - 1
      /\ \A i \in 1 .. n - 1 : saved'[i] = saved[i]
      /\ base = Bases[n] /\ base \in Nat /\ sdp' = base
  <2>1. saved \in Seq(Nat) /\ saved' = Front(saved) /\ sdp' = base
    BY DEF PopFrame, Typed
  <2>2. /\ Front(saved) \in Seq(Nat) /\ n > 0 /\ Len(Front(saved)) = n - 1
        /\ \A i \in 1 .. n - 1 : Front(saved)[i] = saved[i]
        /\ base = saved[n] /\ base \in Nat
    BY <2>1, FrontFacts
  <2> QED
    BY <1>1, <2>1, <2>2
<1>3. mem' = [o \in UpTo(base) |-> mem[o]]
  BY DEF PopFrame
<1> HIDE DEF base
<1>4. /\ Len(Bases') = n
      /\ \A i \in 1 .. n : Bases'[i] = Bases[i]
  BY <1>1, <1>2, AppendProperties DEF Bases
<1>5. UpTo(base) = {o \in DOMAIN mem : o <= base}
  BY DEF UpTo
<1>6. DOMAIN mem' \subseteq Nat /\ mem' \in [DOMAIN mem' -> Header] /\ DOMAIN mem' = UpTo(base)
  <2>1. \A o \in UpTo(base) : o \in Nat /\ mem[o] \in Header
    BY <1>5 DEF Typed
  <2> QED
    BY <2>1, <1>3
<1>7. n \in 1 .. n + 1 /\ \A i \in 1 .. n : i \in 1 .. n + 1 /\ i <= n
  BY <1>1, <1>2
<1>8. \A i \in 1 .. n : Bases[i] \in DOMAIN mem /\ Bases[i] <= base
  BY <1>1, <1>2, <1>7 DEF Based
<1>9. \A i \in 1 .. n : Bases[i] \in DOMAIN mem' /\ mem'[Bases[i]] = mem[Bases[i]]
  BY <1>3, <1>5, <1>6, <1>8
<1>10. base <= sdp /\ sdp \in Nat
  <2>1. n \in 1 .. n + 1 /\ n + 1 \in 1 .. n + 1 /\ n <= n + 1
    BY <1>1, <1>2
  <2> QED
    BY <1>1, <1>2, <2>1 DEF Based
<1> QED
  BY <1>1, <1>2, <1>4, <1>6, <1>8, <1>9, <1>10 DEF base

LEMMA PopKeepsBases ==
  ASSUME Typed, Based, saved # <<>>, PopFrame
  PROVE  FramesTyped' /\ Based' /\ Sp' = Sp + 4
<1> DEFINE n == Len(saved)
<1>1. /\ n \in Nat /\ n > 0 /\ Last(saved) \in Nat
      /\ Len(Bases) = n + 1
      /\ saved' \in Seq(Nat) /\ Len(saved') = n - 1 /\ sdp' = Last(saved)
      /\ Len(Bases') = n
      /\ \A i \in 1 .. n : Bases'[i] = Bases[i] /\ Bases[i] \in DOMAIN mem'
      /\ DOMAIN mem' \subseteq Nat /\ mem' \in [DOMAIN mem' -> Header]
  BY PopFacts
<1>2. \A i \in 1 .. n : i \in 1 .. n + 1
  BY <1>1
<1>3. Based'
  BY <1>1, <1>2 DEF Based
<1>4. Sp' = Sp + 4
  BY <1>1, SpFacts DEF Sp, EntrySize
<1> QED
  BY <1>1, <1>3, <1>4 DEF FramesTyped

LEMMA SameFrames ==
  ASSUME Typed, Based, UNCHANGED <<sdp, saved, mem>>
  PROVE  FramesTyped' /\ Based' /\ Sp' = Sp
BY DEF Typed, FramesTyped, Based, Bases, Sp

(* The C stack and the levels.                                             *)
Kinds == {"main", "extern", "native"}
HostTyped == calls \in Seq(Nat) /\ Len(calls) <= MaxDepth /\ control \in Seq(Kinds) /\ pc \in Sites

LEMMA HostTogether == FramesTyped /\ HostTyped /\ Based /\ Turns /\ Levels /\ Aligned => HostInv
BY DEF HostInv, Typed, FramesTyped, HostTyped, Kinds

LEMMA HostTogetherThen == FramesTyped' /\ HostTyped' /\ Based' /\ Turns' /\ Levels' /\ Aligned' => HostInv'
BY HostTogether, PTL

LEMMA ControlFacts ==
  ASSUME Typed
  PROVE  /\ control \in Seq(Kinds) /\ Len(control) \in Nat /\ (control = <<>> <=> Len(control) = 0)
         /\ calls \in Seq(Nat) /\ Len(calls) \in Nat /\ (calls = <<>> <=> Len(calls) = 0)
         /\ \A i \in 1 .. Len(calls) : calls[i] \in Nat
         /\ \A j \in 1 .. Len(control) : control[j] \in Kinds
         /\ Running <=> Len(control) # 0 /\ control[Len(control)] # "native"
         /\ InNative <=> Len(control) # 0 /\ control[Len(control)] = "native"
         /\ Sp \in Int
<1>1. control \in Seq(Kinds) /\ calls \in Seq(Nat)
  BY DEF Typed, Kinds
<1>2. /\ Len(control) \in Nat /\ (control = <<>> <=> Len(control) = 0)
      /\ Len(calls) \in Nat /\ (calls = <<>> <=> Len(calls) = 0)
  BY <1>1, LenProperties, EmptySeq
<1>3. /\ \A i \in 1 .. Len(calls) : calls[i] \in Nat
      /\ \A j \in 1 .. Len(control) : control[j] \in Kinds
  BY <1>1, ElementOfSeq
<1>4. Len(control) # 0 => control[Len(control)] \in Kinds
  BY <1>2, <1>3
<1> QED
  BY <1>1, <1>2, <1>3, <1>4, SpFacts DEF Running, InNative, Last, Kinds

LEMMA MainStays ==
  ASSUME control # <<>>, control' # <<>>, control'[1] = control[1]
  PROVE  Main' = Main
BY DEF Main

(* A run ends: the program's with nothing around it, another one with its  *)
(* level, and the native function that has called it goes on.              *)
LEMMA EndRunTurns ==
  ASSUME HostInv, Running, EndRun
  PROVE  /\ calls' \in Seq(Nat) /\ Len(calls') <= MaxDepth /\ control' \in Seq(Kinds) /\ Turns'
         /\ \A i \in 1 .. Len(calls') : i \in 1 .. Len(calls) /\ calls'[i] = calls[i]
         /\ \A i \in 1 .. Len(calls') - 1 : calls'[i + 1] + 8 <= calls'[i]
         /\ calls' # <<>> => Len(calls) > 1 /\ Last(calls') = calls[Len(calls) - 1]
                             /\ calls[Len(calls)] + 8 <= calls[Len(calls) - 1]
<1> PICK c : c = Len(control)
  OBVIOUS
<1> PICK n : n = Len(calls)
  OBVIOUS
<1>a. Typed /\ Turns /\ Levels
  BY DEF HostInv
<1>1. /\ control \in Seq(Kinds) /\ c \in Nat /\ c # 0 /\ control # <<>>
      /\ calls \in Seq(Nat) /\ n \in Nat /\ (calls = <<>> <=> n = 0)
      /\ control[c] # "native" /\ control[c] \in Kinds
  BY <1>a, ControlFacts
<1>2. /\ control' \in Seq(Kinds) /\ Len(control') = c - 1
      /\ \A j \in 1 .. c - 1 : control'[j] = control[j]
      /\ Last(control) = control[c]
  BY <1>1, FrontFacts DEF EndRun
<1>3. c + 1 = 2 * (n + Main) /\ Main \in {0, 1} /\ (Main = 1 <=> control[1] = "main")
  BY <1>a, <1>1 DEF Turns, Main
<1>4. control' = <<>> <=> c = 1
  BY <1>1, <1>2, EmptySeq
<1>b. control[1] # "native" /\ \A j \in 2 .. c : control[j] # "main"
  BY <1>a, <1>1 DEF Turns, Alternate
<1>c. \A j \in 1 .. c - 1 : control[j] = "native" <=> control[j + 1] # "native"
  BY <1>a DEF Turns, Alternate
<1>d. \A i \in 1 .. n - 1 : calls[i + 1] + 8 <= calls[i]
  BY <1>a DEF Levels
<1>5. CASE control[c] = "main"
  <2>1. c = 1
    BY <1>1, <1>5, <1>b
  <2>2. n = 0 /\ calls' = <<>> /\ control' = <<>>
    <3>1. Main = 1
      BY <1>3, <1>5, <2>1
    <3>2. n = 0
      BY <1>1, <1>3, <2>1, <3>1
    <3>3. calls' = calls
      BY <1>2, <1>5 DEF EndRun
    <3> QED
      BY <1>1, <1>4, <2>1, <3>2, <3>3
  <2>3. Len(control') = 0 /\ Len(calls') = 0 /\ Main' = 0 /\ ~Running'
    BY <2>2 DEF Main, Running
  <2>4. Turns'
    BY <2>2, <2>3 DEF Turns, Alternate
  <2>5. calls' \in Seq(Nat) /\ Len(calls') <= MaxDepth
    BY <2>2, <2>3, StackAssumption
  <2> QED
    BY <1>2, <2>2, <2>3, <2>4, <2>5
<1>6. CASE control[c] # "main"
  <2>1. control[c] = "extern"
    BY <1>1, <1>6 DEF Kinds
  <2>2. n > 0
    <3>1. CASE c = 1
      <4>1. Main = 0
        BY <1>3, <1>6, <3>1
      <4> QED
        BY <1>1, <1>3, <3>1, <4>1
    <3>2. CASE c # 1
      BY <1>1, <1>3, <3>2
    <3> QED
      BY <3>1, <3>2
  <2>3. calls' = Front(calls)
    BY <1>2, <2>1 DEF EndRun
  <2>4. /\ calls' \in Seq(Nat) /\ Len(calls') = n - 1
        /\ \A i \in 1 .. n - 1 : calls'[i] = calls[i]
    <3>1. calls # <<>>
      BY <1>1, <2>2
    <3>2. /\ Front(calls) \in Seq(Nat) /\ Len(Front(calls)) = n - 1
          /\ \A i \in 1 .. n - 1 : Front(calls)[i] = calls[i]
      BY <1>1, <3>1, FrontFacts
    <3> QED
      BY <2>3, <3>2
  <2>5. Len(calls') <= MaxDepth
    <3>1. n <= MaxDepth /\ MaxDepth \in Nat
      BY <1>a, StackAssumption DEF Typed
    <3> QED
      BY <1>1, <2>4, <3>1
  <2>6. Main' = Main
    <3>1. CASE c = 1
      <4>1. Main = 0
        BY <1>3, <1>6, <3>1
      <4>2. control' = <<>>
        BY <1>4, <3>1
      <4> QED
        BY <4>1, <4>2 DEF Main
    <3>2. CASE c # 1
      <4>1. 1 \in 1 .. c - 1
        BY <1>1, <3>2
      <4>2. control' # <<>> /\ control'[1] = control[1]
        BY <1>2, <1>4, <3>2, <4>1
      <4> QED
        BY <1>1, <4>2, MainStays
    <3> QED
      BY <3>1, <3>2
  <2>7. c # 1 => control'[c - 1] = "native"
    <3> SUFFICES ASSUME c # 1 PROVE control'[c - 1] = "native"
      OBVIOUS
    <3>1. c - 1 \in 1 .. c - 1 /\ (c - 1) + 1 = c
      BY <1>1
    <3>2. control[c - 1] = "native" <=> control[(c - 1) + 1] # "native"
      BY <1>c, <3>1
    <3>3. control[c - 1] = "native"
      BY <1>1, <3>1, <3>2
    <3> QED
      BY <1>2, <3>1, <3>3
  <2>8. ~Running'
    <3>1. CASE c = 1
      BY <1>4, <3>1 DEF Running
    <3>2. CASE c # 1
      BY <1>2, <2>7, <3>2 DEF Running, Last
    <3> QED
      BY <3>1, <3>2
  <2>9. Turns'
    <3>1. control' # <<>> => control'[1] # "native"
      <4> SUFFICES ASSUME control' # <<>> PROVE control'[1] # "native"
        OBVIOUS
      <4>1. 1 \in 1 .. c - 1
        BY <1>1, <1>4
      <4> QED
        BY <1>2, <1>b, <4>1
    <3>2. ASSUME NEW j \in 1 .. c - 1 - 1
          PROVE  control'[j] = "native" <=> control'[j + 1] # "native"
      <4>1. j \in 1 .. c - 1 /\ j + 1 \in 1 .. c - 1
        BY <1>1
      <4> QED
        BY <1>2, <1>c, <4>1
    <3>3. ASSUME NEW j \in 2 .. c - 1 PROVE control'[j] # "main"
      <4>1. j \in 1 .. c - 1 /\ j \in 2 .. c
        BY <1>1
      <4> QED
        BY <1>2, <1>b, <4>1
    <3>4. Len(control') + 0 = 2 * (Len(calls') + Main')
      BY <1>1, <1>2, <1>3, <2>2, <2>4, <2>6
    <3> QED
      BY <1>2, <2>8, <3>1, <3>2, <3>3, <3>4 DEF Turns, Alternate
  <2>10. \A i \in 1 .. Len(calls') - 1 : calls'[i + 1] + 8 <= calls'[i]
    <3> SUFFICES ASSUME NEW i \in 1 .. n - 1 - 1 PROVE calls'[i + 1] + 8 <= calls'[i]
      BY <2>4
    <3>1. i \in 1 .. n - 1 /\ i + 1 \in 1 .. n - 1
      BY <1>1
    <3>2. calls'[i] = calls[i] /\ calls'[i + 1] = calls[i + 1]
      BY <2>4, <3>1
    <3>3. calls[i + 1] + 8 <= calls[i]
      BY <1>d, <3>1
    <3> QED
      BY <3>2, <3>3
  <2>11. calls' # <<>> => n > 1
    BY <1>1, <2>2, <2>4, EmptySeq
  <2>12. n > 1 => Last(calls') = calls[n - 1] /\ calls[n] + 8 <= calls[n - 1]
    <3> SUFFICES ASSUME n > 1
                 PROVE  Last(calls') = calls[n - 1] /\ calls[n] + 8 <= calls[n - 1]
      OBVIOUS
    <3>1. n - 1 \in 1 .. n - 1 /\ (n - 1) + 1 = n
      BY <1>1
    <3>2. calls'[n - 1] = calls[n - 1]
      BY <2>4, <3>1
    <3>4. calls[(n - 1) + 1] + 8 <= calls[n - 1]
      BY <1>d, <3>1
    <3>5. Last(calls') = calls[n - 1]
      BY <2>4, <3>2 DEF Last
    <3> QED
      BY <3>1, <3>4, <3>5
  <2>13. \A i \in 1 .. Len(calls') : i \in 1 .. n /\ calls'[i] = calls[i]
    <3> SUFFICES ASSUME NEW i \in 1 .. n - 1 PROVE i \in 1 .. n /\ calls'[i] = calls[i]
      BY <2>4
    <3>1. i \in 1 .. n
      BY <1>1
    <3> QED
      BY <2>4, <3>1
  <2> QED
    BY <1>2, <2>4, <2>5, <2>9, <2>10, <2>11, <2>12, <2>13
<1> QED
  BY <1>5, <1>6

(* After a run has ended, the table is at most one entry shorter.          *)
LEMMA EndRunLevels ==
  ASSUME HostInv, Running, EndRun, Sp' \in Int, Sp' <= Sp \/ (calls # <<>> /\ Sp' <= Last(calls) + 4)
  PROVE  /\ Turns' /\ Levels' /\ Aligned'
         /\ calls' \in Seq(Nat) /\ Len(calls') <= MaxDepth /\ control' \in Seq(Kinds)
<1>1. /\ calls' \in Seq(Nat) /\ Len(calls') <= MaxDepth /\ control' \in Seq(Kinds) /\ Turns'
      /\ \A i \in 1 .. Len(calls') : i \in 1 .. Len(calls) /\ calls'[i] = calls[i]
      /\ \A i \in 1 .. Len(calls') - 1 : calls'[i + 1] + 8 <= calls'[i]
      /\ calls' # <<>> => Len(calls) > 1 /\ Last(calls') = calls[Len(calls) - 1]
                          /\ calls[Len(calls)] + 8 <= calls[Len(calls) - 1]
  BY EndRunTurns
<1>2. calls' # <<>> => Sp' + 4 <= Last(calls') /\ Last(calls') \in Nat
  <2> SUFFICES ASSUME calls' # <<>> PROVE Sp' + 4 <= Last(calls') /\ Last(calls') \in Nat
    OBVIOUS
  <2> PICK n : n = Len(calls)
    OBVIOUS
  <2>1. n \in Nat /\ calls # <<>> /\ Sp \in Int /\ \A i \in 1 .. n : calls[i] \in Nat
    BY <1>1, ControlFacts DEF HostInv
  <2>2. n > 1 /\ Last(calls') = calls[n - 1] /\ calls[n] + 8 <= calls[n - 1]
    BY <1>1
  <2>3. n \in 1 .. n /\ n - 1 \in 1 .. n
    BY <2>1, <2>2
  <2>4. calls[n] \in Nat /\ calls[n - 1] \in Nat
    BY <2>1, <2>3
  <2>5. Sp <= calls[n]
    <3>1. Sp + (IF InNative THEN 4 ELSE 0) <= calls[n]
      BY <2>1 DEF HostInv, Levels, Last
    <3> QED
      BY <2>1, <2>4, <3>1
  <2>6. Sp' <= calls[n] + 4
    BY <2>1, <2>4, <2>5 DEF Last
  <2> QED
    BY <2>2, <2>4, <2>6
<1>3. Levels'
  <2>1. calls' # <<>> => Sp' + (IF InNative' THEN 4 ELSE 0) <= Last(calls')
    BY <1>2
  <2> QED
    BY <1>1, <2>1 DEF Levels
<1>4. Aligned'
  BY <1>1 DEF HostInv, Aligned
<1> QED
  BY <1>1, <1>3, <1>4

(* A step that leaves the C stack and the levels alone.                    *)
LEMMA HostStays ==
  ASSUME HostInv, UNCHANGED <<calls, control>>, pc' \in Sites, Sp' \in Int,
         calls # <<>> => Sp' + (IF InNative THEN 4 ELSE 0) <= Last(calls),
         FramesTyped' /\ Based'
  PROVE  HostInv'
<1>1. calls' = calls /\ control' = control
  OBVIOUS
<1>2. Main' = Main /\ (Running' <=> Running) /\ (InNative' <=> InNative)
  BY <1>1 DEF Main, Running, InNative
<1>3. Turns'
  BY <1>1, <1>2 DEF HostInv, Turns, Alternate
<1>4. Levels' /\ Aligned'
  BY <1>1, <1>2 DEF HostInv, Levels, Aligned
<1>5. HostTyped'
  BY <1>1 DEF HostInv, Typed, HostTyped, Kinds
<1> QED
  BY <1>3, <1>4, <1>5, HostTogetherThen

(* Calling goes one deeper on the C stack.                                 *)
LEMMA ControlGrows ==
  ASSUME Typed, Alternate, NEW kind \in {"native", "extern"},
         control' = Append(control, kind),
         control = <<>> => kind = "extern",
         control # <<>> => (Last(control) = "native" <=> kind # "native")
  PROVE  /\ control' \in Seq(Kinds) /\ Len(control') = Len(control) + 1
         /\ Alternate' /\ Main' = Main
         /\ (Running' <=> kind # "native") /\ (InNative' <=> kind = "native")
<1> PICK c : c = Len(control)
  OBVIOUS
<1>1. control \in Seq(Kinds) /\ c \in Nat /\ (control = <<>> <=> c = 0) /\ kind \in Kinds
  BY ControlFacts DEF Kinds
<1>2. /\ control' \in Seq(Kinds) /\ Len(control') = c + 1
      /\ \A j \in 1 .. c : control'[j] = control[j]
      /\ control'[c + 1] = kind
  BY <1>1, AppendProperties
<1>3. control' # <<>> /\ Last(control') = kind
  BY <1>1, <1>2, EmptySeq DEF Last
<1>a. c # 0 => control[1] # "native" /\ (control[c] = "native" <=> kind # "native")
  BY <1>1 DEF Alternate, Last
<1>b. \A j \in 1 .. c - 1 : control[j] = "native" <=> control[j + 1] # "native"
  BY DEF Alternate
<1>c. \A j \in 2 .. c : control[j] # "main"
  BY DEF Alternate
<1>4. c # 0 => control'[1] = control[1]
  <2> SUFFICES ASSUME c # 0 PROVE control'[1] = control[1]
    OBVIOUS
  <2>1. 1 \in 1 .. c
    BY <1>1
  <2> QED
    BY <1>2, <2>1
<1>5. c = 0 => control'[1] = "extern"
  BY <1>1, <1>2
<1>6. Main' = Main
  BY <1>1, <1>3, <1>4, <1>5 DEF Main
<1>7. control'[1] # "native"
  BY <1>4, <1>5, <1>a
<1>8. ASSUME NEW j \in 1 .. c PROVE control'[j] = "native" <=> control'[j + 1] # "native"
  <2>1. CASE j = c
    <3>1. control'[j] = control[c] /\ control'[j + 1] = kind /\ c # 0
      BY <1>1, <1>2, <2>1
    <3> QED
      BY <1>a, <3>1
  <2>2. CASE j # c
    <3>1. j \in 1 .. c - 1 /\ j + 1 \in 1 .. c
      BY <1>1, <2>2
    <3>2. control'[j] = control[j] /\ control'[j + 1] = control[j + 1]
      BY <1>2, <3>1
    <3> QED
      BY <1>b, <3>1, <3>2
  <2> QED
    BY <2>1, <2>2
<1>9. ASSUME NEW j \in 2 .. c + 1 PROVE control'[j] # "main"
  <2>1. CASE j = c + 1
    BY <1>2, <2>1
  <2>2. CASE j # c + 1
    <3>1. j \in 1 .. c /\ j \in 2 .. c
      BY <1>1, <2>2
    <3> QED
      BY <1>2, <1>c, <3>1
  <2> QED
    BY <2>1, <2>2
<1>10. Alternate'
  <2>1. Len(control') - 1 = c /\ Len(control') = c + 1
    BY <1>1, <1>2
  <2> QED
    BY <1>7, <1>8, <1>9, <2>1 DEF Alternate
<1>11. (Running' <=> kind # "native") /\ (InNative' <=> kind = "native")
  BY <1>3 DEF Running, InNative
<1> QED
  BY <1>2, <1>6, <1>10, <1>11

(***************************************************************************)
(* The steps, whoever calls.                                               *)
(***************************************************************************)

LEMMA HostFacts ==
  ASSUME HostInv
  PROVE  /\ Typed /\ Based /\ Turns /\ Alternate /\ Levels /\ Aligned
         /\ pc \in Sites /\ Sp \in Int
         /\ calls # <<>> => Last(calls) \in Nat
         /\ Running => ~InNative
         /\ calls # <<>> => Sp <= Last(calls)
         /\ calls # <<>> /\ InNative => Sp + 4 <= Last(calls)
<1>1. Typed /\ Based /\ Turns /\ Alternate /\ Levels /\ Aligned /\ pc \in Sites /\ Sp \in Int
  BY ControlFacts DEF HostInv, Turns, Typed
<1>2. calls # <<>> => Last(calls) \in Nat
  BY <1>1, FrontFacts DEF Typed
<1>3. Running => ~InNative
  BY DEF Running, InNative
<1>4. calls # <<>> /\ InNative => Sp + 4 <= Last(calls)
  BY <1>1 DEF Levels
<1>5. calls # <<>> /\ ~InNative => Sp + 0 <= Last(calls)
  BY <1>1 DEF Levels
<1> QED
  BY <1>1, <1>2, <1>3, <1>4, <1>5

LEMMA HostJump ==
  ASSUME HostInv, NEW site \in Sites, Jump(site)
  PROVE  HostInv'
<1>1. FramesTyped' /\ Based' /\ Sp' = Sp
  BY HostFacts, SameFrames DEF Jump
<1>2. UNCHANGED <<calls, control>> /\ pc' \in Sites
  BY DEF Jump
<1>3. calls # <<>> => Sp' + (IF InNative THEN 4 ELSE 0) <= Last(calls)
  BY <1>1 DEF HostInv, Levels
<1> QED
  BY <1>1, <1>2, <1>3, HostFacts, HostStays

LEMMA HostAllocReg ==
  ASSUME HostInv, NEW nreg \in Regcs, AllocReg(nreg)
  PROVE  HostInv'
<1> DEFINE h == [mem[sdp] EXCEPT !.vregc = nreg]
<1>1. UNCHANGED <<pc, sdp, saved, calls, control>> /\ Bases' = Bases /\ Sp' = Sp
  BY DEF AllocReg, Bases, Sp
<1>2. sdp \in DOMAIN mem /\ mem[sdp] \in Header
  BY BaseFacts, HostFacts
<1>3. h \in Header
  BY <1>2 DEF Header
<1>4. mem' = [mem EXCEPT ![sdp] = h]
  BY <1>2 DEF AllocReg
<1> HIDE DEF h
<1>5. DOMAIN mem' = DOMAIN mem /\ mem' \in [DOMAIN mem' -> Header] /\ DOMAIN mem' \subseteq Nat
  BY <1>3, <1>4, HostFacts DEF Typed
<1>6. FramesTyped'
  BY <1>1, <1>5, HostFacts DEF Typed, FramesTyped
<1>7. Based'
  BY <1>1, <1>5, HostFacts DEF Based
<1>8. calls # <<>> => Sp' + (IF InNative THEN 4 ELSE 0) <= Last(calls)
  BY <1>1 DEF HostInv, Levels
<1> QED
  BY <1>1, <1>6, <1>7, <1>8, HostFacts, HostStays

LEMMA HostCall ==
  ASSUME HostInv, NEW type \in {"CALL", "NEW"}, NEW dst \in Dsts, NEW argc \in Argcs,
         NEW entry \in Sites, Call(type, dst, argc, entry)
  PROVE  HostInv'
<1>1. FramesTyped' /\ Based' /\ Sp' = Sp - 4
  BY HostFacts, PushKeepsBases DEF Call
<1>2. UNCHANGED <<calls, control>> /\ pc' \in Sites /\ ~InNative
  BY HostFacts DEF Call
<1>3. Sp' \in Int /\ (calls # <<>> => Sp' <= Last(calls))
  BY <1>1, HostFacts
<1>4. calls # <<>> => Sp' + (IF InNative THEN 4 ELSE 0) <= Last(calls)
  BY <1>2, <1>3
<1> QED
  BY <1>1, <1>2, <1>3, <1>4, HostStays

LEMMA HostCallNative ==
  ASSUME HostInv, NEW dst \in Dsts, NEW argc \in Argcs, CallNative(dst, argc)
  PROVE  HostInv'
<1>1. FramesTyped' /\ Based' /\ Sp' = Sp - 4
  BY HostFacts, PushKeepsBases DEF CallNative
<1>2. /\ control' = Append(control, "native") /\ pc' = pc /\ calls' = calls
      /\ Running /\ control # <<>> /\ Last(control) # "native"
  BY DEF CallNative, Running
<1>3. /\ control' \in Seq(Kinds) /\ Len(control') = Len(control) + 1
      /\ Alternate' /\ Main' = Main /\ ~Running' /\ InNative'
  BY <1>2, HostFacts, ControlGrows
<1>4. Turns'
  <2>1. Len(control) + 1 = 2 * (Len(calls) + Main)
    BY <1>2, HostFacts DEF Turns
  <2>2. Len(control') + 0 = 2 * (Len(calls') + Main')
    BY <1>2, <1>3, <2>1, HostFacts, ControlFacts
  <2> QED
    BY <1>3, <2>2 DEF Turns
<1>5. calls' # <<>> => Sp' + (IF InNative' THEN 4 ELSE 0) <= Last(calls')
  BY <1>1, <1>2, <1>3, HostFacts
<1>6. Levels' /\ Aligned'
  BY <1>2, <1>5, HostFacts DEF Levels, Aligned
<1>7. HostTyped'
  BY <1>2, <1>3, HostFacts DEF Typed, HostTyped
<1> QED
  BY <1>1, <1>4, <1>6, <1>7, HostTogetherThen

LEMMA HostNativeReturn ==
  ASSUME HostInv, NativeReturn
  PROVE  HostInv'
<1> PICK c : c = Len(control)
  OBVIOUS
<1>1. FramesTyped' /\ Based' /\ Sp' = Sp + 4
  BY HostFacts, PopKeepsBases DEF NativeReturn
<1>2. /\ control' = Front(control) /\ pc' = pc /\ calls' = calls
      /\ InNative /\ control # <<>> /\ ~Running /\ control \in Seq(Kinds)
  BY HostFacts, ControlFacts DEF NativeReturn, InNative, Running
<1>3. /\ c \in Nat /\ c > 0 /\ control[c] = "native"
      /\ control' \in Seq(Kinds) /\ Len(control') = c - 1
      /\ \A j \in 1 .. c - 1 : control'[j] = control[j]
  BY <1>2, FrontFacts DEF InNative
<1>a. control[1] # "native"
  BY <1>2, HostFacts DEF Alternate
<1>b. \A j \in 1 .. c - 1 : control[j] = "native" <=> control[j + 1] # "native"
  BY HostFacts DEF Alternate
<1>c. \A j \in 2 .. c : control[j] # "main"
  BY HostFacts DEF Alternate
<1>4. c > 1 /\ control' # <<>>
  BY <1>3, <1>a, EmptySeq
<1>5. control'[1] = control[1] /\ control'[c - 1] = control[c - 1]
  <2>1. 1 \in 1 .. c - 1 /\ c - 1 \in 1 .. c - 1
    BY <1>3, <1>4
  <2> QED
    BY <1>3, <2>1
<1>6. Main' = Main
  BY <1>2, <1>4, <1>5, MainStays
<1>7. Running' /\ ~InNative'
  <2>1. c - 1 \in 1 .. c - 1 /\ (c - 1) + 1 = c
    BY <1>3, <1>4
  <2>2. control[c - 1] = "native" <=> control[(c - 1) + 1] # "native"
    BY <1>b, <2>1
  <2>3. control'[c - 1] # "native"
    BY <1>3, <1>5, <2>1, <2>2
  <2>4. control'[c - 1] \in Kinds
    BY <1>3, <2>1, ElementOfSeq
  <2> QED
    BY <1>3, <1>4, <2>3, <2>4 DEF Running, InNative, Last, Kinds
<1>8. Alternate'
  <2>1. ASSUME NEW j \in 1 .. c - 1 - 1
        PROVE  control'[j] = "native" <=> control'[j + 1] # "native"
    <3>1. j \in 1 .. c - 1 /\ j + 1 \in 1 .. c - 1
      BY <1>3
    <3> QED
      BY <1>3, <1>b, <3>1
  <2>2. ASSUME NEW j \in 2 .. c - 1 PROVE control'[j] # "main"
    <3>1. j \in 1 .. c - 1 /\ j \in 2 .. c
      BY <1>3
    <3> QED
      BY <1>3, <1>c, <3>1
  <2> QED
    BY <1>3, <1>5, <1>a, <2>1, <2>2 DEF Alternate
<1>9. Turns'
  <2>1. c + 0 = 2 * (Len(calls) + Main)
    BY <1>2, HostFacts DEF Turns
  <2>2. Len(control') + 1 = 2 * (Len(calls') + Main')
    BY <1>2, <1>3, <1>6, <2>1
  <2> QED
    BY <1>7, <1>8, <2>2 DEF Turns
<1>10. calls' # <<>> => Sp' + (IF InNative' THEN 4 ELSE 0) <= Last(calls')
  <2>1. calls' # <<>> => Sp' <= Last(calls')
    BY <1>1, <1>2, HostFacts
  <2>2. Sp' \in Int
    BY <1>1, HostFacts
  <2> QED
    BY <1>7, <2>1, <2>2
<1>11. Levels' /\ Aligned'
  BY <1>2, <1>10, HostFacts DEF Levels, Aligned
<1>12. HostTyped'
  BY <1>2, <1>3, HostFacts DEF Typed, HostTyped
<1> QED
  BY <1>1, <1>9, <1>11, <1>12, HostTogetherThen

LEMMA HostCallFails ==
  ASSUME HostInv, NEW type \in {"CALL", "NEW"}, NEW dst \in Dsts, NEW argc \in Argcs,
         CallFails(type, dst, argc)
  PROVE  HostInv'
<1>1. FramesTyped' /\ Based' /\ Sp' \in Int /\ Sp' <= Sp
  <2>1. CASE HasRoom
    <3>1. FramesTyped' /\ Based' /\ Sp' = Sp - 4
      BY <2>1, HostFacts, PushKeepsBases DEF CallFails
    <3> QED
      BY <3>1, HostFacts
  <2>2. CASE ~HasRoom
    <3>1. FramesTyped' /\ Based' /\ Sp' = Sp
      BY <2>2, HostFacts, SameFrames DEF CallFails
    <3> QED
      BY <3>1, HostFacts
  <2> QED
    BY <2>1, <2>2
<1>2. Running /\ EndRun /\ pc' \in Sites
  BY HostFacts DEF CallFails
<1>3. /\ Turns' /\ Levels' /\ Aligned'
      /\ calls' \in Seq(Nat) /\ Len(calls') <= MaxDepth /\ control' \in Seq(Kinds)
  BY <1>1, <1>2, EndRunLevels
<1> QED
  BY <1>1, <1>2, <1>3, HostTogetherThen DEF HostTyped

LEMMA HostHalt ==
  ASSUME HostInv, Halt
  PROVE  HostInv'
<1>1. FramesTyped' /\ Based' /\ Sp' = Sp /\ Running /\ EndRun /\ pc' \in Sites
  BY HostFacts, SameFrames DEF Halt
<1>2. Sp' \in Int /\ Sp' <= Sp
  BY <1>1, HostFacts
<1>3. /\ Turns' /\ Levels' /\ Aligned'
      /\ calls' \in Seq(Nat) /\ Len(calls') <= MaxDepth /\ control' \in Seq(Kinds)
  BY <1>1, <1>2, EndRunLevels
<1> QED
  BY <1>1, <1>3, HostTogetherThen DEF HostTyped

(* Levels and the ends of the table are apart by whole entries.            *)
LEMMA LevelsAligned ==
  ASSUME HostInv, calls # <<>>
  PROVE  \A i \in 1 .. Len(calls) : \E m \in Nat : calls[i] = StackSize - 4 * m
<1> SUFFICES ASSUME NEW i \in 1 .. Len(calls)
             PROVE  \E m \in Nat : calls[i] = StackSize - 4 * m
  OBVIOUS
<1>1. PICK m \in 0 .. StackSize : calls[i] = StackSize - 4 * m
  BY HostFacts DEF Aligned
<1>2. m \in Nat
  BY StackAssumption
<1> QED
  BY <1>1, <1>2

LEMMA HostReturn ==
  ASSUME HostInv, Return
  PROVE  HostInv'
<1>1. FramesTyped' /\ Based' /\ Sp' = Sp + 4 /\ UNCHANGED <<calls, control>> /\ ~InNative
  BY HostFacts, PopKeepsBases DEF Return
<1>2. pc' \in Sites
  BY HostFacts, BaseFacts DEF Return
<1>3. calls # <<>> => Sp' <= Last(calls)
  <2> SUFFICES ASSUME calls # <<>> PROVE Sp' <= Last(calls)
    OBVIOUS
  <2>1. Len(calls) \in 1 .. Len(calls) /\ Last(calls) = calls[Len(calls)]
    BY HostFacts, ControlFacts DEF Last
  <2>2. PICK m \in Nat : Last(calls) = StackSize - 4 * m
    BY <2>1, LevelsAligned
  <2>3. Sp = StackSize - 4 * Len(saved) /\ StackSize \in Nat /\ Len(saved) \in Nat
    BY HostFacts, SpFacts, BasesFacts
  <2>4. Sp # Last(calls) /\ Sp <= Last(calls)
    BY HostFacts DEF Return, AtExternalLevel
  <2>5. m < Len(saved)
    BY <2>2, <2>3, <2>4
  <2> QED
    BY <1>1, <2>2, <2>3, <2>5
<1>4. Sp' \in Int
  BY <1>1, HostFacts
<1>5. calls # <<>> => Sp' + (IF InNative THEN 4 ELSE 0) <= Last(calls)
  BY <1>1, <1>3, <1>4
<1> QED
  BY <1>1, <1>2, <1>4, <1>5, HostStays

(* Below the frame of a nested call of the host the table has entries.     *)
LEMMA LevelBelow ==
  ASSUME HostInv, ReturnToHost, Len(calls) > 1
  PROVE  saved # <<>>
<1>1. calls # <<>> /\ Last(calls) = Sp
  BY DEF ReturnToHost, AtExternalLevel
<1> PICK n : n = Len(calls)
  OBVIOUS
<1>2. n \in Nat /\ n \in 1 .. n /\ n - 1 \in 1 .. n /\ n - 1 \in 1 .. n - 1 /\ (n - 1) + 1 = n
  BY <1>1, HostFacts, ControlFacts
<1>3. PICK m \in Nat : calls[n - 1] = StackSize - 4 * m
  BY <1>1, <1>2, LevelsAligned
<1>4. \A i \in 1 .. n - 1 : calls[i + 1] + 8 <= calls[i]
  BY HostFacts DEF Levels
<1>5. calls[(n - 1) + 1] + 8 <= calls[n - 1]
  BY <1>2, <1>4
<1>6. calls[n] = Sp
  BY <1>1 DEF Last
<1>7. Sp = StackSize - 4 * Len(saved) /\ StackSize \in Nat /\ Len(saved) \in Nat
  BY HostFacts, SpFacts, BasesFacts
<1>8. Sp + 8 <= StackSize - 4 * m
  BY <1>2, <1>3, <1>5, <1>6
<1>9. Len(saved) # 0
  BY <1>7, <1>8
<1> QED
  BY <1>9

LEMMA HostReturnToHost ==
  ASSUME HostInv, ReturnToHost
  PROVE  HostInv'
<1>1. Running /\ EndRun /\ pc' \in Sites /\ calls # <<>> /\ Last(calls) = Sp
  BY HostFacts, BaseFacts DEF ReturnToHost, AtExternalLevel
<1>2. FramesTyped' /\ Based' /\ Sp' \in Int /\ Sp' <= Last(calls) + 4
  <2>1. CASE Len(calls) > 1
    <3>1. saved # <<>> /\ PopFrame
      BY <2>1, LevelBelow DEF ReturnToHost
    <3>2. FramesTyped' /\ Based' /\ Sp' = Sp + 4
      BY <3>1, HostFacts, PopKeepsBases
    <3> QED
      BY <1>1, <3>2, HostFacts
  <2>2. CASE ~(Len(calls) > 1)
    <3>1. FramesTyped' /\ Based' /\ Sp' = Sp
      BY <2>2, HostFacts, SameFrames DEF ReturnToHost
    <3> QED
      BY <1>1, <3>1, HostFacts
  <2> QED
    BY <2>1, <2>2
<1>3. /\ Turns' /\ Levels' /\ Aligned'
      /\ calls' \in Seq(Nat) /\ Len(calls') <= MaxDepth /\ control' \in Seq(Kinds)
  BY <1>1, <1>2, EndRunLevels
<1> QED
  BY <1>1, <1>2, <1>3, HostTogetherThen DEF HostTyped

LEMMA HostFirstCall ==
  ASSUME HostInv, NEW argc \in Argcs, NEW entry \in Sites, FirstCall(argc, entry)
  PROVE  HostInv'
<1> DEFINE h == NewFrame("CALL", 0, argc)
<1>1. /\ saved' = <<>> /\ sdp' = 0 /\ pc' \in Sites /\ calls = <<>> /\ calls' = <<StackSize>>
      /\ control' = Append(control, "extern")
      /\ mem' = [o \in UpTo(0) \cup {0} |-> IF o = 0 THEN h ELSE mem[o]]
      /\ control = <<>> \/ InNative
  BY DEF FirstCall, Callable, PutFrame
<1>2. h \in Header
  BY StackAssumption, HostFacts DEF NewFrame, Header
<1> HIDE DEF h
<1>3. StackSize \in Nat /\ StackSize > 90 /\ MaxDepth \in Nat \ {0}
  BY StackAssumption
<1>4. /\ DOMAIN mem' = {0}
      /\ DOMAIN mem' \subseteq Nat /\ mem' \in [DOMAIN mem' -> Header]
  <2>1. UpTo(0) \cup {0} = {0}
    BY HostFacts DEF UpTo, Typed
  <2>2. mem' = [o \in {0} |-> IF o = 0 THEN h ELSE mem[o]]
    BY <1>1, <2>1
  <2> QED
    BY <1>2, <2>2
<1>5. Len(saved') = 0 /\ FramesTyped'
  BY <1>1, <1>4 DEF FramesTyped
<1>6. Len(Bases') = 1 /\ Bases'[1] = 0
  BY <1>1 DEF Bases
<1>7. Based'
  BY <1>4, <1>6 DEF Based
<1>8. Sp' = StackSize
  BY <1>3, <1>5 DEF Sp, EntrySize
<1>9. calls' \in Seq(Nat) /\ Len(calls') = 1 /\ calls'[1] = StackSize /\ Last(calls') = StackSize
  BY <1>1, <1>3 DEF Last
<1>10. /\ control' \in Seq(Kinds) /\ Len(control') = Len(control) + 1
       /\ Alternate' /\ Main' = Main /\ Running' /\ ~InNative'
  BY <1>1, HostFacts, ControlGrows DEF InNative
<1>11. Turns'
  <2>1. Len(control) + 0 = 2 * (0 + Main)
    <3>1. ~Running /\ Len(calls) = 0
      BY <1>1 DEF InNative, Running
    <3> QED
      BY <3>1, HostFacts DEF Turns
  <2>2. Main \in Nat /\ Len(control) \in Nat
    BY HostFacts, ControlFacts DEF Main
  <2>3. Len(control) + 1 + 1 = 2 * (1 + Main)
    BY <2>1, <2>2
  <2>4. Len(calls') = 1 /\ Len(control') = Len(control) + 1 /\ Main' = Main
    BY <1>9, <1>10
  <2>5. Len(control') + 1 = 2 * (Len(calls') + Main')
    BY <2>3, <2>4
  <2> QED
    BY <1>10, <2>5 DEF Turns
<1>12. Levels'
  <2>1. Sp' + (IF InNative' THEN 4 ELSE 0) <= Last(calls')
    BY <1>3, <1>8, <1>9, <1>10
  <2> QED
    BY <1>9, <2>1 DEF Levels
<1>13. Aligned'
  <2>1. 0 \in 0 .. StackSize /\ StackSize = StackSize - 4 * 0
    BY <1>3
  <2>2. \A i \in 1 .. 1 : calls'[i] = StackSize
    BY <1>9
  <2> QED
    BY <1>9, <2>1, <2>2 DEF Aligned
<1>14. HostTyped'
  BY <1>1, <1>3, <1>9, <1>10 DEF HostTyped
<1> QED
  BY <1>5, <1>7, <1>11, <1>12, <1>13, <1>14, HostTogetherThen

(* A call from within: the running frame is begun anew, and its offset is  *)
(* in the table a second time.                                             *)
LEMMA NestedFrames ==
  ASSUME HostInv, NEW argc \in Argcs, NEW entry \in Sites, NestedCall(argc, entry)
  PROVE  FramesTyped' /\ Based' /\ Sp' = Sp - 4
<1> DEFINE h == NewFrame("CALL", 0, argc)
<1> PICK n : n = Len(saved)
  OBVIOUS
<1>1. /\ n \in Nat /\ Len(Bases) = n + 1
      /\ \A i \in 1 .. n : Bases[i] = saved[i]
      /\ Bases[n + 1] = sdp /\ \A i \in 1 .. n + 1 : Bases[i] \in Nat
  BY HostFacts, BasesFacts
<1>2. /\ saved' = Append(saved, sdp) /\ sdp' = sdp /\ sdp \in Nat
      /\ mem' = [o \in UpTo(sdp) \cup {sdp} |-> IF o = sdp THEN h ELSE mem[o]]
  BY HostFacts DEF NestedCall, PutFrame, Typed
<1>3. h \in Header
  BY StackAssumption, HostFacts DEF NewFrame, Header
<1> HIDE DEF h
<1>4. sdp \in DOMAIN mem /\ UpTo(sdp) = {o \in DOMAIN mem : o <= sdp}
  BY HostFacts, BaseFacts DEF UpTo
<1>5. DOMAIN mem' = UpTo(sdp) \cup {sdp}
  BY <1>2
<1>6. DOMAIN mem' \subseteq Nat /\ mem' \in [DOMAIN mem' -> Header]
  <2>1. \A o \in UpTo(sdp) \cup {sdp} : o \in Nat /\ (IF o = sdp THEN h ELSE mem[o]) \in Header
    BY <1>2, <1>3, <1>4, HostFacts DEF Typed
  <2> QED
    BY <2>1, <1>2
<1>7. /\ saved' \in Seq(Nat) /\ Len(saved') = n + 1
      /\ \A i \in 1 .. n + 1 : saved'[i] = Bases[i]
  BY <1>1, <1>2, HostFacts DEF Typed, Bases
<1>8. /\ Len(Bases') = n + 2
      /\ \A i \in 1 .. n + 1 : Bases'[i] = Bases[i]
      /\ Bases'[n + 2] = sdp
  BY <1>1, <1>2, <1>7, AppendProperties DEF Bases
<1>9. \A i \in 1 .. n + 1 : Bases[i] \in DOMAIN mem' /\ Bases[i] <= sdp
  <2>1. n + 1 \in 1 .. n + 1 /\ \A i \in 1 .. n + 1 : i <= n + 1
    BY <1>1
  <2>2. \A i \in 1 .. n + 1 : Bases[i] \in DOMAIN mem /\ Bases[i] <= sdp
    BY <1>1, <2>1, HostFacts DEF Based
  <2> QED
    BY <1>4, <1>5, <2>2
<1>10. \A i \in 1 .. n + 2 : Bases'[i] \in DOMAIN mem'
  BY <1>1, <1>5, <1>8, <1>9
<1>11. ASSUME NEW i \in 1 .. n + 2, NEW j \in 1 .. n + 2, i <= j
       PROVE  Bases'[i] <= Bases'[j]
  <2>1. CASE j # n + 2
    <3>1. i \in 1 .. n + 1 /\ j \in 1 .. n + 1
      BY <1>1, <1>11, <2>1
    <3>2. Bases[i] <= Bases[j]
      BY <1>1, <1>11, <3>1, HostFacts DEF Based
    <3> QED
      BY <1>8, <3>1, <3>2
  <2>2. CASE j = n + 2 /\ i # n + 2
    <3>1. i \in 1 .. n + 1
      BY <1>1, <2>2
    <3> QED
      BY <1>8, <1>9, <2>2, <3>1
  <2>3. CASE j = n + 2 /\ i = n + 2
    BY <1>2, <1>8, <2>3
  <2> QED
    BY <2>1, <2>2, <2>3
<1>12. Based'
  BY <1>8, <1>10, <1>11 DEF Based
<1>13. Sp' = Sp - 4
  BY <1>1, <1>7, HostFacts, SpFacts DEF Sp, EntrySize
<1> QED
  BY <1>2, <1>6, <1>7, <1>12, <1>13 DEF FramesTyped

LEMMA NestedIsNative ==
  ASSUME HostInv, NEW argc, NEW entry, NestedCall(argc, entry)
  PROVE  InNative /\ ~Running
<1>1. calls # <<>> /\ (control = <<>> \/ InNative)
  BY DEF NestedCall, Callable
<1>2. Len(calls) \in Nat /\ Len(calls) > 0
  BY <1>1, HostFacts, ControlFacts
<1>3. control # <<>>
  <2> SUFFICES ASSUME control = <<>> PROVE FALSE
    OBVIOUS
  <2>1. ~Running /\ Len(control) = 0 /\ Main = 0
    BY DEF Running, Main
  <2>2. 0 + 0 = 2 * (Len(calls) + 0)
    BY <2>1, HostFacts DEF Turns
  <2> QED
    BY <1>2, <2>2
<1> QED
  BY <1>1, <1>3 DEF InNative, Running

LEMMA HostNestedCall ==
  ASSUME HostInv, NEW argc \in Argcs, NEW entry \in Sites, NestedCall(argc, entry)
  PROVE  HostInv'
<1> PICK n : n = Len(calls)
  OBVIOUS
<1>1. FramesTyped' /\ Based' /\ Sp' = Sp - 4
  BY NestedFrames
<1>2. /\ calls # <<>> /\ n < MaxDepth /\ HasRoom /\ pc' \in Sites
      /\ calls' = Append(calls, Sp - 4) /\ control' = Append(control, "extern")
      /\ control = <<>> \/ InNative
  BY DEF NestedCall, Callable, EntrySize
<1>3. n \in Nat /\ n > 0 /\ calls \in Seq(Nat) /\ Sp \in Int /\ MaxDepth \in Nat
  BY <1>2, HostFacts, ControlFacts, StackAssumption
<1>4. InNative /\ ~Running
  BY NestedIsNative
<1>5. Sp - 4 \in Nat
  <2>1. sdp \in Nat /\ FrameSize(mem[sdp]) \in Nat
    BY HostFacts, BaseFacts DEF Typed
  <2>2. sdp + FrameSize(mem[sdp]) + 64 < Sp
    BY <1>2 DEF HasRoom, Reserve
  <2> QED
    BY <1>3, <2>1, <2>2
<1>6. /\ calls' \in Seq(Nat) /\ Len(calls') = n + 1
      /\ \A i \in 1 .. n : calls'[i] = calls[i]
      /\ calls'[n + 1] = Sp - 4
  BY <1>2, <1>3, <1>5, AppendProperties
<1>7. /\ control' \in Seq(Kinds) /\ Len(control') = Len(control) + 1
      /\ Alternate' /\ Main' = Main /\ Running' /\ ~InNative'
  BY <1>2, <1>4, HostFacts, ControlGrows DEF InNative
<1>8. Turns'
  <2>1. Len(control) + 0 = 2 * (n + Main)
    BY <1>4, HostFacts DEF Turns
  <2>2. Main \in Nat /\ Len(control) \in Nat
    BY HostFacts, ControlFacts DEF Main
  <2>3. Len(control) + 1 + 1 = 2 * (n + 1 + Main)
    BY <1>3, <2>1, <2>2
  <2>4. Len(calls') = n + 1 /\ Len(control') = Len(control) + 1 /\ Main' = Main
    BY <1>6, <1>7
  <2>5. Len(control') + 1 = 2 * (Len(calls') + Main')
    BY <2>3, <2>4
  <2> QED
    BY <1>7, <2>5 DEF Turns
<1>9. ASSUME NEW i \in 1 .. n PROVE calls'[i + 1] + 8 <= calls'[i]
  <2>1. CASE i = n
    <3>1. calls'[i + 1] = Sp - 4 /\ calls'[i] = Last(calls)
      BY <1>3, <1>6, <2>1 DEF Last
    <3>2. Sp + 4 <= Last(calls) /\ Last(calls) \in Nat
      BY <1>2, <1>4, HostFacts
    <3> QED
      BY <1>3, <3>1, <3>2
  <2>2. CASE i # n
    <3>1. i \in 1 .. n - 1 /\ i + 1 \in 1 .. n
      BY <1>3, <2>2
    <3>2. calls'[i] = calls[i] /\ calls'[i + 1] = calls[i + 1]
      BY <1>6, <3>1
    <3>3. calls[i + 1] + 8 <= calls[i]
      BY <3>1, HostFacts DEF Levels
    <3> QED
      BY <3>2, <3>3
  <2> QED
    BY <2>1, <2>2
<1>10. Levels'
  <2>1. Sp' + (IF InNative' THEN 4 ELSE 0) <= Last(calls')
    BY <1>1, <1>3, <1>6, <1>7 DEF Last
  <2>2. Len(calls') - 1 = n
    BY <1>3, <1>6
  <2> QED
    BY <1>9, <2>1, <2>2 DEF Levels
<1>11. ASSUME NEW i \in 1 .. n + 1 PROVE \E m \in 0 .. StackSize : calls'[i] = StackSize - 4 * m
  <2>1. CASE i = n + 1
    <3>1. Sp = StackSize - 4 * Len(saved) /\ StackSize \in Nat /\ Len(saved) \in Nat
      BY HostFacts, SpFacts, BasesFacts
    <3>2. Sp - 4 = StackSize - 4 * (Len(saved) + 1)
      BY <3>1
    <3>3. Len(saved) + 1 \in 0 .. StackSize
      BY <1>5, <3>1
    <3> QED
      BY <1>6, <2>1, <3>2, <3>3
  <2>2. CASE i # n + 1
    <3>1. i \in 1 .. n
      BY <1>3, <2>2
    <3> QED
      BY <1>6, <3>1, HostFacts DEF Aligned
  <2> QED
    BY <2>1, <2>2
<1>12. Aligned'
  BY <1>6, <1>11 DEF Aligned
<1>13. HostTyped'
  BY <1>2, <1>3, <1>6, <1>7 DEF HostTyped
<1> QED
  BY <1>1, <1>8, <1>10, <1>12, <1>13, HostTogetherThen

LEMMA HostInit == Init => HostInv
<1> SUFFICES ASSUME Init PROVE HostInv
  OBVIOUS
<1> DEFINE h == NewFrame("CALL", 0, 0)
<1>1. /\ pc \in Sites /\ sdp = 0 /\ saved = <<>> /\ calls = <<>> /\ control = <<"main">>
      /\ mem = [o \in {0} |-> h]
  BY DEF Init
<1>2. h \in Header
  BY <1>1, StackAssumption DEF NewFrame, Header
<1> HIDE DEF h
<1>3. DOMAIN mem = {0} /\ mem \in [DOMAIN mem -> Header]
  BY <1>1, <1>2
<1>4. FramesTyped /\ HostTyped
  BY <1>1, <1>3, StackAssumption DEF FramesTyped, HostTyped, Kinds
<1>5. Len(Bases) = 1 /\ Bases[1] = 0
  BY <1>1 DEF Bases
<1>6. Based
  BY <1>3, <1>5 DEF Based
<1>7. Len(control) = 1 /\ control[1] = "main" /\ control # <<>> /\ Len(calls) = 0
  BY <1>1
<1>8. Running /\ Main = 1
  BY <1>7 DEF Running, Main, Last
<1>9. Turns
  BY <1>7, <1>8 DEF Turns, Alternate
<1>10. Levels /\ Aligned
  BY <1>1, <1>7 DEF Levels, Aligned
<1> QED
  BY <1>4, <1>6, <1>9, <1>10, HostTogether

LEMMA HostStep == HostInv /\ [Next]_vars => HostInv'
<1> SUFFICES ASSUME HostInv, [Next]_vars PROVE HostInv'
  OBVIOUS
<1>1. CASE Instruction
  <2>1. ASSUME NEW type \in {"CALL", "NEW"}, NEW dst \in Dsts, NEW argc \in Argcs,
               \/ \E entry \in Sites : Call(type, dst, argc, entry)
               \/ CallFails(type, dst, argc)
        PROVE  HostInv'
    BY <2>1, HostCall, HostCallFails
  <2> QED
    BY <1>1, <2>1, HostJump, HostAllocReg, HostCallNative, HostReturn, HostReturnToHost, HostHalt
    DEF Instruction
<1>2. CASE UNCHANGED vars
  <2>1. FramesTyped' /\ Based' /\ Sp' = Sp
    BY <1>2, HostFacts, SameFrames DEF vars
  <2>2. calls # <<>> => Sp' + (IF InNative THEN 4 ELSE 0) <= Last(calls)
    BY <2>1, HostFacts DEF Levels
  <2>3. UNCHANGED <<calls, control>> /\ pc' \in Sites
    BY <1>2, HostFacts DEF vars
  <2> QED
    BY <2>1, <2>2, <2>3, HostFacts, HostStays
<1> QED
  BY <1>1, <1>2, HostNativeReturn, HostFirstCall, HostNestedCall DEF Next

(***************************************************************************)
(* How the frames lie, whoever calls and however wide they are.            *)
(***************************************************************************)

(* One behind the other, or where the native function that calls is.       *)
Behind ==
  \A i \in 1 .. Len(saved) :
    \/ Bases[i + 1] = Bases[i] + FrameSize(mem[Bases[i]])
    \/ calledBack /\ Bases[i + 1] = Bases[i]

Ordered == \A i, j \in 1 .. Len(Bases) : i < j => Bases[i] < Bases[j]

(* Of what a call keeps free, 58 bytes are left to the frame it begins:    *)
(* the header and ten arguments and registers.                             *)
Roomy == sdp + 58 <= Sp

FitInv ==
  /\ calledBack \in BOOLEAN
  /\ Bases[1] = 0 /\ Behind
  /\ ~calledBack => Ordered
  /\ Roomy

LEMMA FitPush ==
  ASSUME HostInv, FitInv, HasRoom, UNCHANGED calledBack,
         NEW type \in {"CALL", "NEW"}, NEW dst \in Dsts, NEW argc \in Argcs,
         PushFrame(type, dst, argc)
  PROVE  FitInv'
<1> DEFINE n == Len(saved)
           next == sdp + FrameSize(mem[sdp])
<1>1. Typed /\ Based /\ Sp \in Int /\ Sp' = Sp - 4
  BY HostFacts, PushKeepsBases
<1>2. /\ n \in Nat /\ sdp \in Nat /\ next \in Nat /\ next >= sdp + 18
      /\ Len(Bases) = n + 1 /\ Bases[n + 1] = sdp
      /\ Len(saved') = n + 1 /\ sdp' = next
      /\ Len(Bases') = n + 2 /\ Bases'[n + 2] = next
      /\ \A i \in 1 .. n + 1 : /\ Bases'[i] = Bases[i] /\ Bases[i] \in Nat /\ Bases[i] <= sdp
                               /\ mem'[Bases[i]] = mem[Bases[i]]
  BY <1>1, PushFacts
<1>3. Bases'[1] = 0
  <2>1. 1 \in 1 .. n + 1
    BY <1>2
  <2> QED
    BY <1>2, <2>1 DEF FitInv
<1>4. Behind'
  <2> SUFFICES ASSUME NEW i \in 1 .. n + 1
               PROVE  \/ Bases'[i + 1] = Bases'[i] + FrameSize(mem'[Bases'[i]])
                      \/ calledBack' /\ Bases'[i + 1] = Bases'[i]
    BY <1>2 DEF Behind
  <2>1. Bases'[i] = Bases[i] /\ mem'[Bases'[i]] = mem[Bases[i]]
    BY <1>2
  <2>2. CASE i = n + 1
    BY <1>2, <2>1, <2>2
  <2>3. CASE i # n + 1
    <3>1. i \in 1 .. n /\ i + 1 \in 1 .. n + 1
      BY <1>2, <2>3
    <3>2. \/ Bases[i + 1] = Bases[i] + FrameSize(mem[Bases[i]])
          \/ calledBack /\ Bases[i + 1] = Bases[i]
      BY <3>1 DEF FitInv, Behind
    <3>3. Bases'[i + 1] = Bases[i + 1]
      BY <1>2, <3>1
    <3> QED
      BY <2>1, <3>2, <3>3
  <2> QED
    BY <2>2, <2>3
<1>5. ~calledBack' => Ordered'
  <2> SUFFICES ASSUME Ordered, NEW i \in 1 .. n + 2, NEW j \in 1 .. n + 2, i < j
               PROVE  Bases'[i] < Bases'[j]
    BY <1>2 DEF FitInv, Ordered
  <2> HIDE DEF next
  <2>1. i \in 1 .. n + 1
    BY <1>2
  <2>2. CASE j = n + 2
    BY <1>2, <2>1, <2>2
  <2>3. CASE j # n + 2
    <3>1. j \in 1 .. n + 1
      BY <1>2, <2>3
    <3> QED
      BY <1>2, <2>1, <3>1 DEF Ordered
  <2> QED
    BY <2>2, <2>3
<1>6. Roomy'
  <2> HIDE DEF next
  <2>1. next + 64 < Sp
    BY DEF HasRoom, Reserve, next
  <2> QED
    BY <1>1, <1>2, <2>1 DEF Roomy
<1> QED
  BY <1>3, <1>4, <1>5, <1>6 DEF FitInv

LEMMA FitPop ==
  ASSUME HostInv, FitInv, saved # <<>>, PopFrame, UNCHANGED calledBack
  PROVE  FitInv'
<1> DEFINE n == Len(saved)
           base == Last(saved)
<1>1. Typed /\ Based /\ Sp \in Int /\ Sp' = Sp + 4
  BY HostFacts, PopKeepsBases
<1>2. /\ n \in Nat /\ n > 0 /\ sdp \in Nat /\ base \in Nat /\ base <= sdp
      /\ Len(Bases) = n + 1
      /\ Len(saved') = n - 1 /\ sdp' = base
      /\ Len(Bases') = n
      /\ \A i \in 1 .. n : /\ Bases'[i] = Bases[i] /\ Bases[i] \in Nat /\ Bases[i] <= base
                           /\ mem'[Bases[i]] = mem[Bases[i]]
  BY <1>1, PopFacts
<1> HIDE DEF base
<1>3. Bases'[1] = 0
  <2>1. 1 \in 1 .. n
    BY <1>2
  <2> QED
    BY <1>2, <2>1 DEF FitInv
<1>4. Behind'
  <2> SUFFICES ASSUME NEW i \in 1 .. n - 1
               PROVE  \/ Bases'[i + 1] = Bases'[i] + FrameSize(mem'[Bases'[i]])
                      \/ calledBack' /\ Bases'[i + 1] = Bases'[i]
    BY <1>2 DEF Behind
  <2>1. i \in 1 .. n /\ i + 1 \in 1 .. n
    BY <1>2
  <2>2. \/ Bases[i + 1] = Bases[i] + FrameSize(mem[Bases[i]])
        \/ calledBack /\ Bases[i + 1] = Bases[i]
    BY <2>1 DEF FitInv, Behind
  <2>3. Bases'[i] = Bases[i] /\ Bases'[i + 1] = Bases[i + 1] /\ mem'[Bases'[i]] = mem[Bases[i]]
    BY <1>2, <2>1
  <2> QED
    BY <2>2, <2>3
<1>5. ~calledBack' => Ordered'
  <2> SUFFICES ASSUME Ordered, NEW i \in 1 .. n, NEW j \in 1 .. n, i < j
               PROVE  Bases'[i] < Bases'[j]
    BY <1>2 DEF FitInv, Ordered
  <2>1. i \in 1 .. n + 1 /\ j \in 1 .. n + 1
    BY <1>2
  <2> QED
    BY <1>2, <2>1 DEF Ordered
<1>6. Roomy'
  <2>1. sdp + 58 <= Sp
    BY DEF FitInv, Roomy
  <2> QED
    BY <1>1, <1>2, <2>1 DEF Roomy
<1> QED
  BY <1>3, <1>4, <1>5, <1>6 DEF FitInv

LEMMA FitSame ==
  ASSUME FitInv, UNCHANGED <<sdp, saved, mem, calledBack>>
  PROVE  FitInv'
BY DEF FitInv, Behind, Ordered, Roomy, Bases, Sp

(* A step that changes the header of the running frame only.               *)
LEMMA HeaderStep ==
  ASSUME HostInv, FitInv, NEW h, mem'[sdp] = h, UNCHANGED <<sdp, saved, calledBack>>,
         \A o \in DOMAIN mem : o # sdp => mem'[o] = mem[o]
  PROVE  FitInv'
<1> DEFINE n == Len(saved)
<1>1. /\ n \in Nat /\ Len(Bases) = n + 1 /\ Bases[n + 1] = sdp
      /\ \A i \in 1 .. n + 1 : Bases[i] \in Nat
  BY HostFacts, BasesFacts
<1>2. Bases' = Bases /\ Sp' = Sp /\ Len(saved') = n /\ sdp' = sdp /\ calledBack' = calledBack
  BY DEF Bases, Sp
<1>3. ASSUME NEW i \in 1 .. n
      PROVE  \/ Bases[i + 1] = Bases[i] + FrameSize(mem'[Bases[i]])
             \/ calledBack /\ Bases[i + 1] = Bases[i]
  <2>1. /\ i \in 1 .. n + 1 /\ i + 1 \in 1 .. n + 1 /\ n + 1 \in 1 .. n + 1
        /\ i <= i + 1 /\ i + 1 <= n + 1
    BY <1>1
  <2>2. \/ Bases[i + 1] = Bases[i] + FrameSize(mem[Bases[i]])
        \/ calledBack /\ Bases[i + 1] = Bases[i]
    BY DEF FitInv, Behind
  <2>3. /\ Bases[i] \in DOMAIN mem /\ Bases[i] <= Bases[i + 1] /\ Bases[i + 1] <= sdp
        /\ mem[Bases[i]] \in Header
    BY <1>1, <2>1, HostFacts DEF Based, Typed
  <2>4. CASE Bases[i] = sdp
    <3>1. Bases[i + 1] = Bases[i]
      BY <1>1, <2>1, <2>3, <2>4
    <3>2. FrameSize(mem[Bases[i]]) \in Nat /\ FrameSize(mem[Bases[i]]) >= 18
      BY <2>3, SizeAtLeast
    <3>3. Bases[i + 1] # Bases[i] + FrameSize(mem[Bases[i]])
      BY <1>1, <2>1, <3>1, <3>2
    <3> QED
      BY <2>2, <3>3
  <2>5. CASE Bases[i] # sdp
    BY <2>2, <2>3, <2>5
  <2> QED
    BY <2>4, <2>5
<1>4. Behind'
  BY <1>2, <1>3 DEF Behind
<1> QED
  BY <1>2, <1>4 DEF FitInv, Ordered, Roomy

LEMMA FitAllocReg ==
  ASSUME HostInv, FitInv, NEW nreg \in Regcs, AllocReg(nreg), UNCHANGED calledBack
  PROVE  FitInv'
<1>1. mem' = [mem EXCEPT ![sdp].vregc = nreg] /\ UNCHANGED <<sdp, saved, calledBack>>
  BY DEF AllocReg
<1>2. \A o \in DOMAIN mem : o # sdp => mem'[o] = mem[o]
  BY <1>1
<1> QED
  BY <1>1, <1>2, HeaderStep

LEMMA FitFirstCall ==
  ASSUME HostInv, NEW argc \in Argcs, NEW entry \in Sites, FirstCall(argc, entry),
         calledBack' = (control # <<>>)
  PROVE  FitInv'
<1>1. saved' = <<>> /\ sdp' = 0
  BY DEF FirstCall
<1>2. Len(saved') = 0 /\ Len(Bases') = 1 /\ Bases'[1] = 0
  BY <1>1 DEF Bases
<1>3. Behind' /\ Ordered'
  BY <1>2 DEF Behind, Ordered
<1>4. Roomy'
  BY <1>1, <1>2, StackAssumption DEF Roomy, Sp, EntrySize
<1> QED
  BY <1>2, <1>3, <1>4 DEF FitInv

(* The frame of a call that a native function makes is begun in place of   *)
(* its own, of which the table now has the offset twice.                   *)
LEMMA FitNestedCall ==
  ASSUME HostInv, FitInv, NEW argc \in Argcs, NEW entry \in Sites, NestedCall(argc, entry),
         calledBack' = (control # <<>>)
  PROVE  FitInv'
<1> DEFINE n == Len(saved)
           h == NewFrame("CALL", 0, argc)
<1>1. /\ n \in Nat /\ Len(Bases) = n + 1
      /\ \A i \in 1 .. n : Bases[i] = saved[i]
      /\ Bases[n + 1] = sdp /\ \A i \in 1 .. n + 1 : Bases[i] \in Nat
  BY HostFacts, BasesFacts
<1>2. /\ saved' = Append(saved, sdp) /\ sdp' = sdp /\ sdp \in Nat /\ HasRoom
      /\ mem' = [o \in UpTo(sdp) \cup {sdp} |-> IF o = sdp THEN h ELSE mem[o]]
  BY HostFacts DEF NestedCall, PutFrame, Typed
<1> HIDE DEF h
<1>3. calledBack' = TRUE
  BY NestedIsNative DEF InNative
<1>4. Sp \in Int /\ Sp' = Sp - 4 /\ Typed /\ Based
  BY HostFacts, NestedFrames
<1>5. Len(saved') = n + 1 /\ \A i \in 1 .. n + 1 : saved'[i] = Bases[i]
  BY <1>1, <1>2, HostFacts DEF Typed, Bases
<1>6. /\ Len(Bases') = n + 2 /\ Bases'[n + 2] = sdp
      /\ \A i \in 1 .. n + 1 : Bases'[i] = Bases[i]
  <2>1. saved' \in Seq(Nat)
    BY <1>2, HostFacts DEF Typed
  <2> QED
    BY <1>1, <1>2, <1>5, <2>1, AppendProperties DEF Bases
<1>7. Bases'[1] = 0
  <2>1. 1 \in 1 .. n + 1
    BY <1>1
  <2> QED
    BY <1>6, <2>1 DEF FitInv
<1>8. ASSUME NEW i \in 1 .. n + 1
      PROVE  \/ Bases'[i + 1] = Bases'[i] + FrameSize(mem'[Bases'[i]])
             \/ Bases'[i + 1] = Bases'[i]
  <2>1. CASE i = n + 1
    BY <1>1, <1>6, <2>1
  <2>2. CASE i # n + 1
    <3>1. /\ i \in 1 .. n /\ i + 1 \in 1 .. n + 1 /\ n + 1 \in 1 .. n + 1
          /\ i <= i + 1 /\ i + 1 <= n + 1
      BY <1>1, <2>2
    <3>2. Bases'[i] = Bases[i] /\ Bases'[i + 1] = Bases[i + 1]
      BY <1>6, <3>1
    <3>3. /\ Bases[i] \in DOMAIN mem /\ Bases[i] <= Bases[i + 1] /\ Bases[i + 1] <= sdp
          /\ Bases[i] \in Nat /\ Bases[i + 1] \in Nat
      BY <1>1, <1>4, <3>1 DEF Based
    <3>4. CASE Bases[i] = sdp
      BY <1>2, <3>2, <3>3, <3>4
    <3>5. CASE Bases[i] # sdp
      <4>1. Bases[i] \in UpTo(sdp)
        BY <1>2, <3>3 DEF UpTo
      <4>2. mem'[Bases[i]] = mem[Bases[i]]
        BY <1>2, <3>5, <4>1
      <4>3. \/ Bases[i + 1] = Bases[i] + FrameSize(mem[Bases[i]])
            \/ Bases[i + 1] = Bases[i]
        BY <3>1 DEF FitInv, Behind
      <4> QED
        BY <3>2, <4>2, <4>3
    <3> QED
      BY <3>4, <3>5
  <2> QED
    BY <2>1, <2>2
<1>9. Behind'
  BY <1>3, <1>5, <1>8 DEF Behind
<1>10. Roomy'
  <2>1. FrameSize(mem[sdp]) \in Nat /\ FrameSize(mem[sdp]) >= 18
    BY HostFacts, BaseFacts
  <2>2. sdp + FrameSize(mem[sdp]) + 64 < Sp
    BY <1>2 DEF HasRoom, Reserve
  <2>3. sdp + 82 < Sp
    BY <1>2, <1>4, <2>1, <2>2
  <2> QED
    BY <1>2, <1>4, <2>3 DEF Roomy
<1> QED
  BY <1>3, <1>7, <1>9, <1>10 DEF FitInv

LEMMA FitInit == Init => FitInv
<1> SUFFICES ASSUME Init PROVE FitInv
  OBVIOUS
<1>1. sdp = 0 /\ saved = <<>> /\ calledBack = FALSE
  BY DEF Init
<1>2. Len(saved) = 0 /\ Len(Bases) = 1 /\ Bases[1] = 0
  BY <1>1 DEF Bases
<1>3. Behind /\ Ordered
  BY <1>2 DEF Behind, Ordered
<1>4. Roomy
  BY <1>1, <1>2, StackAssumption DEF Roomy, Sp, EntrySize
<1> QED
  BY <1>1, <1>2, <1>3, <1>4 DEF FitInv

LEMMA FitStep == HostInv /\ FitInv /\ [Next]_vars => FitInv'
<1> SUFFICES ASSUME HostInv, FitInv, [Next]_vars PROVE FitInv'
  OBVIOUS
<1>1. CASE Instruction /\ UNCHANGED calledBack
  <2>1. ASSUME NEW type \in {"CALL", "NEW"}, NEW dst \in Dsts, NEW argc \in Argcs,
               \/ \E entry \in Sites : Call(type, dst, argc, entry)
               \/ CallFails(type, dst, argc)
        PROVE  FitInv'
    <3>1. CASE HasRoom
      BY <1>1, <2>1, <3>1, FitPush DEF Call, CallFails
    <3>2. CASE ~HasRoom
      BY <1>1, <2>1, <3>2, FitSame DEF Call, CallFails
    <3> QED
      BY <3>1, <3>2
  <2>2. ASSUME NEW dst \in Dsts, NEW argc \in Argcs, CallNative(dst, argc) PROVE FitInv'
    <3>1. "CALL" \in {"CALL", "NEW"}
      OBVIOUS
    <3> QED
      BY <1>1, <2>2, <3>1, FitPush DEF CallNative
  <2>3. CASE Return
    BY <1>1, <2>3, FitPop DEF Return
  <2>4. CASE ReturnToHost
    <3>1. CASE Len(calls) > 1
      BY <1>1, <2>4, <3>1, FitPop, LevelBelow DEF ReturnToHost
    <3>2. CASE ~(Len(calls) > 1)
      BY <1>1, <2>4, <3>2, FitSame DEF ReturnToHost
    <3> QED
      BY <3>1, <3>2
  <2>5. ASSUME NEW site \in Sites, Jump(site) PROVE FitInv'
    BY <1>1, <2>5, FitSame DEF Jump
  <2>6. CASE Halt
    BY <1>1, <2>6, FitSame DEF Halt
  <2> QED
    BY <1>1, <2>1, <2>2, <2>3, <2>4, <2>5, <2>6, FitAllocReg DEF Instruction
<1>2. CASE NativeReturn /\ UNCHANGED calledBack
  BY <1>2, FitPop DEF NativeReturn
<1>3. ASSUME NEW argc \in Argcs, NEW entry \in Sites,
             FirstCall(argc, entry) \/ NestedCall(argc, entry), calledBack' = (control # <<>>)
      PROVE  FitInv'
  BY <1>3, FitFirstCall, FitNestedCall
<1>4. CASE UNCHANGED vars
  BY <1>4, FitSame DEF vars
<1> QED
  BY <1>1, <1>2, <1>3, <1>4 DEF Next

LEMMA FitFits ==
  ASSUME HostInv, FitInv
  PROVE  FramesFit
<1>1. Typed /\ Based
  BY HostFacts
<1>2. ASSUME Overrun PROVE mem[sdp].argc + mem[sdp].vregc > 10
  <2>1. mem[sdp] \in Header /\ sdp \in Nat /\ Sp \in Int
    BY <1>1, BaseFacts, SpFacts DEF Typed
  <2>2. mem[sdp].argc \in Nat /\ mem[sdp].vregc \in Nat
    BY <2>1, StackAssumption DEF Header
  <2>3. sdp + (18 + 4 * (mem[sdp].argc + mem[sdp].vregc)) > Sp /\ sdp + 58 <= Sp
    BY <1>2 DEF Overrun, FrameSize, HeaderSize, ValSize, FitInv, Roomy
  <2> QED
    BY <2>1, <2>2, <2>3
<1> QED
  BY <1>1, <1>2 DEF FramesFit, FitInv, Behind, Based

(* The type invariant, whoever calls and however wide the frames are.      *)
THEOREM StackTyped == Spec => []TypeOK
<1>1. HostInv /\ FitInv => TypeOK
  BY DEF HostInv, FitInv, Typed, TypeOK
<1> QED
  BY <1>1, HostInit, HostStep, FitInit, FitStep, PTL DEF Spec

(* Native functions may call the machine back, from the program and from   *)
(* each other, as deep as the table of levels allows, and calls may fail   *)
(* anywhere: still no run of xjr_vm_start returns into a frame of those    *)
(* that called it.                                                         *)
THEOREM RunsKeepToTheirFrames == Spec => []OwnFramesOnly
<1>1. HostInv => OwnFramesOnly
  BY HostFacts DEF OwnFramesOnly
<1> QED
  BY <1>1, HostInit, HostStep, PTL DEF Spec

(* On a stack of any size, for functions of any width, and however calls,  *)
(* returns, failures and calls of the host follow one another: the frames  *)
(* lie one behind the other, but for that of a call from within a native   *)
(* function, and the first to run into the offsets of the callers has more *)
(* than ten arguments and registers.                                       *)
THEOREM FramesAlwaysFit == Spec => []FramesFit
<1>1. HostInv /\ FitInv => FramesFit
  BY FitFits
<1> QED
  BY <1>1, HostInit, HostStep, FitInit, FitStep, PTL DEF Spec

(***************************************************************************)
(* The stack implements the stack of activations, as long as it is not     *)
(* lost.                                                                   *)
(***************************************************************************)

(* The C stack until a native function calls the machine back.             *)
Shape ==
  /\ control = <<>> => calls = <<>>
  /\ control # <<>> =>
       /\ control[1] \in {"main", "extern"}
       /\ control[1] = "main" => calls = <<>>
       /\ control[1] = "extern" => Len(calls) = 1
       /\ Len(control) = 1 \/ (Len(control) = 2 /\ control[2] = "native")

(* A native function is entered without a jump, so that returning from it  *)
(* goes on where its caller is; the one call of the host begins with an    *)
(* empty table.                                                            *)
Resumes ==
  /\ InNative => mem[sdp].restore = pc
  /\ calls # <<>> => calls[1] = StackSize

StackInv == Typed /\ Based /\ Ordered /\ Shape

(* The end of a run of xjr_vm_start.                                       *)
LEMMA EndRunStep ==
  ASSUME StackInv, Running, EndRun
  PROVE  control' = <<>> /\ calls' = <<>>
<1>1. control # <<>> /\ Last(control) \in {"main", "extern"}
  BY DEF Running
<1>2. control \in Seq({"main", "extern", "native"}) /\ calls \in Seq(Nat)
  BY DEF StackInv, Typed
<1>3. Len(control) = 1
  BY <1>1 DEF StackInv, Shape, Last
<1>4. control' = <<>>
  <2>1. Len(Front(control)) = 0 /\ Front(control) \in Seq({"main", "extern", "native"})
    BY <1>1, <1>2, <1>3, FrontFacts
  <2> QED
    BY <2>1, EmptySeq DEF EndRun
<1>5. control[1] = Last(control)
  BY <1>3 DEF Last
<1>6. CASE control[1] = "main"
  BY <1>1, <1>4, <1>5, <1>6 DEF EndRun, StackInv, Shape
<1>7. CASE control[1] = "extern"
  <2>1. Len(calls) = 1 /\ calls # <<>>
    BY <1>1, <1>2, <1>7, EmptySeq DEF StackInv, Shape
  <2>2. Len(Front(calls)) = 0 /\ Front(calls) \in Seq(Nat)
    BY <1>2, <2>1, FrontFacts
  <2> QED
    BY <1>4, <1>5, <1>7, <2>2, EmptySeq DEF EndRun
<1> QED
  BY <1>1, <1>5, <1>6, <1>7


LEMMA EndedShape ==
  ASSUME control' = <<>>, calls' = <<>>
  PROVE  Shape' /\ Resumes'
BY DEF Shape, Resumes, InNative

LEMMA RunningShape ==
  ASSUME StackInv, Resumes, Running, UNCHANGED <<calls, control>>
  PROVE  Shape' /\ Resumes'
BY DEF StackInv, Shape, Resumes, Running, InNative

LEMMA CallNativeShape ==
  ASSUME StackInv, Resumes, NEW dst \in Dsts, NEW argc \in Argcs, CallNative(dst, argc)
  PROVE  Shape' /\ Resumes'
<1>1. /\ PushFrame("CALL", dst, argc) /\ pc' = pc /\ calls' = calls
      /\ Running /\ control' = Append(control, "native")
  BY DEF CallNative
<1>2. control \in Seq(Kinds) /\ control # <<>> /\ Last(control) \in {"main", "extern"}
  BY <1>1 DEF Running, StackInv, Typed, Kinds
<1>3. Len(control) = 1
  BY <1>2 DEF StackInv, Shape, Last
<1>4. Len(control') = 2 /\ control'[1] = control[1] /\ control'[2] = "native"
  <2>1. "native" \in Kinds
    BY DEF Kinds
  <2>2. /\ Len(Append(control, "native")) = Len(control) + 1
        /\ \A i \in 1 .. Len(control) : Append(control, "native")[i] = control[i]
        /\ Append(control, "native")[Len(control) + 1] = "native"
    BY <1>2, <2>1, AppendProperties
  <2> QED
    BY <1>1, <1>3, <2>2
<1>5. control' # <<>>
  <2>1. Len(control') # 0
    BY <1>4
  <2> QED
    BY <2>1
<1>6. Shape'
  BY <1>1, <1>2, <1>4, <1>5 DEF StackInv, Shape
<1>7. mem'[sdp'].restore = pc
  <2> DEFINE h == NewFrame("CALL", dst, argc)
  <2>1. "CALL" \in {"CALL", "NEW"}
    OBVIOUS
  <2>2. mem'[sdp'] = h
    BY <1>1, <2>1, PushFacts DEF StackInv
  <2>3. h.restore = pc
    BY DEF NewFrame
  <2> QED
    BY <2>2, <2>3
<1> QED
  BY <1>1, <1>6, <1>7 DEF Resumes

(* What remains of the C stack when a native function has returned.        *)
LEMMA NativeReturned ==
  ASSUME StackInv, NativeReturn
  PROVE  /\ control # <<>> /\ control[1] \in {"main", "extern"}
         /\ Len(control') = 1 /\ control'[1] = control[1] /\ control' # <<>>
<1>1. InNative /\ control # <<>> /\ control' = Front(control)
  BY DEF NativeReturn, InNative
<1>2. control \in Seq(Kinds)
  BY DEF StackInv, Typed, Kinds
<1>3. Len(control) = 2 /\ control[1] \in {"main", "extern"}
  BY <1>1 DEF InNative, StackInv, Shape, Last
<1>4. Len(control') = 1 /\ control'[1] = control[1]
  <2>1. /\ Len(Front(control)) = Len(control) - 1
        /\ \A i \in 1 .. Len(control) - 1 : Front(control)[i] = control[i]
    BY <1>1, <1>2, FrontFacts
  <2> QED
    BY <1>1, <1>3, <2>1
<1>5. control' # <<>>
  <2>1. Len(control') # 0
    BY <1>4
  <2> QED
    BY <2>1
<1> QED
  BY <1>1, <1>3, <1>4, <1>5

LEMMA NativeReturnShape ==
  ASSUME StackInv, Resumes, NativeReturn
  PROVE  Shape' /\ Resumes'
<1>1. calls' = calls
  BY DEF NativeReturn
<1>2. Shape'
  BY <1>1, NativeReturned DEF StackInv, Shape
<1>3. ~InNative'
  BY NativeReturned DEF InNative, Last
<1> QED
  BY <1>1, <1>2, <1>3 DEF Resumes

LEMMA FirstCallShape ==
  ASSUME control = <<>>, NEW argc, NEW entry, FirstCall(argc, entry)
  PROVE  Shape' /\ Resumes'
<1>1. control' = <<"extern">> /\ calls' = <<StackSize>>
  BY DEF FirstCall
<1>2. ~InNative' /\ calls'[1] = StackSize /\ Len(calls') = 1
  BY <1>1 DEF InNative, Last
<1> QED
  BY <1>1, <1>2 DEF Shape, Resumes

(* What a call back has not touched.                                       *)
Inner == ~calledBack => Shape /\ Resumes

LEMMA GoodStack ==
  ASSUME HostInv, FitInv, Inner, ~calledBack
  PROVE  StackInv /\ Resumes
BY HostFacts DEF FitInv, Inner, StackInv

LEMMA GoodStackThen == HostInv' /\ FitInv' /\ Inner' /\ ~calledBack' => StackInv' /\ Resumes'
<1>1. HostInv /\ FitInv /\ Inner /\ ~calledBack => StackInv /\ Resumes
  BY GoodStack
<1> QED
  BY <1>1, PTL

LEMMA InnerInit == Init => Inner
<1> SUFFICES ASSUME Init PROVE Shape /\ Resumes
  BY DEF Inner
<1>1. calls = <<>> /\ control = <<"main">>
  BY DEF Init
<1>2. ~InNative
  BY <1>1 DEF InNative, Last
<1> QED
  BY <1>1, <1>2 DEF Shape, Resumes

LEMMA InnerStep == HostInv /\ FitInv /\ Inner /\ [Next]_vars => Inner'
<1> SUFFICES ASSUME HostInv, FitInv, Inner, [Next]_vars, ~calledBack' PROVE Shape' /\ Resumes'
  BY DEF Inner
<1>1. CASE (Instruction \/ NativeReturn) /\ UNCHANGED calledBack
  <2>1. StackInv /\ Resumes
    BY <1>1, GoodStack
  <2>2. ASSUME NEW type \in {"CALL", "NEW"}, NEW dst \in Dsts, NEW argc \in Argcs,
               \/ \E entry \in Sites : Call(type, dst, argc, entry)
               \/ CallFails(type, dst, argc)
        PROVE  Shape' /\ Resumes'
    BY <2>1, <2>2, RunningShape, EndRunStep, EndedShape DEF Call, CallFails
  <2>3. ASSUME NEW site \in Sites, Jump(site) PROVE Shape' /\ Resumes'
    BY <2>1, <2>3, RunningShape DEF Jump
  <2>4. ASSUME NEW nreg \in Regcs, AllocReg(nreg) PROVE Shape' /\ Resumes'
    BY <2>1, <2>4, RunningShape DEF AllocReg
  <2>5. CASE Return
    BY <2>1, <2>5, RunningShape DEF Return
  <2>6. CASE ReturnToHost \/ Halt
    BY <2>1, <2>6, EndRunStep, EndedShape DEF ReturnToHost, Halt
  <2> QED
    BY <1>1, <2>1, <2>2, <2>3, <2>4, <2>5, <2>6, CallNativeShape, NativeReturnShape DEF Instruction
<1>2. ASSUME NEW argc \in Argcs, NEW entry \in Sites,
             FirstCall(argc, entry) \/ NestedCall(argc, entry), calledBack' = (control # <<>>)
      PROVE  Shape' /\ Resumes'
  <2>1. control = <<>>
    BY <1>2
  <2>2. ~NestedCall(argc, entry)
    BY <2>1, NestedIsNative DEF InNative
  <2> QED
    BY <1>2, <2>1, <2>2, FirstCallShape
<1>3. CASE UNCHANGED vars
  BY <1>3 DEF vars, Inner, Shape, Resumes, InNative
<1> QED
  BY <1>1, <1>2, <1>3 DEF Next

LEMMA WalkFacts ==
  ASSUME StackInv
  PROVE  /\ Walk \in Seq(Header) /\ Len(Walk) = Len(saved) + 1 /\ Len(saved) \in Nat
         /\ \A i \in 1 .. Len(saved) + 1 : Walk[i] = mem[Bases[i]]
         /\ Walk # <<>> /\ Walk[Len(Walk)] = mem[sdp] /\ mem[sdp] \in Header
<1> PICK n : n = Len(saved)
  OBVIOUS
<1>1. n \in Nat /\ Len(Bases) = n + 1 /\ Bases[n + 1] = sdp
  BY BasesFacts DEF StackInv
<1>2. DOMAIN Bases = 1 .. n + 1
  <2>1. Bases \in Seq(Nat)
    BY AppendProperties DEF StackInv, Typed, Bases
  <2> QED
    BY <1>1, <2>1, LenProperties
<1>3. \A i \in 1 .. n + 1 : mem[Bases[i]] \in Header
  BY <1>1 DEF StackInv, Based, Typed
<1>4. Walk = [i \in 1 .. n + 1 |-> mem[Bases[i]]]
  BY <1>2 DEF Walk
<1>5. n + 1 \in Nat /\ n + 1 \in 1 .. n + 1
  BY <1>1
<1>6. Walk \in [1 .. n + 1 -> Header]
  BY <1>3, <1>4
<1>7. Walk \in Seq(Header) /\ Len(Walk) = n + 1
  BY <1>5, <1>6, SeqDef, LenProperties
<1>8. \A i \in 1 .. n + 1 : Walk[i] = mem[Bases[i]]
  BY <1>4
<1>9. Walk # <<>>
  BY <1>1, <1>7, EmptySeq
<1> QED
  BY <1>1, <1>3, <1>5, <1>7, <1>8, <1>9

Walked ==
  /\ Walk \in Seq(Header) /\ Len(Walk) = Len(saved) + 1
  /\ \A i \in 1 .. Len(saved) + 1 : Walk[i] = mem[Bases[i]]

LEMMA WalkedThen == StackInv' => Walked'
<1>1. StackInv => Walked
  BY WalkFacts DEF Walked
<1> QED
  BY <1>1, PTL

(* A push adds its header to the walk and a pop takes the last one off.    *)
LEMMA WalkPush ==
  ASSUME StackInv, StackInv', NEW type \in {"CALL", "NEW"}, NEW dst \in Dsts, NEW argc \in Argcs,
         PushFrame(type, dst, argc)
  PROVE  /\ Walk' = Append(Walk, NewFrame(type, dst, argc))
         /\ mem'[sdp'] = NewFrame(type, dst, argc) /\ NewFrame(type, dst, argc) \in Header
<1> DEFINE h == NewFrame(type, dst, argc)
           next == sdp + FrameSize(mem[sdp])
<1> PICK n : n = Len(saved)
  OBVIOUS
<1>1. /\ n \in Nat /\ sdp' = next /\ Len(saved') = n + 1
      /\ Bases'[n + 2] = next /\ mem'[next] = h /\ h \in Header
      /\ \A i \in 1 .. n + 1 : Bases'[i] = Bases[i] /\ mem'[Bases[i]] = mem[Bases[i]]
  BY PushFacts DEF StackInv
<1> HIDE DEF next, h
<1>2. /\ Walk \in Seq(Header) /\ Len(Walk) = n + 1
       /\ \A i \in 1 .. n + 1 : Walk[i] = mem[Bases[i]]
  BY WalkFacts
<1>3. /\ Walk' \in Seq(Header) /\ Len(Walk') = n + 2
       /\ \A i \in 1 .. n + 2 : Walk'[i] = mem'[Bases'[i]]
  <2>1. Len(saved') + 1 = n + 2
    BY <1>1
  <2> QED
    BY <2>1, WalkedThen DEF Walked
<1> PICK grown : grown = Append(Walk, h)
  OBVIOUS
<1>4. /\ grown \in Seq(Header) /\ Len(grown) = n + 2
       /\ \A i \in 1 .. n + 1 : grown[i] = Walk[i]
       /\ grown[n + 2] = h
  <2>1. /\ Append(Walk, h) \in Seq(Header) /\ Len(Append(Walk, h)) = Len(Walk) + 1
        /\ \A i \in 1 .. Len(Walk) : Append(Walk, h)[i] = Walk[i]
        /\ Append(Walk, h)[Len(Walk) + 1] = h
    BY <1>1, <1>2, AppendProperties
  <2>2. Len(Walk) + 1 = n + 2
    BY <1>1, <1>2
  <2> QED
    BY <1>2, <2>1, <2>2
<1>5. ASSUME NEW i \in 1 .. n + 2 PROVE Walk'[i] = grown[i]
  <2>1. CASE i = n + 2
    BY <1>1, <1>3, <1>4, <2>1
  <2>2. CASE i # n + 2
    <3>1. i \in 1 .. n + 1
      BY <1>1, <2>2
    <3> QED
      <4>1. Walk'[i] = mem[Bases[i]]
        BY <1>1, <1>3, <3>1
      <4>2. grown[i] = mem[Bases[i]]
        BY <1>2, <1>4, <3>1
      <4> QED
        BY <4>1, <4>2
  <2> QED
    BY <2>1, <2>2
<1>6. Walk' = grown
  BY <1>3, <1>4, <1>5, SeqEqual
<1> QED
  BY <1>1, <1>6 DEF h

LEMMA WalkPop ==
  ASSUME StackInv, StackInv', saved # <<>>, PopFrame
  PROVE  Walk' = Front(Walk)
<1> PICK n : n = Len(saved)
  OBVIOUS
<1>1. /\ n \in Nat /\ n > 0 /\ Len(saved') = n - 1
      /\ \A i \in 1 .. n : Bases'[i] = Bases[i] /\ mem'[Bases[i]] = mem[Bases[i]]
  BY PopFacts DEF StackInv
<1>2. /\ Walk \in Seq(Header) /\ Len(Walk) = n + 1 /\ Walk # <<>>
      /\ \A i \in 1 .. n + 1 : Walk[i] = mem[Bases[i]]
  BY WalkFacts
<1>3. /\ Walk' \in Seq(Header) /\ Len(Walk') = n
      /\ \A i \in 1 .. n : Walk'[i] = mem'[Bases'[i]]
  <2>1. Len(saved') + 1 = n
    BY <1>1
  <2> QED
    BY <2>1, WalkedThen DEF Walked
<1> PICK front : front = Front(Walk)
  OBVIOUS
<1>4. /\ front \in Seq(Header) /\ Len(front) = n
      /\ \A i \in 1 .. n : front[i] = Walk[i]
  <2>1. /\ Front(Walk) \in Seq(Header) /\ Len(Front(Walk)) = Len(Walk) - 1
        /\ \A i \in 1 .. Len(Walk) - 1 : Front(Walk)[i] = Walk[i]
    BY <1>2, FrontFacts
  <2>2. Len(Walk) - 1 = n
    BY <1>1, <1>2
  <2> QED
    BY <2>1, <2>2
<1>5. ASSUME NEW i \in 1 .. n PROVE Walk'[i] = front[i]
  <2>1. i \in 1 .. n + 1
    BY <1>1
  <2> QED
    BY <1>1, <1>2, <1>3, <1>4, <2>1
<1> QED
  BY <1>3, <1>4, <1>5, SeqEqual

(* What a step that keeps the stack does to the activations.               *)
Ongoing == Calling!Proceed \/ Calling!Enter \/ Calling!Leave \/ Calling!Stop
AbstractStep == [(~Lost' /\ Ongoing) \/ Calling!Lose]_(Calling!vars)

Activations == IF control = <<>> \/ Lost THEN <<>> ELSE Walk

LEMMA Proceeds ==
  ASSUME StackInv, ~Lost, ~Lost', control # <<>>, control' # <<>>, pc' \in Sites, NEW h \in Header,
         [h EXCEPT !.vregc = mem[sdp].vregc] = mem[sdp], Walk' = Append(Front(Walk), h)
  PROVE  Calling!Proceed
<1>1. Activations = Walk /\ Activations' = Walk' /\ Walk # <<>> /\ Walk[Len(Walk)] = mem[sdp]
  BY WalkFacts DEF Activations
<1>2. Activations # <<>> /\ Activations[Len(Activations)] = mem[sdp]
  BY <1>1
<1>3. Activations' = Append(SubSeq(Activations, 1, Len(Activations) - 1), h)
  BY <1>1 DEF Front
<1> QED
  BY <1>2, <1>3 DEF Calling!Proceed, Calling!Front, Calling!Top, Activations

LEMMA Enters ==
  ASSUME ~Lost', control' # <<>>, pc' \in Sites, NEW h \in Header, h.restore = pc,
         Walk' = Append(Activations, h)
  PROVE  Calling!Enter
BY DEF Calling!Enter, Activations

LEMMA Leaves ==
  ASSUME StackInv, ~Lost, control # <<>>, pc' = mem[sdp].restore, Activations' = Front(Walk)
  PROVE  Calling!Leave
<1>1. Activations = Walk /\ Walk # <<>> /\ Walk[Len(Walk)] = mem[sdp]
  BY WalkFacts DEF Activations
<1>2. Activations # <<>> /\ Activations[Len(Activations)] = mem[sdp]
  BY <1>1
<1>3. Activations' = SubSeq(Activations, 1, Len(Activations) - 1)
  BY <1>1 DEF Front
<1> QED
  BY <1>2, <1>3 DEF Calling!Leave, Calling!Front, Calling!Top, Activations

LEMMA Stops ==
  ASSUME control' = <<>>, pc' = pc
  PROVE  Calling!Stop
BY DEF Calling!Stop

(* The walk, taken apart at its last activation.                           *)
OthersKept == DOMAIN mem' = DOMAIN mem /\ \A o \in DOMAIN mem : o # sdp => mem'[o] = mem[o]

LEMMA WalkSplit ==
  ASSUME StackInv, StackInv', UNCHANGED <<sdp, saved>>, NEW h \in Header, mem'[sdp] = h,
         OthersKept
  PROVE  Walk' = Append(Front(Walk), h)
<1> PICK n : n = Len(saved)
  OBVIOUS
<1>1. n \in Nat /\ Len(Bases) = n + 1 /\ Bases[n + 1] = sdp /\ \A i \in 1 .. n + 1 : Bases[i] \in Nat
  BY BasesFacts DEF StackInv
<1>2. Bases' = Bases /\ Len(saved') = n
  BY DEF Bases
<1>3. /\ Walk \in Seq(Header) /\ Len(Walk) = n + 1 /\ Walk # <<>>
      /\ \A i \in 1 .. n + 1 : Walk[i] = mem[Bases[i]]
  BY WalkFacts
<1>4. /\ Walk' \in Seq(Header) /\ Len(Walk') = n + 1
      /\ \A i \in 1 .. n + 1 : Walk'[i] = mem'[Bases[i]]
  BY <1>2, WalkedThen DEF Walked
<1>5. ASSUME NEW i \in 1 .. n PROVE mem'[Bases[i]] = mem[Bases[i]]
  <2>1. i \in 1 .. n + 1 /\ n + 1 \in 1 .. n + 1 /\ i < n + 1
    BY <1>1
  <2>2. Bases[i] < Bases[n + 1] /\ Bases[i] \in DOMAIN mem /\ Bases[i] \in Nat
    BY <1>1, <2>1 DEF StackInv, Ordered, Based
  <2>3. Bases[i] # sdp
    BY <1>1, <2>2
  <2> QED
    BY <2>2, <2>3 DEF OthersKept
<1> PICK front : front = Front(Walk)
  OBVIOUS
<1>6. /\ front \in Seq(Header) /\ Len(front) = n
      /\ \A i \in 1 .. n : front[i] = Walk[i]
  <2>1. /\ Front(Walk) \in Seq(Header) /\ Len(Front(Walk)) = Len(Walk) - 1
        /\ \A i \in 1 .. Len(Walk) - 1 : Front(Walk)[i] = Walk[i]
    BY <1>3, FrontFacts
  <2>2. Len(Walk) - 1 = n
    BY <1>1, <1>3
  <2> QED
    BY <2>1, <2>2
<1> PICK grown : grown = Append(front, h)
  OBVIOUS
<1>7. /\ grown \in Seq(Header) /\ Len(grown) = n + 1
      /\ \A i \in 1 .. n : grown[i] = front[i]
      /\ grown[n + 1] = h
  <2>1. /\ Append(front, h) \in Seq(Header) /\ Len(Append(front, h)) = Len(front) + 1
        /\ \A i \in 1 .. Len(front) : Append(front, h)[i] = front[i]
        /\ Append(front, h)[Len(front) + 1] = h
    BY <1>6, AppendProperties
  <2> QED
    BY <1>6, <2>1
<1>8. ASSUME NEW i \in 1 .. n + 1 PROVE Walk'[i] = grown[i]
  <2>1. CASE i = n + 1
    BY <1>1, <1>4, <1>7, <2>1
  <2>2. CASE i # n + 1
    <3>1. i \in 1 .. n
      BY <1>1, <2>2
    <3>2. Walk'[i] = mem[Bases[i]]
      BY <1>4, <1>5, <2>2, <3>1
    <3>3. Walk[i] = mem[Bases[i]]
      BY <1>3
    <3>4. grown[i] = Walk[i]
      BY <1>6, <1>7, <3>1
    <3> QED
      BY <3>2, <3>3, <3>4
  <2> QED
    BY <2>1, <2>2
<1>9. Walk' = grown
  BY <1>4, <1>7, <1>8, SeqEqual
<1> QED
  BY <1>9

LEMMA JumpRefines ==
  ASSUME StackInv, StackInv', ~Lost, ~Lost', NEW site \in Sites, Jump(site)
  PROVE  Ongoing
<1>1. control # <<>> /\ control' # <<>> /\ pc' \in Sites
  BY DEF Jump, Running
<1>2. mem[sdp] \in Header
  BY WalkFacts
<1>3. Walk' = Append(Front(Walk), mem[sdp])
  BY <1>2, WalkSplit DEF Jump, OthersKept
<1>4. [mem[sdp] EXCEPT !.vregc = mem[sdp].vregc] = mem[sdp]
  BY <1>2 DEF Header
<1> QED
  BY <1>1, <1>2, <1>3, <1>4, Proceeds DEF Ongoing

LEMMA AllocRegRefines ==
  ASSUME StackInv, StackInv', ~Lost, ~Lost', NEW nreg \in Regcs, AllocReg(nreg)
  PROVE  Ongoing
<1> DEFINE h == [mem[sdp] EXCEPT !.vregc = nreg]
<1>1. control # <<>> /\ control' # <<>>
  BY DEF AllocReg, Running
<1>2. mem[sdp] \in Header
  BY WalkFacts
<1>3. h \in Header /\ [h EXCEPT !.vregc = mem[sdp].vregc] = mem[sdp]
  BY <1>2 DEF Header
<1>4. sdp \in DOMAIN mem
  BY BasesFacts DEF StackInv, Based
<1>5. mem' = [mem EXCEPT ![sdp] = h]
  BY <1>4 DEF AllocReg
<1> HIDE DEF h
<1>6. /\ mem'[sdp] = h /\ DOMAIN mem' = DOMAIN mem
      /\ \A o \in DOMAIN mem : o # sdp => mem'[o] = mem[o]
  BY <1>4, <1>5
<1>7. UNCHANGED <<sdp, saved>> /\ pc' \in Sites
  BY DEF AllocReg, StackInv, Typed
<1>8. Walk' = Append(Front(Walk), h)
  BY <1>3, <1>6, <1>7, WalkSplit DEF OthersKept
<1> QED
  BY <1>1, <1>3, <1>7, <1>8, Proceeds DEF Ongoing

LEMMA CallRefines ==
  ASSUME StackInv, StackInv', ~Lost, ~Lost', NEW type \in {"CALL", "NEW"}, NEW dst \in Dsts,
         NEW argc \in Argcs, NEW entry \in Sites, Call(type, dst, argc, entry)
  PROVE  Ongoing
<1>1. control # <<>> /\ control' # <<>> /\ pc' \in Sites
  BY DEF Call, Running
<1>2. Walk' = Append(Walk, NewFrame(type, dst, argc)) /\ NewFrame(type, dst, argc) \in Header
  BY WalkPush DEF Call
<1>3. NewFrame(type, dst, argc).restore = pc
  BY DEF NewFrame
<1>4. Walk' = Append(Activations, NewFrame(type, dst, argc))
  BY <1>1, <1>2 DEF Activations
<1> QED
  BY <1>1, <1>2, <1>3, <1>4, Enters DEF Ongoing

LEMMA CallNativeRefines ==
  ASSUME StackInv, StackInv', ~Lost, ~Lost', NEW dst \in Dsts, NEW argc \in Argcs,
         CallNative(dst, argc)
  PROVE  Ongoing
<1>1. /\ control' = Append(control, "native") /\ control # <<>>
      /\ pc' = pc /\ pc' \in Sites
  BY DEF CallNative, Running, StackInv, Typed
<1>2. control' # <<>>
  <2>1. control \in Seq(Kinds) /\ "native" \in Kinds
    BY DEF StackInv, Typed, Kinds
  <2> QED
    BY <1>1, <2>1, AppendProperties
<1>3. Walk' = Append(Walk, NewFrame("CALL", dst, argc)) /\ NewFrame("CALL", dst, argc) \in Header
  BY WalkPush DEF CallNative
<1>4. NewFrame("CALL", dst, argc).restore = pc
  BY DEF NewFrame
<1>5. Walk' = Append(Activations, NewFrame("CALL", dst, argc))
  BY <1>1, <1>3 DEF Activations
<1> QED
  BY <1>1, <1>2, <1>3, <1>4, <1>5, Enters DEF Ongoing

LEMMA NativeReturnRefines ==
  ASSUME StackInv, StackInv', Resumes, ~Lost, ~Lost', NativeReturn
  PROVE  Ongoing
<1>1. InNative /\ pc' = pc /\ control # <<>> /\ control' # <<>>
  BY NativeReturned DEF NativeReturn
<1>2. Walk' = Front(Walk)
  BY WalkPop DEF NativeReturn
<1>3. Activations' = Front(Walk)
  BY <1>1, <1>2 DEF Activations
<1>4. pc' = mem[sdp].restore
  BY <1>1 DEF Resumes
<1> QED
  BY <1>1, <1>3, <1>4, Leaves DEF Ongoing

LEMMA StopRefines ==
  ASSUME StackInv,
         \/ Halt
         \/ \E type \in {"CALL", "NEW"}, dst \in Dsts, argc \in Argcs : CallFails(type, dst, argc)
  PROVE  Ongoing
<1>1. Running /\ EndRun /\ pc' = pc
  BY DEF Halt, CallFails
<1>2. control' = <<>>
  BY <1>1, EndRunStep
<1> QED
  BY <1>1, <1>2, Stops DEF Ongoing

LEMMA ReturnRefines ==
  ASSUME StackInv, StackInv', ~Lost, ~Lost', Return
  PROVE  Ongoing
<1>1. control # <<>> /\ control' # <<>> /\ pc' = mem[sdp].restore
  BY DEF Return, Running
<1>2. Walk' = Front(Walk)
  BY WalkPop DEF Return
<1>3. Activations' = Front(Walk)
  BY <1>1, <1>2 DEF Activations
<1> QED
  BY <1>1, <1>3, Leaves DEF Ongoing

(* The frame that the call of the host began with is the first of all.     *)
LEMMA ReturnToHostRefines ==
  ASSUME StackInv, Resumes, ~Lost, ReturnToHost
  PROVE  Ongoing
<1>1. /\ Running /\ EndRun /\ pc' = mem[sdp].restore /\ control # <<>>
      /\ calls # <<>> /\ Last(calls) = Sp
  BY DEF ReturnToHost, AtExternalLevel, Running
<1>2. control' = <<>>
  BY <1>1, EndRunStep
<1>3. Len(calls) = 1
  BY <1>1 DEF StackInv, Shape
<1>4. Sp = StackSize
  BY <1>1, <1>3 DEF Resumes, Last
<1>5. Len(saved) = 0
  <2>1. Sp = StackSize - 4 * Len(saved) /\ StackSize \in Nat /\ Len(saved) \in Nat
    BY SpFacts, BasesFacts DEF StackInv
  <2> QED
    BY <1>4, <2>1
<1>6. Walk \in Seq(Header) /\ Len(Walk) = 1 /\ Walk # <<>>
  BY <1>5, WalkFacts
<1>7. Front(Walk) = <<>>
  <2>1. Front(Walk) \in Seq(Header) /\ Len(Front(Walk)) = 0
    BY <1>6, FrontFacts
  <2> QED
    BY <2>1, EmptySeq
<1>8. Activations' = Front(Walk)
  BY <1>2, <1>7 DEF Activations
<1> QED
  BY <1>1, <1>8, Leaves DEF Ongoing

(* A machine whose C stack is empty begins anew.                           *)
LEMMA FirstCallRefines ==
  ASSUME Typed, StackInv', control = <<>>, ~Lost', NEW argc \in Argcs, NEW entry \in Sites,
         FirstCall(argc, entry)
  PROVE  Ongoing
<1> DEFINE h == NewFrame("CALL", 0, argc)
<1>1. /\ saved' = <<>> /\ sdp' = 0 /\ pc' \in Sites
      /\ control' = Append(control, "extern")
      /\ mem' = [o \in UpTo(0) \cup {0} |-> IF o = 0 THEN h ELSE mem[o]]
  BY DEF FirstCall, PutFrame
<1>2. h \in Header /\ h.restore = pc
  BY StackAssumption DEF NewFrame, Header, Typed
<1> HIDE DEF h
<1>3. control' = <<"extern">> /\ control' # <<>>
  BY <1>1
<1>4. Len(saved') = 0 /\ Bases' = <<0>> /\ mem'[0] = h
  BY <1>1 DEF Bases
<1>5. Walk' \in Seq(Header) /\ Len(Walk') = 1 /\ Walk'[1] = h
  <2>1. Len(saved') + 1 = 1 /\ Bases'[1] = 0
    BY <1>4
  <2>2. 1 \in 1 .. 1
    OBVIOUS
  <2> QED
    BY <1>4, <2>1, <2>2, WalkedThen DEF Walked
<1>6. Walk' = <<h>>
  <2>1. <<h>> \in Seq(Header) /\ Len(<<h>>) = 1 /\ <<h>>[1] = h
    BY <1>2
  <2>2. \A i \in 1 .. Len(Walk') : Walk'[i] = <<h>>[i]
    BY <1>5, <2>1
  <2> QED
    BY <1>5, <2>1, <2>2, SeqEqual
<1>7. Append(Activations, h) = <<h>>
  BY DEF Activations
<1> QED
  BY <1>1, <1>2, <1>3, <1>6, <1>7, Enters DEF Ongoing

LEMMA LosesRefines ==
  ASSUME Lost', pc' \in Sites
  PROVE  Calling!Lose
BY DEF Calling!Lose

LEMMA InitRefines == Init => Calling!Begin
<1> SUFFICES ASSUME Init PROVE Calling!Begin
  OBVIOUS
<1>1. pc \in Sites /\ sdp = 0 /\ saved = <<>> /\ control = <<"main">> /\ ~calledBack
  BY DEF Init
<1>2. StackInv
  BY <1>1, HostInit, FitInit, InnerInit, GoodStack
<1>3. ~Lost
  <2>1. mem[sdp].argc = 0 /\ mem[sdp].vregc = 0
    BY DEF Init, NewFrame
  <2>2. mem[sdp] \in Header /\ mem[sdp].argc \in Nat /\ mem[sdp].vregc \in Nat
    BY <1>2, <2>1, WalkFacts
  <2>3. FrameSize(mem[sdp]) = 18
    BY <2>1, <2>2 DEF FrameSize, HeaderSize, ValSize
  <2>4. Len(saved) = 0
    BY <1>1
  <2>5. Sp = StackSize
    BY <2>4, StackAssumption DEF Sp, EntrySize
  <2> QED
    BY <1>1, <2>3, <2>5, StackAssumption DEF Lost, Overrun
<1>4. Len(Walk) = 1 /\ Walk[1] \in Header
  <2>1. Len(saved) + 1 = 1
    BY <1>1
  <2> QED
    BY <1>2, <2>1, WalkFacts
<1>5. control # <<>>
  BY <1>1
<1> QED
  BY <1>1, <1>3, <1>4, <1>5 DEF Calling!Begin

LEMMA StepRefines ==
  ASSUME HostInv, FitInv, Inner, HostInv', FitInv', Inner', [Next]_vars
  PROVE  AbstractStep
<1>1. pc' \in Sites
  BY DEF HostInv, Typed
<1>2. CASE UNCHANGED vars
  <2>1. Activations' = Activations /\ pc' = pc /\ Lost' = Lost
    BY <1>2 DEF vars, Lost, Overrun, Sp, Activations, Walk, Bases
  <2> QED
    BY <2>1 DEF AbstractStep, Calling!vars, Activations
<1>3. CASE Lost'
  BY <1>1, <1>3, LosesRefines DEF AbstractStep
<1>4. CASE ~Lost' /\ ~Overrun /\ (Instruction \/ NativeReturn) /\ UNCHANGED calledBack
  <2>1. ~Lost /\ ~calledBack /\ ~calledBack'
    BY <1>4 DEF Lost
  <2>2. StackInv /\ Resumes /\ StackInv'
    BY <2>1, GoodStack, GoodStackThen
  <2>3. ASSUME NEW type \in {"CALL", "NEW"}, NEW dst \in Dsts, NEW argc \in Argcs,
               \/ \E entry \in Sites : Call(type, dst, argc, entry)
               \/ CallFails(type, dst, argc)
        PROVE  Ongoing
    BY <1>4, <2>1, <2>2, <2>3, CallRefines, StopRefines
  <2>4. Ongoing
    BY <1>4, <2>1, <2>2, <2>3, JumpRefines, AllocRegRefines, CallNativeRefines, ReturnRefines,
       ReturnToHostRefines, StopRefines, NativeReturnRefines DEF Instruction
  <2> QED
    BY <1>4, <2>4 DEF AbstractStep
<1>5. ASSUME NEW argc \in Argcs, NEW entry \in Sites,
             FirstCall(argc, entry) \/ NestedCall(argc, entry), calledBack' = (control # <<>>),
             ~Lost'
      PROVE  AbstractStep
  <2>1. control = <<>> /\ ~calledBack'
    BY <1>5 DEF Lost
  <2>2. FirstCall(argc, entry)
    BY <1>5, <2>1, NestedIsNative DEF InNative
  <2>3. StackInv' /\ Typed
    BY <2>1, GoodStackThen, HostFacts
  <2>4. Ongoing
    BY <1>5, <2>1, <2>2, <2>3, FirstCallRefines
  <2> QED
    BY <1>5, <2>4 DEF AbstractStep
<1> QED
  BY <1>2, <1>3, <1>4, <1>5 DEF Next

(* For functions of any width and native functions that call back: calls,  *)
(* failing calls and returns are those of a stack of activations, a return *)
(* from a constructor, a function or a native function resumes where the   *)
(* frame that ends was called, and a machine that the host calls anew has  *)
(* a stack of activations again, until the running frame has overwritten   *)
(* the table or a native function on the C stack has called the machine.   *)
THEOREM StackImplementsCalls == Spec => ImplementsCalls
<1> DEFINE Refining == HostInv /\ FitInv /\ Inner
<1>1. Init => Refining /\ Calling!Begin
  BY HostInit, FitInit, InnerInit, InitRefines
<1>2. Refining /\ [Next]_vars => Refining'
  BY HostStep, FitStep, InnerStep
<1>3. Refining /\ Refining' /\ [Next]_vars => AbstractStep
  BY StepRefines
<1> QED
  BY <1>1, <1>2, <1>3, PTL DEF Spec, ImplementsCalls, Calling!CallSpec, AbstractStep, Ongoing
=============================================================================
