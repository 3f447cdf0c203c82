------------------------------- MODULE RegAlloc -------------------------------
(***************************************************************************)
(* The register allocator of the compiler's last stage                     *)
(* (compiler/src/xjs_c4_regalloc.c, scheduler "r1") and the machine that   *)
(* runs the code with the registers it gives.                              *)
(*                                                                         *)
(* The items of one function are scanned once, in order, for the interval  *)
(* in which each variable is alive; a branch extends the intervals that    *)
(* reach back to its destination.  A second pass counts the registers the  *)
(* function needs, a third one, again point by point, hands them out.      *)
(* Then the code is generated and runs: file is the register file of the   *)
(* frame and tells, for each register, which variable was written into it  *)
(* last.                                                                   *)
(*                                                                         *)
(* The items are those of Ir.  Points are counted from one.                *)
(***************************************************************************)
EXTENDS Ir

CONSTANTS
  Codes,   \* the functions that are compiled: sequences of items
  Width    \* how many registers the one byte of an operand tells apart (256)

VARIABLES
  code,     \* the function being compiled
  phase,    \* "scan", "measure", "allocate", "generate", "run" or "failed"
  point,    \* the point of the pass
  life,     \* the life intervals found so far
  need,     \* the number of registers that are needed
  reg,      \* the register of each variable that has one
  using,    \* the registers in use at this point
  pc,       \* the item the machine runs next
  file,     \* the variable that each written register of the frame holds
  written   \* the variables the run has written

vars == <<code, phase, point, life, need, reg, using, pc, file, written>>
passVars == <<code, need, reg, using>>
runVars == <<pc, file, written>>

(* alloca reserves a register and generates no code.                       *)
Writes(item) == IF item.op = "alloca" THEN {} ELSE item.dst

Lands(i, d) == LandsAt(code, i, d)

ASSUME CodesAssumption == \A c \in Codes : WellFormed(c)
ASSUME WidthAssumption == Width \in Nat \ {0}

(***************************************************************************)
(* Life intervals.                                                         *)
(***************************************************************************)
(* Two slips: only the first mention counts; an item is scanned for what   *)
(* it writes only.                                                         *)
TouchedOnce(item) ==
  [v \in DOMAIN life \cup Mentions(item) |->
    IF v \in DOMAIN life THEN life[v] ELSE [start |-> point, end |-> point]]

TouchedWrites(item) ==
  [v \in DOMAIN life \cup item.dst |->
    [start |-> IF v \in DOMAIN life THEN life[v].start ELSE point,
     end   |-> IF v \in item.dst THEN point ELSE life[v].end]]

(* A variable that an item mentions lives from its first mention to here.  *)
Touched(item) ==
  [v \in DOMAIN life \cup Mentions(item) |->
    [start |-> IF v \in DOMAIN life THEN life[v].start ELSE point,
     end   |-> IF v \in Mentions(item) THEN point ELSE life[v].end]]

(* A slip: branches extend nothing.                                        *)
ExtendedNever(l, d) == l

(* What is still alive at the destination lives up to the branch.          *)
Extended(l, d) ==
  [v \in DOMAIN l |-> IF l[v].end < d THEN l[v] ELSE [l[v] EXCEPT !.end = point]]

Scanning == phase = "scan" /\ point \in DOMAIN code

ScanItem ==
  /\ Scanning /\ ~IsBranch(code[point])
  /\ life' = Touched(code[point])
  /\ point' = point + 1
  /\ UNCHANGED <<phase, passVars, runVars>>

ScanBranch ==
  /\ Scanning
  /\ \E d \in DOMAIN code :
       /\ Lands(point, d)
       /\ life' = Extended(Touched(code[point]), d)
  /\ point' = point + 1
  /\ UNCHANGED <<phase, passVars, runVars>>

(* A branch to a label nobody placed: the table is handed on as it is.     *)
ScanLost ==
  /\ Scanning /\ IsBranch(code[point])
  /\ \A d \in DOMAIN code : ~Lands(point, d)
  /\ life' = Touched(code[point])
  /\ phase' = "measure" /\ point' = 1
  /\ UNCHANGED <<passVars, runVars>>

ScanEnds ==
  /\ phase = "scan" /\ point \notin DOMAIN code
  /\ phase' = "measure" /\ point' = 1
  /\ UNCHANGED <<life, passVars, runVars>>

(***************************************************************************)
(* The need for registers, and their allocation.                           *)
(***************************************************************************)
Alive(v, p) == life[v].start <= p /\ p <= life[v].end
Living(p) == {v \in DOMAIN life : Alive(v, p)}
InPeriod(p) == p = 1 \/ \E v \in DOMAIN life : p <= life[v].end

Measure ==
  /\ phase = "measure"
  /\ IF InPeriod(point)
     THEN /\ need' = IF Cardinality(Living(point)) > need
                     THEN Cardinality(Living(point)) ELSE need
          /\ point' = point + 1
          /\ UNCHANGED phase
     ELSE /\ phase' = "allocate" /\ point' = 1
          /\ UNCHANGED need
  /\ UNCHANGED <<code, life, reg, using, runVars>>

Starting == {v \in DOMAIN life \ DOMAIN reg : life[v].start = point}
Free == (0 .. (IF need > 1 THEN need ELSE 1) - 1) \ using

(* The variables that start here, in order, each takes the first register. *)
Allocate ==
  /\ phase = "allocate" /\ InPeriod(point)
  /\ \E v \in Starting :
       /\ \A u \in Starting : v <= u
       /\ IF Free = {}
          THEN phase' = "failed" /\ UNCHANGED <<reg, using>>
          ELSE \E r \in Free :
                 /\ \A s \in Free : r <= s
                 /\ reg' = [u \in DOMAIN reg \cup {v} |-> IF u = v THEN r ELSE reg[u]]
                 /\ using' = using \cup {r}
                 /\ UNCHANGED phase
  /\ UNCHANGED <<code, point, life, need, runVars>>

(* A slip: no register is given back.                                      *)
AdvanceKeeps ==
  /\ phase = "allocate" /\ InPeriod(point) /\ Starting = {}
  /\ point' = point + 1
  /\ UNCHANGED <<code, phase, life, need, reg, using, runVars>>

(* The variables that end here give theirs back.                           *)
Advance ==
  /\ phase = "allocate" /\ InPeriod(point) /\ Starting = {}
  /\ using' = using \ {reg[v] : v \in {u \in DOMAIN life : life[u].end = point}}
  /\ point' = point + 1
  /\ UNCHANGED <<code, phase, life, need, reg, runVars>>

Allocated ==
  /\ phase = "allocate" /\ ~InPeriod(point)
  /\ phase' = "generate"
  /\ UNCHANGED <<point, life, passVars, runVars>>

(***************************************************************************)
(* The code, and its run.  The table has no register outside the interval. *)
(***************************************************************************)
RegAt(v, p) == IF v \in Living(p) THEN reg[v] ELSE -1
Operand(v, p) == RegAt(v, p) % Width

Lost == \E i \in DOMAIN code : IsBranch(code[i]) /\ \A d \in DOMAIN code : ~Lands(i, d)

Generate ==
  /\ phase = "generate"
  /\ phase' = IF Lost THEN "failed" ELSE "run"
  /\ UNCHANGED <<point, life, passVars, runVars>>

Successors(i) == Follows(code, i)

Exec ==
  /\ phase = "run" /\ pc \in DOMAIN code
  /\ pc' \in Successors(pc)
  /\ \/ Writes(code[pc]) = {} /\ UNCHANGED <<file, written>>
     \/ \E v \in Writes(code[pc]) :
          /\ file' = [r \in DOMAIN file \cup {Operand(v, pc)} |->
                       IF r = Operand(v, pc) THEN v ELSE file[r]]
          /\ written' = written \cup {v}
  /\ UNCHANGED <<phase, point, life, passVars>>

(***************************************************************************)
(* The specification.                                                      *)
(***************************************************************************)
Init ==
  /\ code \in Codes
  /\ phase = "scan" /\ point = 1
  /\ life = <<>> /\ need = 0 /\ reg = <<>> /\ using = {}
  /\ pc = 1 /\ file = <<>> /\ written = {}

Next ==
  \/ ScanItem \/ ScanBranch \/ ScanLost \/ ScanEnds
  \/ Measure
  \/ Allocate \/ Advance \/ Allocated
  \/ Generate \/ Exec

Spec == Init /\ [][Next]_vars

(***************************************************************************)
(* Properties.                                                             *)
(***************************************************************************)
(* The tables are what their names say.                                    *)
TypeOK ==
  /\ code \in Codes
  /\ phase \in {"scan", "measure", "allocate", "generate", "run", "failed"}
  /\ point \in 1 .. Len(code) + 1
  /\ DOMAIN life \subseteq Nat
  /\ \A v \in DOMAIN life : /\ life[v].start \in 1 .. Len(code)
                            /\ life[v].end \in life[v].start .. Len(code)
  /\ need \in Nat
  /\ DOMAIN reg \subseteq DOMAIN life /\ \A v \in DOMAIN reg : reg[v] \in Nat
  /\ using \subseteq Nat
  /\ pc \in 1 .. Len(code) + 1
  /\ DOMAIN file \subseteq Nat /\ \A r \in DOMAIN file : file[r] \in written
  /\ written \subseteq DOMAIN life

(* Whatever path the code takes, an operand that is read names the         *)
(* register that still holds the variable the source meant: no variable    *)
(* that shares the register was written since (xjs_regsched_alloc).  The   *)
(* function must get by with the registers one byte can name.              *)
ReadsOwn ==
  (phase = "run" /\ pc \in DOMAIN code /\ need < Width) =>
    \A v \in Reads(code[pc]) \cap written :
      Operand(v, pc) \in DOMAIN file /\ file[Operand(v, pc)] = v

(* Every variable an item mentions has one of the registers that           *)
(* xjs_regsched_requirement asks of the machine for the frame.             *)
OperandsFit ==
  (phase = "run" /\ pc \in DOMAIN code /\ need < Width) =>
    \A v \in Mentions(code[pc]) : Operand(v, pc) \in 0 .. need - 1

(* The tables of the later passes are as wide as the number of variables   *)
(* the scan has found, and are indexed by variable, also when the scan     *)
(* stopped half way (ir_var_num in xjs_regsched_set_r1).                   *)
TablesFit == \A v \in DOMAIN life : v < Cardinality(DOMAIN life)

(* The count of the second pass suffices: allocate_vreg never comes back   *)
(* empty-handed, and only a lost label stops a compilation.                *)
NeverShort == phase = "failed" => Lost

(* What one pass has counted is enough for the tables and the registers of *)
(* the passes behind it (xjs_regsched_set_r1).                             *)
CountsSuffice == OperandsFit /\ TablesFit /\ NeverShort

(***************************************************************************)
(* The invariant of the proofs.                                            *)
(***************************************************************************)
Covered(i) == \A v \in Mentions(code[i]) : v \in DOMAIN life /\ Alive(v, i)

(* What is alive at the destination of a branch is alive up to the branch. *)
Closed(i) ==
  \A d \in DOMAIN code : Lands(i, d) =>
    \A v \in DOMAIN life : life[v].end >= d => life[v].end >= i

Scanned == IF phase = "scan" THEN point ELSE Len(code) + 1

LifeInv ==
  /\ IsFiniteSet(DOMAIN life) /\ TablesFit
  /\ phase = "scan" => DOMAIN life = Mentioned(code, point - 1)
  /\ phase = "scan" => \A v \in DOMAIN life : life[v].end < point
  /\ (phase = "scan" \/ ~Lost) => \A i \in DOMAIN code : i < Scanned => Covered(i) /\ Closed(i)

NeedInv ==
  \A p \in 1 .. Len(code) :
    \/ phase = "scan"
    \/ phase = "measure" /\ p >= point
    \/ Cardinality(Living(p)) <= need

(* Registers are shared by variables whose lives do not meet only.         *)
Apart(u, v) == life[u].end < life[v].start \/ life[v].end < life[u].start

RegInv ==
  /\ phase \in {"scan", "measure"} => DOMAIN reg = {} /\ using = {}
  /\ phase = "allocate" =>
       /\ \A v \in DOMAIN reg : life[v].start <= point
       /\ \A v \in DOMAIN life : life[v].start < point => v \in DOMAIN reg
       /\ using = {reg[v] : v \in {u \in DOMAIN reg : life[u].end >= point}}
  /\ phase \in {"generate", "run"} => DOMAIN reg = DOMAIN life
  /\ \A v \in DOMAIN reg : reg[v] \in 0 .. need - 1
  /\ \A u, v \in DOMAIN reg : u # v /\ reg[u] = reg[v] => Apart(u, v)

RunInv ==
  /\ phase # "run" => pc = 1 /\ written = {} /\ DOMAIN file = {}
  /\ (phase = "run" /\ need < Width) =>
       /\ \A v \in written, u \in DOMAIN life : life[u].end < life[v].start => life[u].end < pc
       /\ \A r \in DOMAIN file : reg[file[r]] = r
       /\ \A v \in written :
            /\ reg[v] \in DOMAIN file
            /\ \/ file[reg[v]] = v
               \/ life[v].end < life[file[reg[v]]].start

IInv ==
  /\ TypeOK /\ LifeInv /\ NeedInv /\ RegInv /\ RunInv
  /\ phase = "failed" => Lost
  /\ phase = "run" => ~Lost
===============================================================================
