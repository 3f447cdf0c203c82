------------------------------- MODULE VmStack -------------------------------
(***************************************************************************)
(* The stack of the virtual machine: xjr_vm_stkmap.h, the calls and        *)
(* returns of xjr_vm.c and the calls of the host, xjr_vm_call of xjr.c.    *)
(*                                                                         *)
(* One area of memory holds two things.  The frames grow from its low end; *)
(* sdp is the offset of the running one.  The table of the offsets of the  *)
(* frames below grows down from the high end; sp is the offset of its last *)
(* entry.  The contents of the arguments and registers are left out.       *)
(*                                                                         *)
(* The C stack of the process is "control": "main" and "extern" are runs   *)
(* of xjr_vm_start, for the program and for xjr_vm_call; "native" is a     *)
(* native function that xjr_vm_op_call has called.                         *)
(***************************************************************************)
EXTENDS Naturals, Sequences

CONSTANTS
  StackSize,      \* rstack.size
  Argcs,          \* the numbers of arguments of the program's calls
  Regcs,          \* the numbers of registers of its functions
  Dsts,           \* the registers its calls put their result in
  Sites,          \* the places in its code
  MaxDepth        \* XJR_VM_EXTERNAL_CALL_STACK_DEPTH_MAX

ASSUME StackAssumption ==
  /\ StackSize \in Nat /\ StackSize > 90
  /\ Argcs \subseteq Nat /\ 0 \in Argcs
  /\ Regcs \subseteq Nat \ {0}
  /\ 0 \in Dsts /\ Sites # {}
  /\ MaxDepth \in Nat \ {0}

VARIABLES
  pc,       \* rts.pc
  sdp,      \* rts.rstack.sdp
  saved,    \* the table, its last entry last
  mem,      \* the headers of the frames, by offset
  calls,    \* misc.external_calls: of each call of the host the sp
  control,  \* the C stack
  calledBack  \* history: a native function on it has called the machine back

vars == <<pc, sdp, saved, mem, calls, control, calledBack>>

Front(s) == SubSeq(s, 1, Len(s) - 1)
Last(s) == s[Len(s)]

HeaderSize == 18   \* XJR_OFFSET_SHIFT_ARGV
ValSize == 4       \* sizeof(xjr_val)
EntrySize == 4     \* sizeof(xjr_offset_t)
Reserve == 64      \* what a call wants to be left

Header == [type : {"CALL", "NEW"}, restore : Sites, dst : Dsts, argc : Argcs, vregc : Regcs \cup {0}]

(* XJR_VM_GET_SF_SIZE *)
FrameSize(h) == HeaderSize + ValSize * (h.argc + h.vregc)

Sp == StackSize - EntrySize * Len(saved)

(* Arguments or registers of the running frame, for which no instruction   *)
(* checks the room, are written over the table.                            *)
Overrun == sdp + FrameSize(mem[sdp]) > Sp

(* What xjr_vm_stack_init and op_call write; the callee allocates its      *)
(* registers itself.                                                       *)
NewFrame(type, dst, argc) ==
  [type |-> type, restore |-> pc, dst |-> dst, argc |-> argc, vregc |-> 0]

(* The memory up to a frame; what lies above the running one is free.      *)
UpTo(offset) == {o \in DOMAIN mem : o <= offset}

PutFrame(offset, h) ==
  [o \in UpTo(offset) \cup {offset} |-> IF o = offset THEN h ELSE mem[o]]

(* XJR_VM_STACK_DECREASE_SP *)
PopFrame ==
  /\ sdp' = Last(saved)
  /\ saved' = Front(saved)
  /\ mem' = [o \in UpTo(Last(saved)) |-> mem[o]]

Running == control # <<>> /\ Last(control) \in {"main", "extern"}
InNative == control # <<>> /\ Last(control) = "native"

----------------------------------------------------------------------------
(* Instructions                                                            *)

(* XJR_BC_OP_BR, XJR_BC_OP_BRC and the instructions between.               *)
Jump(site) ==
  /\ Running
  /\ pc' = site
  /\ UNCHANGED <<sdp, saved, mem, calls, control>>

(* xjr_vm_op_allocreg, the first instruction of each function.             *)
AllocReg(nreg) ==
  /\ Running /\ mem[sdp].vregc = 0
  /\ mem' = [mem EXCEPT ![sdp].vregc = nreg]
  /\ UNCHANGED <<pc, sdp, saved, calls, control>>

(* A slip: no room is kept for the frame to come.                          *)
HasRoomUnreserved == sdp + FrameSize(mem[sdp]) < Sp

HasRoom == sdp + FrameSize(mem[sdp]) + Reserve < Sp

(* XJR_VM_STACK_INCREASE_SP and the step to the next frame.                *)
PushFrame(type, dst, argc) ==
  LET next == sdp + FrameSize(mem[sdp])
  IN  /\ saved' = Append(saved, sdp)
      /\ sdp' = next
      /\ mem' = PutFrame(next, NewFrame(type, dst, argc))

(* xjr_vm_op_call and xjr_vm_op_new of a function of the program.          *)
Call(type, dst, argc, entry) ==
  /\ Running /\ HasRoom
  /\ PushFrame(type, dst, argc)
  /\ pc' = entry
  /\ UNCHANGED <<calls, control>>

(* xjr_vm_op_call of a native function, up to its callback.                *)
CallNative(dst, argc) ==
  /\ Running /\ HasRoom
  /\ PushFrame("CALL", dst, argc)
  /\ control' = Append(control, "native")
  /\ UNCHANGED <<pc, calls>>

(* Its callback returns.  (With an empty table the read of the entry would *)
(* leave the stack.)                                                       *)
NativeReturn ==
  /\ InNative /\ saved # <<>>
  /\ PopFrame
  /\ control' = Front(control)
  /\ UNCHANGED <<pc, calls>>

(* A run of xjr_vm_start ends; xjr_vm_call takes its entry back.           *)
EndRun ==
  /\ control' = Front(control)
  /\ calls' = IF Last(control) = "extern" THEN Front(calls) ELSE calls

(* No room, a callee that is no function, a native constructor, no memory  *)
(* for the environment: all but the first leave the new frame behind.      *)
CallFails(type, dst, argc) ==
  /\ Running
  /\ IF HasRoom THEN PushFrame(type, dst, argc) ELSE UNCHANGED <<sdp, saved, mem>>
  /\ EndRun
  /\ UNCHANGED pc

(* The frame that a call of the host has begun with.                       *)
AtExternalLevel == calls # <<>> /\ Last(calls) = Sp

(* Slips: the restore point is taken for "new" only; a return does not     *)
(* know the frame a call of the host began with.                           *)
ReturnOfNewOnly ==
  /\ Running /\ ~AtExternalLevel /\ saved # <<>>
  /\ pc' = IF mem[sdp].type = "NEW" THEN mem[sdp].restore ELSE pc
  /\ PopFrame
  /\ UNCHANGED <<calls, control>>

ReturnAnyLevel ==
  /\ Running /\ saved # <<>>
  /\ pc' = mem[sdp].restore
  /\ PopFrame
  /\ UNCHANGED <<calls, control>>

(* xjr_vm_op_ret, also of a constructor.                                   *)
Return ==
  /\ Running /\ ~AtExternalLevel /\ saved # <<>>
  /\ pc' = mem[sdp].restore
  /\ PopFrame
  /\ UNCHANGED <<calls, control>>

(* xjr_vm_op_ret from the frame that a call of the host has begun with.    *)
ReturnToHost ==
  /\ Running /\ AtExternalLevel
  /\ pc' = mem[sdp].restore
  /\ IF Len(calls) > 1 THEN PopFrame ELSE UNCHANGED <<sdp, saved, mem>>
  /\ EndRun

(* XJR_BC_OP_HALT, XJR_BC_OP_DEBUG and the errors of other instructions.   *)
Halt ==
  /\ Running
  /\ EndRun
  /\ UNCHANGED <<pc, sdp, saved, mem>>

----------------------------------------------------------------------------
(* Calls of the host, which may be a native function.                      *)

Callable == control = <<>> \/ (InNative /\ ~Overrun)

(* xjr_vm_call and xjr_vm_stack_init_on_call without a call around.        *)
FirstCall(argc, entry) ==
  /\ Callable /\ calls = <<>>
  /\ saved' = <<>> /\ sdp' = 0
  /\ mem' = PutFrame(0, NewFrame("CALL", 0, argc))
  /\ pc' = entry
  /\ calls' = <<StackSize>>
  /\ control' = Append(control, "extern")

(* The same within a call: the table gets an entry, sdp stays.             *)
NestedCall(argc, entry) ==
  /\ Callable /\ calls # <<>> /\ Len(calls) < MaxDepth /\ HasRoom
  /\ saved' = Append(saved, sdp)
  /\ mem' = PutFrame(sdp, NewFrame("CALL", 0, argc))
  /\ pc' = entry
  /\ calls' = Append(calls, Sp - EntrySize)
  /\ control' = Append(control, "extern")
  /\ UNCHANGED sdp

(* xjr_vm_stack_init_on_boot; the host then runs the program.              *)
Init ==
  /\ pc \in Sites
  /\ sdp = 0 /\ saved = <<>>
  /\ mem = [o \in {0} |-> NewFrame("CALL", 0, 0)]
  /\ calls = <<>>
  /\ control = <<"main">>
  /\ calledBack = FALSE

Instruction ==
  \/ \E site \in Sites : Jump(site)
  \/ \E nreg \in Regcs : AllocReg(nreg)
  \/ \E type \in {"CALL", "NEW"}, dst \in Dsts, argc \in Argcs :
       \/ \E entry \in Sites : Call(type, dst, argc, entry)
       \/ CallFails(type, dst, argc)
  \/ \E dst \in Dsts, argc \in Argcs : CallNative(dst, argc)
  \/ Return \/ ReturnToHost \/ Halt

(* What a program does whose table is overwritten is not modelled.         *)
Next ==
  \/ ~Overrun /\ (Instruction \/ NativeReturn) /\ UNCHANGED calledBack
  \/ /\ \E argc \in Argcs, entry \in Sites : FirstCall(argc, entry) \/ NestedCall(argc, entry)
     /\ calledBack' = (control # <<>>)

Spec == Init /\ [][Next]_vars

----------------------------------------------------------------------------
(* Properties                                                              *)

TypeOK ==
  /\ pc \in Sites
  /\ sdp \in Nat
  /\ saved \in Seq(Nat)
  /\ DOMAIN mem \subseteq Nat /\ mem \in [DOMAIN mem -> Header]
  /\ calls \in Seq(Nat) /\ Len(calls) <= MaxDepth
  /\ control \in Seq({"main", "extern", "native"})
  /\ calledBack \in BOOLEAN

(* The offsets of the active frames, which xjr_gc_mark goes through.       *)
Bases == Append(saved, sdp)
Walk == [i \in DOMAIN Bases |-> mem[Bases[i]]]

(* The frames lie one behind the other from offset 0 on, but for the frame *)
(* of a call that a native function makes, which takes the place of the    *)
(* frame of that function.  And neither a call nor the registers it        *)
(* allocates run into the offsets of the callers, unless they are more     *)
(* than ten values: a call keeps 64 bytes free, allocreg checks nothing.   *)
FramesFit ==
  /\ Bases[1] = 0
  /\ \A i \in 1 .. Len(Bases) : Bases[i] \in DOMAIN mem
  /\ \A i \in 1 .. Len(saved) :
       \/ Bases[i + 1] = Bases[i] + FrameSize(mem[Bases[i]])
       \/ calledBack /\ Bases[i + 1] = Bases[i]
  /\ Overrun => mem[sdp].argc + mem[sdp].vregc > 10

(* What a walk over the frames finds is the stack of activations, and a    *)
(* return resumes where the frame that ends was called, until the table is *)
(* overwritten or a native function calls the machine back.                *)
Lost == calledBack \/ (control # <<>> /\ Overrun)

Calling == INSTANCE CallStack WITH
  stack <- IF control = <<>> \/ Lost THEN <<>> ELSE Walk, lost <- Lost, Activation <- Header
ImplementsCalls == Calling!CallSpec

(* A call of the host ends with the frame it began with: it never returns  *)
(* into a frame of those that called the host.                             *)
OwnFramesOnly == calls # <<>> => Sp <= Last(calls)
=============================================================================
