------------------------------- MODULE CpuCore -------------------------------
(***************************************************************************)
(* The processor around its instructions (the interpreter build): the main *)
(* loop, exceptions and rfi, the decrementer, and lwarx/stwcx.             *)
(*                                                                         *)
(* The guest is the environment: Task programs run translated, in user mode*)
(* and with interrupts on; every exception enters a handler that services  *)
(* it, may switch tasks, and returns with rfi.  One step executes one      *)
(* instruction, or is the tick and poll that follows it.                   *)
(***************************************************************************)
EXTENDS Integers, Sequences

CONSTANTS
  Task,
  Program,     \* the kinds of instruction every task repeats
  StartMsr,    \* Config's start_msr
  KernelWord,  \* the word at which handlers execute stwcx.
  MaxDec,      \* bound: what the guest loads into DEC
  Values       \* bound: the shared word counts modulo this

Kind == {"branch", "load", "sc", "trap", "lwarx", "stwcx"}
MsrBit == {"EE", "PR", "IR", "DR", "IP"}
Exc == {"EXC_ISI", "EXC_DSI", "EXC_PROG", "EXC_SC", "EXC_IRQ", "EXC_DEC"}
Word == {"shared", KernelWord}
Page == {"code", "data"}

ASSUME CoreAssumption ==
  /\ Program \in Seq(Kind) /\ Program # <<>>
  /\ StartMsr \subseteq MsrBit
  /\ KernelWord \notin {"none", "shared"}
  /\ MaxDec \in Nat
  /\ Values \in Nat \ {0}

VARIABLES
  pc, msr, srr0, srr1,
  mmuIRDR,     \* PPCMMU's enabled_i and enabled_d
  irqFlag,
  dec,         \* -1 stands for every value with the top bit set
  tbLow,       \* the bits of tb below TB_SHIFT
  reserved,    \* the word a stwcx. would succeed at, or "none"
  phase,       \* "execute", or "tick" for the rest of the main loop's body
  cur, saved, mapped,      \* the guest's: task, contexts, pages
  shared, loaded,          \* the shared word, and what each task last loaded
  retired, stored          \* history: instructions completed, stwcx. that stored

regs == <<pc, msr, srr0, srr1, mmuIRDR>>
timer == <<dec, tbLow>>
guest == <<cur, saved, mapped>>
count == <<shared, loaded, stored>>
coreVars == <<regs, irqFlag, timer, reserved, phase, guest, count, retired>>

\* A place in a task's program, or the n-th step of a handler.
Place == [code : {"task"}, at : 1..Len(Program)] \cup [code : Exc \cup {"boot"}, at : 0..3]
In(code, n) == [code |-> code, at |-> n]
NextOf(n) == (n % Len(Program)) + 1
UserMsr == {"EE", "PR", "IR", "DR"}

InTask == phase = "execute" /\ pc.code = "task"
InHandler(n) == phase = "execute" /\ pc.code # "task" /\ pc.at = n
Instruction == Program[pc.at]

Faults(page, bit) == bit \in mmuIRDR /\ page \notin mapped
-----------------------------------------------------------------------------
(* Exceptions *)

\* Mutant of TakeException: the MMU is not told.
TakeExceptionQuietly(e, at) ==
  /\ srr0' = at
  /\ srr1' = msr
  /\ msr' = msr \cap {"IP"}
  /\ pc' = In(e, 0)
  /\ UNCHANGED mmuIRDR

\* takeException(e, ...) with the pc at "at".  The causes that its callers add
\* to SRR1 are left out.
TakeException(e, at) ==
  /\ srr0' = at
  /\ srr1' = msr
  /\ msr' = msr \cap {"IP"}
  /\ pc' = In(e, 0)
  /\ mmuIRDR' = msr' \cap {"IR", "DR"}

\* raiseMemException for a page; DAR and DSISR are left out.
RaiseMem(InD, at) == TakeException(IF InD THEN "EXC_ISI" ELSE "EXC_DSI", at)

WriteMsr(value) ==
  /\ msr' = value
  /\ mmuIRDR' = value \cap {"IR", "DR"}

\* incPC
StepOn(n) ==
  /\ pc' = In("task", NextOf(n))
  /\ retired' = [retired EXCEPT ![cur] = NextOf(@)]
-----------------------------------------------------------------------------
(* execute(): a task's instruction *)

\* An ISI makes execute() fetch again, from the handler, with no tick between.
FetchFaults ==
  /\ InTask
  /\ Faults("code", "IR")
  /\ RaiseMem(TRUE, pc)
  /\ UNCHANGED <<irqFlag, timer, reserved, phase, guest, count, retired>>

Executes(kind) ==
  /\ InTask
  /\ ~Faults("code", "IR")
  /\ Instruction = kind
  /\ phase' = "tick"

\* b, bc, bclr, bcctr: back to the start of the program, or straight on, as any
\* instruction that can raise nothing.  (A branch to itself ends the simulation.)
Branch(taken) ==
  /\ Executes("branch")
  /\ IF taken /\ pc.at # 1
       THEN pc' = In("task", 1) /\ retired' = [retired EXCEPT ![cur] = 1]
       ELSE StepOn(pc.at)
  /\ UNCHANGED <<msr, srr0, srr1, mmuIRDR, irqFlag, timer, reserved, guest, count>>

\* MFCHECK comes before the registers are written.
Load ==
  /\ Executes("load")
  /\ IF Faults("data", "DR")
       THEN RaiseMem(FALSE, pc) /\ UNCHANGED retired
       ELSE StepOn(pc.at) /\ UNCHANGED <<msr, srr0, srr1, mmuIRDR>>
  /\ UNCHANGED <<irqFlag, timer, reserved, guest, count>>

\* Mutant of Sc: SRR0 is taken before the pc moves on.
ScBeforeIncPC ==
  /\ Executes("sc")
  /\ TakeException("EXC_SC", pc)
  /\ retired' = [retired EXCEPT ![cur] = NextOf(@)]
  /\ UNCHANGED <<irqFlag, timer, reserved, guest, count>>

Sc ==
  /\ Executes("sc")
  /\ TakeException("EXC_SC", In("task", NextOf(pc.at)))
  /\ retired' = [retired EXCEPT ![cur] = NextOf(@)]
  /\ UNCHANGED <<irqFlag, timer, reserved, guest, count>>

\* tw, twi, and op_unk
Trap ==
  /\ Executes("trap")
  /\ TakeException("EXC_PROG", pc)
  /\ UNCHANGED <<irqFlag, timer, reserved, guest, count, retired>>

\* The reservation is made before MFCHECK looks for a fault.
Lwarx ==
  /\ Executes("lwarx")
  /\ reserved' = "shared"
  /\ IF Faults("data", "DR")
       THEN RaiseMem(FALSE, pc) /\ UNCHANGED <<loaded, retired>>
       ELSE /\ StepOn(pc.at)
            /\ loaded' = [loaded EXCEPT ![cur] = shared]
            /\ UNCHANGED <<msr, srr0, srr1, mmuIRDR>>
  /\ UNCHANGED <<irqFlag, timer, guest, shared, stored>>

Stwcx ==
  /\ Executes("stwcx")
  /\ IF reserved = "shared" /\ Faults("data", "DR")
       THEN /\ RaiseMem(FALSE, pc)
            /\ UNCHANGED <<reserved, shared, stored, retired>>
       ELSE /\ IF reserved = "shared"
                 THEN /\ shared' = (loaded[cur] + 1) % Values
                      /\ stored' = (stored + 1) % Values
                 ELSE UNCHANGED <<shared, stored>>
            /\ reserved' = "none"
            /\ StepOn(pc.at)
            /\ UNCHANGED <<msr, srr0, srr1, mmuIRDR>>
  /\ UNCHANGED <<irqFlag, timer, guest, loaded>>
-----------------------------------------------------------------------------
(* execute(): a handler's instruction.  Handlers run untranslated.         *)

HandlerGoesOn ==
  /\ pc' = In(pc.code, pc.at + 1)
  /\ phase' = "tick"

(* mtspr DEC.  The timer handler, like boot, loads it anew. *)
SetDec == dec' = MaxDec

\* The page that an exception is about.
Wanted(e) == IF e = "EXC_ISI" THEN {"code"} ELSE IF e = "EXC_DSI" THEN {"data"} ELSE {}

\* Step 0: what the exception asks for.  A trap is emulated: SRR0 moves on.
Service ==
  /\ InHandler(0)
  /\ HandlerGoesOn
  /\ irqFlag' = (irqFlag /\ pc.code # "EXC_IRQ")
  /\ IF pc.code \in {"EXC_DEC", "boot"} THEN SetDec ELSE UNCHANGED dec
  /\ mapped' = mapped \cup Wanted(pc.code)
  /\ IF pc.code = "EXC_PROG"
       THEN /\ srr0' = In("task", NextOf(srr0.at))
            /\ retired' = [retired EXCEPT ![cur] = NextOf(@)]
       ELSE UNCHANGED <<srr0, retired>>
  /\ UNCHANGED <<msr, srr1, mmuIRDR, tbLow, reserved, cur, saved, count>>

\* Step 1: one of a few instructions a handler may contain.
HandlerStwcx ==
  /\ InHandler(1)
  /\ HandlerGoesOn
  /\ reserved' = "none"
  /\ UNCHANGED <<msr, srr0, srr1, mmuIRDR, irqFlag, timer, guest, count, retired>>

\* mtspr TB loses the bits below TB_SHIFT.
SetTB ==
  /\ InHandler(1)
  /\ HandlerGoesOn
  /\ tbLow' = 0
  /\ UNCHANGED <<msr, srr0, srr1, mmuIRDR, irqFlag, dec, reserved, guest, count, retired>>

Mtmsr ==
  /\ InHandler(1)
  /\ HandlerGoesOn
  /\ WriteMsr({"DR"})
  /\ UNCHANGED <<srr0, srr1, irqFlag, timer, reserved, guest, count, retired>>

HandlerUnmaps ==
  /\ InHandler(1)
  /\ HandlerGoesOn
  /\ mapped' = {}
  /\ UNCHANGED <<msr, srr0, srr1, mmuIRDR, irqFlag, timer, reserved, cur, saved, count, retired>>

\* mfspr SRR0 and SRR1: the handler saves the context of the task it interrupts.
Kept == IF pc.code = "boot" THEN saved
        ELSE [saved EXCEPT ![cur] = [pc |-> srr0, msr |-> srr1]]

\* Step 2: mtspr SRR0 and SRR1 for the task to run.
SwitchTo(t) ==
  /\ InHandler(2)
  /\ HandlerGoesOn
  /\ saved' = Kept /\ srr0' = Kept[t].pc /\ srr1' = Kept[t].msr
  /\ cur' = t
  /\ UNCHANGED <<msr, mmuIRDR, irqFlag, timer, reserved, mapped, count, retired>>

\* Mutant of Rfi: reservations survive it.
RfiKeepingReservation ==
  /\ InHandler(3)
  /\ phase' = "tick"
  /\ pc' = srr0
  /\ WriteMsr(srr1)
  /\ UNCHANGED <<srr0, srr1, irqFlag, timer, reserved, guest, count, retired>>

Rfi ==
  /\ InHandler(3)
  /\ phase' = "tick"
  /\ reserved' = "none"
  /\ pc' = srr0
  /\ WriteMsr(srr1)
  /\ UNCHANGED <<srr0, srr1, irqFlag, timer, guest, count, retired>>
-----------------------------------------------------------------------------
(* The rest of the main loop *)

\* Mutant of DecPending: true as DEC passes zero, not while it is negative.
DecPendingOnce(d) == d < 0 /\ dec >= 0

\* isDecrementerPending, without its test of MSR.EE
DecPending(d) == d < 0

Ticked == IF tbLow = 3 /\ dec >= 0 THEN dec - 1 ELSE dec

TickAndPoll ==
  /\ phase = "tick"
  /\ phase' = "execute"
  /\ tbLow' = (tbLow + 1) % 4
  /\ dec' = Ticked
  /\ IF "EE" \in msr /\ irqFlag THEN TakeException("EXC_IRQ", pc)
     ELSE IF "EE" \in msr /\ DecPending(Ticked) THEN TakeException("EXC_DEC", pc)
     ELSE UNCHANGED regs
  /\ UNCHANGED <<irqFlag, reserved, guest, count, retired>>

\* assertIRQ, from the interrupt controller on any thread.  It is lowered by
\* the handler's acknowledgement.
AssertIRQ ==
  /\ ~irqFlag
  /\ irqFlag' = TRUE
  /\ UNCHANGED <<regs, timer, reserved, phase, guest, count, retired>>
-----------------------------------------------------------------------------
CoreInit ==
  /\ pc = In("boot", 0)
  /\ msr = StartMsr
  /\ srr0 = In("boot", 0) /\ srr1 = {}
  /\ mmuIRDR = {}
  /\ irqFlag = FALSE
  /\ dec = -1
  /\ tbLow = 0
  /\ reserved \in Word \cup {"none"}     \* not initialised
  /\ phase = "execute"
  /\ cur \in Task
  /\ saved = [t \in Task |-> [pc |-> In("task", 1), msr |-> UserMsr]]
  /\ mapped = {}
  /\ shared = 0 /\ loaded = [t \in Task |-> 0]
  /\ retired = [t \in Task |-> 1] /\ stored = 0

TaskStep ==
  \/ FetchFaults
  \/ \E taken \in BOOLEAN : Branch(taken)
  \/ Load \/ Sc \/ Trap \/ Lwarx \/ Stwcx

HandlerStep ==
  \/ Service \/ HandlerStwcx \/ SetTB \/ Mtmsr \/ HandlerUnmaps
  \/ \E t \in Task : SwitchTo(t)
  \/ Rfi

Loop == TaskStep \/ HandlerStep \/ TickAndPoll

CoreNext == Loop \/ AssertIRQ

\* The CPU thread keeps running.
CoreSpec == CoreInit /\ [][CoreNext]_coreVars /\ WF_coreVars(Loop)
-----------------------------------------------------------------------------
(* Type correctness. *)
CoreTypeOK ==
  /\ pc \in Place /\ srr0 \in Place
  /\ msr \subseteq MsrBit /\ srr1 \subseteq MsrBit
  /\ mmuIRDR \subseteq {"IR", "DR"}
  /\ irqFlag \in BOOLEAN
  /\ dec \in -1..MaxDec /\ tbLow \in 0..3
  /\ reserved \in Word \cup {"none"}
  /\ phase \in {"execute", "tick"}
  /\ cur \in Task /\ mapped \subseteq Page
  /\ saved \in [Task -> [pc : Place, msr : SUBSET MsrBit]]
  /\ shared \in 0..Values - 1 /\ stored \in 0..Values - 1
  /\ loaded \in [Task -> 0..Values - 1]
  /\ retired \in [Task -> 1..Len(Program)]

(* The MMU translates exactly when the MSR says so (setIRDR is told of     *)
(* every change of the MSR, "Set start MSR value" included).               *)
MmuFollowsMsr == mmuIRDR = msr \cap {"IR", "DR"}

\* The context task t will continue from.
Running(t) == t = cur /\ pc.code = "task"
InSrr(t) == t = cur /\ pc.code \in Exc
ContextOf(t) ==
  CASE Running(t) -> [pc |-> pc, msr |-> msr]
    [] InSrr(t)   -> [pc |-> srr0, msr |-> srr1]
    [] OTHER      -> saved[t]

(* Exceptions are precise: whatever interrupts a task, and however often   *)
(* it faults and is switched, it continues with the first instruction it   *)
(* has not completed, and with the MSR it had.                             *)
ExactlyOnce ==
  \A t \in Task : ContextOf(t) = [pc |-> In("task", retired[t]), msr |-> UserMsr]

(* lwarx/stwcx. increments are never lost: the shared word counts the      *)
(* stwcx. that stored (blow_reservation in rfi and stwcx., "to make a      *)
(* stwcx fail if an exception or RFI has occurred since the lwarx").       *)
LlScAtomic == shared = stored

(* A decrementer that has expired is delivered, also if it did so while    *)
(* interrupts were off (or is loaded anew by the guest), provided devices  *)
(* do not interrupt for ever.                                              *)
TimerFires ==
  <>[](~irqFlag) => (dec < 0 ~> (pc.code = "EXC_DEC" \/ dec >= 0))
=============================================================================
