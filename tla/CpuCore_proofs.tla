--------------------------- MODULE CpuCore_proofs ----------------------------
(***************************************************************************)
(* Theorems about CpuCore, for any set of tasks, any program of the kinds  *)
(* of instruction modelled, and any bounds.                                *)
(***************************************************************************)
EXTENDS CpuCore, TLAPS

(* NextOf stays inside the program. *)
LEMMA NextOfType ==
  ASSUME NEW n \in Int
  PROVE  NextOf(n) \in 1..Len(Program)
<1>1. Len(Program) \in Nat \ {0}
  BY CoreAssumption, SMT
<1>2. n % Len(Program) \in 0..Len(Program) - 1
  BY <1>1, SMT
<1> QED
  BY <1>1, <1>2, SMT DEF NextOf

(* A place of a task is In("task", n), and one of a handler In(e, n). *)
LEMMA PlaceIn ==
  /\ \A n \in 1..Len(Program) : In("task", n) \in Place
  /\ \A e \in Exc \cup {"boot"}, n \in 0..3 : In(e, n) \in Place
  /\ \A p \in Place : p.at \in Int /\ p.code \in Exc \cup {"boot", "task"} /\ p = In(p.code, p.at)
  /\ \A p \in Place : p.code # "task" => p.at \in 0..3
<1>1. Len(Program) \in Nat
  BY CoreAssumption, SMT
<1> QED
  BY <1>1, SMT DEF Place, In, Exc

(* The constructors leave a well-typed state. *)
LEMMA CoreInitType == CoreInit => CoreTypeOK
<1> SUFFICES ASSUME CoreInit PROVE CoreTypeOK
  OBVIOUS
<1>1. Len(Program) \in Nat \ {0}
  BY CoreAssumption, SMT
<1>2. In("task", 1) \in Place /\ In("boot", 0) \in Place
  BY <1>1, PlaceIn
<1>3. saved \in [Task -> [pc : Place, msr : SUBSET MsrBit]]
  BY <1>2 DEF CoreInit, UserMsr, MsrBit
<1>4. dec \in -1..MaxDec /\ tbLow \in 0..3 /\ shared \in 0..Values - 1 /\ stored \in 0..Values - 1
  BY CoreAssumption, SMT DEF CoreInit
<1>5. loaded \in [Task -> 0..Values - 1] /\ retired \in [Task -> 1..Len(Program)]
  BY CoreAssumption, <1>1, SMT DEF CoreInit
<1> QED
  BY <1>2, <1>3, <1>4, <1>5, CoreAssumption DEF CoreInit, CoreTypeOK

(* Taking an exception keeps the registers well typed. *)
LEMMA TakeExceptionType ==
  ASSUME CoreTypeOK, NEW e \in Exc, NEW at \in Place, TakeException(e, at)
  PROVE  /\ pc' \in Place /\ srr0' \in Place
         /\ msr' \subseteq MsrBit /\ srr1' \subseteq MsrBit
         /\ mmuIRDR' \subseteq {"IR", "DR"}
BY PlaceIn DEF CoreTypeOK, TakeException

(* One tick keeps DEC within its range. *)
LEMMA TickedType == CoreTypeOK => Ticked \in -1..MaxDec
BY CoreAssumption, SMT DEF CoreTypeOK, Ticked

(* Every instruction, the tick and an interrupt keep the state well typed. *)
LEMMA CoreNextType == CoreTypeOK /\ [CoreNext]_coreVars => CoreTypeOK'
<1> SUFFICES ASSUME CoreTypeOK, [CoreNext]_coreVars PROVE CoreTypeOK'
  OBVIOUS
<1> USE DEF CoreTypeOK
<1>0. CASE UNCHANGED coreVars
  BY <1>0 DEF coreVars, regs, timer, guest, count
<1>a. InTask => /\ pc.at \in 1..Len(Program)
                /\ NextOf(pc.at) \in 1..Len(Program)
                /\ In("task", NextOf(pc.at)) \in Place
  <2> SUFFICES ASSUME InTask PROVE pc.at \in 1..Len(Program) /\ NextOf(pc.at) \in 1..Len(Program)
                                    /\ In("task", NextOf(pc.at)) \in Place
    OBVIOUS
  <2>1. pc.at \in Int /\ pc.code = "task"
    BY PlaceIn DEF InTask
  <2>2. pc \in [code : {"task"}, at : 1..Len(Program)]
    BY <2>1 DEF Place, Exc
  <2> QED
    BY <2>1, <2>2, NextOfType, PlaceIn
<1>b. \A t \in Task : NextOf(retired[t]) \in 1..Len(Program)
  BY NextOfType, CoreAssumption, SMT
<1>c. ASSUME NEW n \in Int, In("task", NextOf(n)) \in Place, StepOn(n)
      PROVE  pc' \in Place /\ retired' \in [Task -> 1..Len(Program)]
  BY <1>b, <1>c DEF StepOn
<1>d. {"EXC_ISI", "EXC_DSI", "EXC_PROG", "EXC_SC", "EXC_IRQ", "EXC_DEC"} \subseteq Exc
  BY DEF Exc
<1>1. CASE FetchFaults
  BY <1>1, <1>d, TakeExceptionType, SMTT(60) DEF FetchFaults, RaiseMem, timer, guest, count
<1>2. ASSUME NEW taken \in BOOLEAN, Branch(taken) PROVE CoreTypeOK'
  <2>1. InTask /\ 1 \in 1..Len(Program)
    BY <1>2, <1>a, SMT DEF Branch, Executes
  <2>2. In("task", 1) \in Place
    BY <2>1, PlaceIn
  <2>3. pc' \in Place /\ retired' \in [Task -> 1..Len(Program)]
    BY <1>2, <2>1, <2>2, <1>a, <1>c, PlaceIn DEF Branch
  <2> QED
    BY <1>2, <2>3 DEF Branch, Executes, timer, guest, count
<1>3. CASE Load
  <2>1. CASE Faults("data", "DR")
    BY <1>3, <2>1, <1>d, TakeExceptionType, SMTT(60) DEF Load, Executes, RaiseMem, timer, guest, count
  <2>2. CASE ~Faults("data", "DR")
    BY <1>3, <2>2, <1>a, <1>c, PlaceIn DEF Load, Executes, timer, guest, count
  <2> QED BY <2>1, <2>2
<1>4. CASE Sc
  <2>1. retired' \in [Task -> 1..Len(Program)]
    BY <1>4, <1>b DEF Sc
  <2> QED
    BY <1>4, <2>1, <1>a, <1>d, TakeExceptionType DEF Sc, Executes, timer, guest, count
<1>5. CASE Trap
  BY <1>5, <1>d, TakeExceptionType DEF Trap, Executes, timer, guest, count
<1>6. CASE Lwarx
  <2>1. reserved' \in Word \cup {"none"}
    BY <1>6 DEF Lwarx, Word
  <2>2. CASE Faults("data", "DR")
    BY <1>6, <2>1, <2>2, <1>d, TakeExceptionType, SMTT(60) DEF Lwarx, Executes, RaiseMem, timer, guest
  <2>3. CASE ~Faults("data", "DR")
    <3>1. InTask /\ StepOn(pc.at)
      BY <1>6, <2>3 DEF Lwarx, Executes
    <3>2. pc.at \in Int /\ In("task", NextOf(pc.at)) \in Place
      BY <3>1, <1>a
    <3>3. pc' \in Place /\ retired' \in [Task -> 1..Len(Program)]
      BY <3>1, <3>2, <1>c
    <3>4. loaded' = [loaded EXCEPT ![cur] = shared]
      BY <1>6, <2>3 DEF Lwarx, Executes
    <3>5. loaded' \in [Task -> 0..Values - 1]
      BY <3>4
    <3> QED
      BY <1>6, <2>1, <2>3, <3>3, <3>5 DEF Lwarx, Executes, timer, guest
  <2> QED BY <2>2, <2>3
<1>7. CASE Stwcx
  <2>1. CASE reserved = "shared" /\ Faults("data", "DR")
    BY <1>7, <2>1, <1>d, TakeExceptionType, SMTT(60) DEF Stwcx, Executes, RaiseMem, timer, guest
  <2>2. CASE ~(reserved = "shared" /\ Faults("data", "DR"))
    <3>1. loaded[cur] \in Nat /\ stored \in Nat
      BY SMT, CoreAssumption
    <3>2. (loaded[cur] + 1) % Values \in 0..Values - 1 /\ (stored + 1) % Values \in 0..Values - 1
      BY <3>1, CoreAssumption, SMT
    <3>3. shared' \in 0..Values - 1 /\ stored' \in 0..Values - 1
      BY <1>7, <2>2, <3>2 DEF Stwcx
    <3> QED
      BY <1>7, <2>2, <3>3, <1>a, <1>c, PlaceIn DEF Stwcx, Executes, timer, guest
  <2> QED BY <2>1, <2>2
<1>e. ASSUME NEW n \in 0..2, InHandler(n), HandlerGoesOn
      PROVE  pc' \in Place /\ phase' \in {"execute", "tick"}
  <2>1. pc.code \in Exc \cup {"boot"} /\ pc.at + 1 \in 0..3
    BY <1>e, PlaceIn, SMT DEF InHandler
  <2> QED
    BY <1>e, <2>1, PlaceIn DEF HandlerGoesOn
<1>8. CASE Service
  <2>1. pc' \in Place /\ phase' \in {"execute", "tick"}
    BY <1>8, <1>e DEF Service
  <2>2. dec' \in -1..MaxDec
    <3>1. MaxDec \in -1..MaxDec
      BY CoreAssumption, SMT
    <3> QED
      BY <1>8, <3>1 DEF Service, SetDec
  <2>3. mapped' \subseteq Page
    BY <1>8 DEF Service, Page, Wanted
  <2>4. srr0' \in Place /\ retired' \in [Task -> 1..Len(Program)]
    <3>1. In("task", NextOf(srr0.at)) \in Place
      BY PlaceIn, NextOfType
    <3> QED
      BY <1>8, <3>1, <1>b, SMTT(60) DEF Service
  <2>5. irqFlag' \in BOOLEAN
    BY <1>8 DEF Service
  <2> QED
    BY <1>8, <2>1, <2>2, <2>3, <2>4, <2>5 DEF Service, count
<1>9. CASE HandlerStwcx
  BY <1>9, <1>e DEF HandlerStwcx, timer, guest, count
<1>10. CASE SetTB
  <2>1. tbLow' \in 0..3
    BY <1>10, SMT DEF SetTB
  <2> QED
    BY <1>10, <2>1, <1>e DEF SetTB, timer, guest, count
<1>11. CASE Mtmsr
  BY <1>11, <1>e DEF Mtmsr, WriteMsr, MsrBit, timer, guest, count
<1>12. CASE HandlerUnmaps
  BY <1>12, <1>e DEF HandlerUnmaps, timer, guest, count
<1>13. ASSUME NEW t \in Task, SwitchTo(t) PROVE CoreTypeOK'
  <2> DEFINE kept == IF pc.code = "boot" THEN saved
                     ELSE [saved EXCEPT ![cur] = [pc |-> srr0, msr |-> srr1]]
  <2>1. kept \in [Task -> [pc : Place, msr : SUBSET MsrBit]]
    OBVIOUS
  <2>2. saved' = kept /\ srr0' = kept[t].pc /\ srr1' = kept[t].msr /\ cur' = t
    BY <1>13 DEF SwitchTo, Kept
  <2>3. kept[t].pc \in Place /\ kept[t].msr \subseteq MsrBit
    BY <2>1
  <2> HIDE DEF kept
  <2> QED
    BY <1>13, <2>1, <2>2, <2>3, <1>e, SMTT(60) DEF SwitchTo, timer, count
<1>14. CASE Rfi
  BY <1>14 DEF Rfi, WriteMsr, timer, guest, count
<1>15. CASE TickAndPoll
  <2>1. tbLow' \in 0..3
    BY <1>15, SMT DEF TickAndPoll
  <2>2. dec' \in -1..MaxDec
    BY <1>15, TickedType DEF TickAndPoll
  <2>3. \/ TakeException("EXC_IRQ", pc) \/ TakeException("EXC_DEC", pc) \/ UNCHANGED regs
    BY <1>15 DEF TickAndPoll
  <2> QED
    BY <1>15, <2>1, <2>2, <2>3, <1>d, TakeExceptionType DEF TickAndPoll, regs, guest, count
<1>16. CASE AssertIRQ
  BY <1>16 DEF AssertIRQ, regs, timer, guest, count
<1> QED
  BY <1>0, <1>1, <1>2, <1>3, <1>4, <1>5, <1>6, <1>7, <1>8, <1>9, <1>10, <1>11, <1>12, <1>13,
     <1>14, <1>15, <1>16 DEF CoreNext, Loop, TaskStep, HandlerStep

(* Type correctness of the processor. *)
THEOREM CoreTypeCorrect == CoreSpec => []CoreTypeOK
BY CoreInitType, CoreNextType, PTL DEF CoreSpec
-----------------------------------------------------------------------------
(* Every action that changes the MSR tells the MMU (takeException,         *)
(* WRITE_MSR), and no other touches either.                                *)
LEMMA MsrAndMmuMoveTogether ==
  [CoreNext]_coreVars => \/ mmuIRDR' = msr' \cap {"IR", "DR"}
                         \/ UNCHANGED <<msr, mmuIRDR>>
BY DEF CoreNext, Loop, TaskStep, HandlerStep, coreVars, regs, FetchFaults, Branch, Load, Sc, Trap,
       Lwarx, Stwcx, Service, HandlerStwcx, SetTB, Mtmsr, HandlerUnmaps, SwitchTo, Kept, Rfi, TickAndPoll,
       AssertIRQ, RaiseMem, TakeException, WriteMsr

(* Started with translation off, the MMU translates exactly when the MSR   *)
(* says so, after any sequence of exceptions, rfi and mtmsr.               *)
THEOREM MmuKnowsTheMsr ==
  ASSUME StartMsr \cap {"IR", "DR"} = {}
  PROVE  CoreSpec => []MmuFollowsMsr
<1>1. CoreInit => MmuFollowsMsr
  BY DEF CoreInit, MmuFollowsMsr
<1>2. MmuFollowsMsr /\ [CoreNext]_coreVars => MmuFollowsMsr'
  BY MsrAndMmuMoveTogether DEF MmuFollowsMsr
<1> QED
  BY <1>1, <1>2, PTL DEF CoreSpec
-----------------------------------------------------------------------------
(* While a task runs with its reservation, the word is what it loaded.     *)
(* That, and not LlScAtomic alone, is preserved by every step.             *)
ReservationHolds ==
  pc.code = "task" /\ reserved = "shared" => loaded[cur] = shared

(* lwarx/stwcx. loses no increment: the inductive step. *)
LEMMA CountPreserved ==
  ASSUME CoreTypeOK, LlScAtomic, ReservationHolds, [CoreNext]_coreVars
  PROVE  LlScAtomic' /\ ReservationHolds'
<1> USE DEF LlScAtomic, ReservationHolds
<1>0. CASE UNCHANGED coreVars
  BY <1>0 DEF coreVars, regs, count, guest
<1>a. ASSUME NEW e \in Exc, NEW at, TakeException(e, at) PROVE pc'.code # "task"
  BY <1>a DEF TakeException, In, Exc
<1>b. {"EXC_ISI", "EXC_DSI", "EXC_PROG", "EXC_SC", "EXC_IRQ", "EXC_DEC"} \subseteq Exc
  BY DEF Exc
<1>1. CASE FetchFaults
  BY <1>1, <1>a, <1>b DEF FetchFaults, RaiseMem, count
<1>2. ASSUME NEW taken \in BOOLEAN, Branch(taken) PROVE LlScAtomic' /\ ReservationHolds'
  BY <1>2 DEF Branch, Executes, InTask, guest, count
<1>3. CASE Load
  BY <1>3, <1>a, <1>b DEF Load, RaiseMem, Executes, InTask, guest, count
<1>4. CASE Sc
  BY <1>4, <1>a, <1>b DEF Sc, count
<1>5. CASE Trap
  BY <1>5, <1>a, <1>b DEF Trap, count
<1>6. CASE Lwarx
  <2>1. CASE Faults("data", "DR")
    BY <1>6, <2>1, <1>a, <1>b DEF Lwarx, RaiseMem
  <2>2. CASE ~Faults("data", "DR")
    BY <1>6, <2>2 DEF Lwarx, guest, CoreTypeOK
  <2> QED BY <2>1, <2>2
<1>7. CASE Stwcx
  <2>1. CASE reserved = "shared" /\ Faults("data", "DR")
    BY <1>7, <2>1, <1>a, <1>b DEF Stwcx, RaiseMem
  <2>2. CASE reserved = "shared" /\ ~Faults("data", "DR")
    <3>1. loaded[cur] = stored
      BY <1>7, <2>2 DEF Stwcx, Executes, InTask
    <3> QED
      BY <1>7, <2>2, <3>1 DEF Stwcx
  <2>3. CASE reserved # "shared"
    BY <1>7, <2>3 DEF Stwcx
  <2> QED BY <2>1, <2>2, <2>3
<1>c. ASSUME NEW n, InHandler(n), HandlerGoesOn PROVE pc'.code # "task"
  BY <1>c DEF InHandler, HandlerGoesOn, In
<1>8. CASE Service
  BY <1>8, <1>c DEF Service, count
<1>9. CASE HandlerStwcx
  BY <1>9, <1>c DEF HandlerStwcx, count
<1>10. CASE SetTB
  BY <1>10, <1>c DEF SetTB, count
<1>11. CASE Mtmsr
  BY <1>11, <1>c DEF Mtmsr, count
<1>12. CASE HandlerUnmaps
  BY <1>12, <1>c DEF HandlerUnmaps, count
<1>13. ASSUME NEW t \in Task, SwitchTo(t) PROVE LlScAtomic' /\ ReservationHolds'
  BY <1>13, <1>c DEF SwitchTo, count
<1>14. CASE Rfi
  BY <1>14 DEF Rfi, count
<1>15. CASE TickAndPoll
  <2>1. TakeException("EXC_IRQ", pc) \/ TakeException("EXC_DEC", pc) \/ UNCHANGED regs
    BY <1>15 DEF TickAndPoll
  <2> QED
    BY <1>15, <2>1, <1>a, <1>b DEF TickAndPoll, regs, guest, count
<1>16. CASE AssertIRQ
  BY <1>16 DEF AssertIRQ, regs, guest, count
<1> QED
  BY <1>0, <1>1, <1>2, <1>3, <1>4, <1>5, <1>6, <1>7, <1>8, <1>9, <1>10, <1>11, <1>12, <1>13,
     <1>14, <1>15, <1>16 DEF CoreNext, Loop, TaskStep, HandlerStep

(* However many tasks count the shared word with lwarx/stwcx., and whatever*)
(* interrupts and switches them in between, no increment is lost.          *)
THEOREM NoLostIncrement == CoreSpec => []LlScAtomic
<1>1. CoreInit => LlScAtomic /\ ReservationHolds
  BY DEF CoreInit, In, LlScAtomic, ReservationHolds
<1>2. CoreTypeOK /\ LlScAtomic /\ ReservationHolds /\ [CoreNext]_coreVars => LlScAtomic' /\ ReservationHolds'
  BY CountPreserved
<1> QED
  BY <1>1, <1>2, CoreTypeCorrect, PTL DEF CoreSpec
-----------------------------------------------------------------------------
(* Precise exceptions.  Where the context of each task is, and that nothing*)
(* can interrupt a handler; together these are inductive.                  *)
Fresh(t) == [pc |-> In("task", retired[t]), msr |-> UserMsr]

RunningPart == pc.code = "task" => pc = In("task", retired[cur]) /\ msr = UserMsr

SrrPart == pc.code \in Exc => srr0 = In("task", retired[cur]) /\ srr1 = UserMsr

SavedPart == \A t \in Task : (t # cur \/ pc.code = "boot") => saved[t] = Fresh(t)

BootPart == pc.code = "boot" /\ pc.at = 3 => srr0 = saved[cur].pc /\ srr1 = saved[cur].msr

QuietPart == pc.code # "task" => "EE" \notin msr

Precise == RunningPart /\ SrrPart /\ SavedPart /\ BootPart /\ QuietPart

(* The parts give ExactlyOnce. *)
LEMMA PreciseIsExactlyOnce == CoreTypeOK /\ Precise => ExactlyOnce
<1> SUFFICES ASSUME CoreTypeOK, Precise, NEW t \in Task PROVE ContextOf(t) = Fresh(t)
  BY DEF ExactlyOnce, Fresh
<1>1. pc.code \in Exc \cup {"boot", "task"}
  BY PlaceIn DEF CoreTypeOK
<1>2. CASE Running(t)
  <2>1. ContextOf(t) = [pc |-> pc, msr |-> msr]
    BY <1>2, Zenon DEF ContextOf, Running, InSrr, Exc
  <2> QED
    BY <1>2, <2>1 DEF Running, Precise, RunningPart, Fresh
<1>3. CASE InSrr(t)
  <2>0. ~Running(t)
    BY <1>3 DEF InSrr, Running, Exc
  <2>1. ContextOf(t) = [pc |-> srr0, msr |-> srr1]
    BY <1>3, <2>0, Zenon DEF ContextOf
  <2> QED
    BY <1>3, <2>1 DEF InSrr, Precise, SrrPart, Fresh
<1>4. CASE ~Running(t) /\ ~InSrr(t)
  <2>1. ContextOf(t) = saved[t]
    BY <1>4, Zenon DEF ContextOf
  <2> QED
    BY <1>1, <1>4, <2>1 DEF Running, InSrr, Precise, SavedPart
<1> QED
  BY <1>2, <1>3, <1>4

(* An exception taken while a task runs leaves its context in SRR0 and     *)
(* SRR1, if "at" is the place the task is to continue from.                *)
LEMMA TakeExceptionPrecise ==
  ASSUME CoreTypeOK, Precise, NEW e \in Exc, NEW at, TakeException(e, at),
         pc.code = "task", at = In("task", retired'[cur]),
         retired' \in [Task -> 1..Len(Program)],
         \A t \in Task \ {cur} : retired'[t] = retired[t], UNCHANGED guest
  PROVE  Precise'
<1>1. pc'.code = e /\ pc'.code \in Exc /\ pc'.code # "task" /\ pc'.code # "boot"
  BY DEF TakeException, In, Exc
<1>2. srr0' = at /\ srr1' = UserMsr /\ "EE" \notin msr'
  BY DEF TakeException, Precise, RunningPart
<1>3. RunningPart' /\ BootPart' /\ QuietPart'
  BY <1>1, <1>2 DEF RunningPart, BootPart, QuietPart
<1>4. SrrPart'
  BY <1>1, <1>2 DEF SrrPart, guest
<1>5. SavedPart'
  BY <1>1 DEF SavedPart, Precise, Fresh, guest
<1> QED
  BY <1>3, <1>4, <1>5 DEF Precise

(* A task's instruction that completes keeps its place in "retired". *)
LEMMA StepPrecise ==
  ASSUME CoreTypeOK, Precise, pc.code = "task", NEW n,
         pc' = In("task", n), retired' = [retired EXCEPT ![cur] = n],
         UNCHANGED <<msr, srr0, srr1, guest>>
  PROVE  Precise'
<1>1. pc'.code = "task" /\ retired'[cur] = n /\ cur' = cur
  BY DEF In, CoreTypeOK, guest
<1>2. \A t \in Task \ {cur} : retired'[t] = retired[t]
  BY DEF CoreTypeOK
<1>3. RunningPart'
  BY <1>1 DEF Precise, RunningPart
<1>4. SavedPart'
  BY <1>1, <1>2 DEF Precise, SavedPart, Fresh, guest
<1> QED
  BY <1>1, <1>3, <1>4 DEF Precise, SrrPart, BootPart, QuietPart, Exc

(* A handler's instruction that touches no context. *)
LEMMA HandlerPrecise ==
  ASSUME CoreTypeOK, Precise, NEW n \in {0, 1}, InHandler(n), HandlerGoesOn,
         "EE" \notin msr', UNCHANGED <<srr0, srr1, cur, saved, retired>>
  PROVE  Precise'
<1>1. pc'.code = pc.code /\ pc.code # "task" /\ pc'.at # 3
  BY SMT DEF InHandler, HandlerGoesOn, In
<1>2. SavedPart'
  BY <1>1 DEF Precise, SavedPart, Fresh
<1> QED
  BY <1>1, <1>2 DEF Precise, RunningPart, SrrPart, BootPart, QuietPart

(* Precise is preserved by every step. *)
LEMMA PrecisePreserved ==
  ASSUME CoreTypeOK, Precise, [CoreNext]_coreVars
  PROVE  Precise'
<1>0. CASE UNCHANGED coreVars
  BY <1>0 DEF coreVars, regs, guest, Precise, RunningPart, SrrPart, SavedPart, BootPart, QuietPart, Fresh
<1>t. CoreTypeOK'
  BY CoreNextType
<1>p. pc.code = "task" => pc = In("task", retired[cur])
  BY DEF Precise, RunningPart
<1>n. pc.code = "task" => pc.at = retired[cur]
  BY <1>p DEF In
<1>d. {"EXC_ISI", "EXC_DSI", "EXC_PROG", "EXC_SC", "EXC_IRQ", "EXC_DEC"} \subseteq Exc
  BY DEF Exc
<1>r. retired' \in [Task -> 1..Len(Program)]
  BY <1>t DEF CoreTypeOK
<1>e. ASSUME NEW e \in Exc, TakeException(e, pc), pc.code = "task", UNCHANGED <<retired, guest>>
      PROVE  Precise'
  BY <1>e, <1>p, <1>r, TakeExceptionPrecise
<1>s. ASSUME InTask, StepOn(pc.at), UNCHANGED <<msr, srr0, srr1, guest>>
      PROVE  Precise'
  <2>1. pc.code = "task" /\ pc' = In("task", NextOf(pc.at))
    BY <1>s DEF InTask, StepOn
  <2>2. retired' = [retired EXCEPT ![cur] = NextOf(pc.at)]
    BY <1>s, <1>n, <2>1 DEF StepOn
  <2> QED
    BY <1>s, <2>1, <2>2, StepPrecise
<1>1. CASE FetchFaults
  BY <1>1, <1>d, <1>e DEF FetchFaults, RaiseMem, InTask
<1>2. ASSUME NEW taken \in BOOLEAN, Branch(taken) PROVE Precise'
  <2>1. CASE taken /\ pc.at # 1
    BY <1>2, <2>1, StepPrecise DEF Branch, Executes, InTask
  <2>2. CASE ~(taken /\ pc.at # 1)
    BY <1>2, <2>2, <1>s DEF Branch, Executes
  <2> QED BY <2>1, <2>2
<1>3. CASE Load
  <2>1. CASE Faults("data", "DR")
    BY <1>3, <2>1, <1>d, <1>e DEF Load, RaiseMem, Executes, InTask
  <2>2. CASE ~Faults("data", "DR")
    BY <1>3, <2>2, <1>s DEF Load, Executes
  <2> QED BY <2>1, <2>2
<1>4. CASE Sc
  <2>1. pc.code = "task" /\ TakeException("EXC_SC", In("task", NextOf(pc.at))) /\ UNCHANGED guest
    BY <1>4 DEF Sc, Executes, InTask
  <2>2. retired' = [retired EXCEPT ![cur] = NextOf(pc.at)]
    BY <1>4, <2>1, <1>n DEF Sc
  <2>3. retired'[cur] = NextOf(pc.at) /\ \A t \in Task \ {cur} : retired'[t] = retired[t]
    BY <2>2 DEF CoreTypeOK
  <2> QED
    BY <2>1, <2>3, <1>d, <1>r, TakeExceptionPrecise
<1>5. CASE Trap
  BY <1>5, <1>d, <1>e DEF Trap, Executes, InTask
<1>6. CASE Lwarx
  <2>1. CASE Faults("data", "DR")
    BY <1>6, <2>1, <1>d, <1>e DEF Lwarx, RaiseMem, Executes, InTask
  <2>2. CASE ~Faults("data", "DR")
    BY <1>6, <2>2, <1>s DEF Lwarx, Executes
  <2> QED BY <2>1, <2>2
<1>7. CASE Stwcx
  <2>1. CASE reserved = "shared" /\ Faults("data", "DR")
    BY <1>7, <2>1, <1>d, <1>e DEF Stwcx, RaiseMem, Executes, InTask
  <2>2. CASE ~(reserved = "shared" /\ Faults("data", "DR"))
    BY <1>7, <2>2, <1>s DEF Stwcx, Executes
  <2> QED BY <2>1, <2>2
<1>8. CASE Service
  <2>1. pc'.code = pc.code /\ pc.code # "task" /\ pc'.at # 3 /\ "EE" \notin msr'
    BY <1>8, SMT DEF Service, InHandler, HandlerGoesOn, In, Precise, QuietPart
  <2>2. CASE pc.code = "EXC_PROG"
    <3>1. srr0.at = retired[cur]
      BY <2>2, <1>d DEF Precise, SrrPart, In
    <3>2. srr0' = In("task", NextOf(retired[cur])) /\ srr1' = srr1 /\ cur' = cur /\ saved' = saved
      BY <1>8, <2>2, <3>1 DEF Service
    <3>3. retired'[cur] = NextOf(retired[cur]) /\ \A t \in Task \ {cur} : retired'[t] = retired[t]
      BY <1>8, <2>2 DEF Service, CoreTypeOK
    <3>4. SavedPart'
      BY <2>1, <2>2, <3>2, <3>3 DEF Precise, SavedPart, Fresh
    <3>5. SrrPart'
      BY <2>1, <2>2, <3>2, <3>3, <1>d DEF Precise, SrrPart
    <3> QED
      BY <2>1, <2>2, <3>4, <3>5 DEF Precise, RunningPart, BootPart, QuietPart
  <2>3. CASE pc.code # "EXC_PROG"
    BY <1>8, <2>1, <2>3, HandlerPrecise DEF Service
  <2> QED BY <2>2, <2>3
<1>q. ASSUME NEW n, InHandler(n) PROVE "EE" \notin msr
  BY <1>q DEF InHandler, Precise, QuietPart
<1>9. CASE HandlerStwcx
  BY <1>9, <1>q, HandlerPrecise DEF HandlerStwcx, guest
<1>10. CASE SetTB
  BY <1>10, <1>q, HandlerPrecise DEF SetTB, guest
<1>11. CASE Mtmsr
  <2>1. "EE" \notin msr'
    BY <1>11 DEF Mtmsr, WriteMsr
  <2> QED
    BY <1>11, <2>1, HandlerPrecise DEF Mtmsr, guest
<1>12. CASE HandlerUnmaps
  BY <1>12, <1>q, HandlerPrecise DEF HandlerUnmaps
<1>13. ASSUME NEW t \in Task, SwitchTo(t) PROVE Precise'
  <2> DEFINE kept == IF pc.code = "boot" THEN saved
                     ELSE [saved EXCEPT ![cur] = [pc |-> srr0, msr |-> srr1]]
  <2>1. saved' = kept /\ srr0' = kept[t].pc /\ srr1' = kept[t].msr /\ cur' = t /\ UNCHANGED <<msr, retired>>
    BY <1>13 DEF SwitchTo, Kept
  <2>2. pc'.code = pc.code /\ pc.code # "task" /\ pc.code \in Exc \cup {"boot"}
    BY <1>13, PlaceIn DEF SwitchTo, InHandler, HandlerGoesOn, In, CoreTypeOK
  <2>3. \A u \in Task : kept[u] = Fresh(u)
    <3>1. CASE pc.code = "boot"
      BY <3>1 DEF Precise, SavedPart
    <3>2. CASE pc.code # "boot"
      <4>1. srr0 = In("task", retired[cur]) /\ srr1 = UserMsr
        BY <2>2, <3>2 DEF Precise, SrrPart
      <4>2. kept[cur] = Fresh(cur)
        BY <3>2, <4>1 DEF CoreTypeOK, Fresh
      <4>3. \A u \in Task \ {cur} : kept[u] = Fresh(u)
        BY <3>2 DEF CoreTypeOK, Precise, SavedPart
      <4> QED BY <4>2, <4>3
    <3> QED BY <3>1, <3>2
  <2>4. srr0' = In("task", retired[t]) /\ srr1' = UserMsr
    <3>1. Fresh(t).pc = In("task", retired[t]) /\ Fresh(t).msr = UserMsr
      BY DEF Fresh
    <3>2. kept[t] = Fresh(t)
      BY <2>3
    <3> HIDE DEF kept
    <3> QED
      BY <2>1, <3>1, <3>2
  <2> HIDE DEF kept
  <2>5. SavedPart'
    BY <2>1, <2>3 DEF SavedPart, Fresh
  <2>6. SrrPart' /\ BootPart'
    BY <2>1, <2>4 DEF SrrPart, BootPart
  <2> QED
    BY <2>1, <2>2, <2>5, <2>6 DEF Precise, RunningPart, QuietPart
<1>14. CASE Rfi
  <2>1. pc' = srr0 /\ msr' = srr1 /\ UNCHANGED <<srr0, srr1, guest, retired>>
    BY <1>14 DEF Rfi, WriteMsr
  <2>2. pc.code \in Exc \cup {"boot"} /\ pc.at = 3 /\ pc.code # "task"
    BY <1>14, PlaceIn DEF Rfi, InHandler, CoreTypeOK
  <2>3. srr0 = In("task", retired[cur]) /\ srr1 = UserMsr
    <3>1. CASE pc.code = "boot"
      <4>1. saved[cur] = Fresh(cur)
        BY <3>1 DEF Precise, SavedPart, CoreTypeOK
      <4> QED
        BY <2>2, <3>1, <4>1 DEF Precise, BootPart, Fresh
    <3>2. CASE pc.code # "boot"
      BY <2>2, <3>2 DEF Precise, SrrPart
    <3> QED BY <3>1, <3>2
  <2>4. pc'.code = "task"
    BY <2>1, <2>3 DEF In
  <2>5. RunningPart'
    BY <2>1, <2>3 DEF RunningPart, guest
  <2>6. SavedPart'
    BY <2>1, <2>4 DEF Precise, SavedPart, Fresh, guest
  <2> QED
    BY <2>4, <2>5, <2>6 DEF Precise, SrrPart, BootPart, QuietPart, Exc
<1>15. CASE TickAndPoll
  <2>1. \/ "EE" \in msr /\ (TakeException("EXC_IRQ", pc) \/ TakeException("EXC_DEC", pc))
        \/ UNCHANGED regs
    BY <1>15 DEF TickAndPoll
  <2>2. "EE" \in msr => pc.code = "task"
    BY DEF Precise, QuietPart
  <2>3. CASE UNCHANGED regs
    BY <1>15, <2>3 DEF TickAndPoll, regs, guest, Precise, RunningPart, SrrPart, SavedPart, BootPart,
                       QuietPart, Fresh
  <2> QED
    BY <1>15, <2>1, <2>2, <2>3, <1>d, <1>e DEF TickAndPoll
<1>16. CASE AssertIRQ
  BY <1>16 DEF AssertIRQ, regs, guest, Precise, RunningPart, SrrPart, SavedPart, BootPart, QuietPart, Fresh
<1> QED
  BY <1>0, <1>1, <1>2, <1>3, <1>4, <1>5, <1>6, <1>7, <1>8, <1>9, <1>10, <1>11, <1>12, <1>13,
     <1>14, <1>15, <1>16 DEF CoreNext, Loop, TaskStep, HandlerStep

(* Started with interrupts off, the processor loses or repeats no          *)
(* instruction of any task, whatever interrupts, faults and switches it.   *)
THEOREM ExceptionsArePrecise ==
  ASSUME "EE" \notin StartMsr
  PROVE  CoreSpec => []ExactlyOnce
<1>1. CoreInit => Precise
  BY DEF CoreInit, In, Precise, RunningPart, SrrPart, SavedPart, BootPart, QuietPart, Fresh, Exc
<1>2. CoreTypeOK /\ Precise /\ [CoreNext]_coreVars => Precise'
  BY PrecisePreserved
<1> QED
  BY <1>1, <1>2, CoreTypeCorrect, PreciseIsExactlyOnce, PTL DEF CoreSpec
=============================================================================
