------------------------------- MODULE XpsIntc -------------------------------
(***************************************************************************)
(* DevXpsIntc, the interrupt controller.  It latches edges in ISR, masks   *)
(* them with IER, and keeps the processor's external interrupt input up    *)
(* while an enabled one is latched.  Register writes come from the CPU     *)
(* thread; triggerIRQ from whatever thread a device runs it on.  The class *)
(* has no lock, so an action here is one access to a shared word.          *)
(***************************************************************************)
EXTENDS Naturals

CONSTANTS
  Line,     \* the inputs devices are wired to
  Thread,   \* threads that call into the controller
  CPU       \* the one that runs the guest

ASSUME IntcAssumption == Line \subseteq 0..31 /\ CPU \in Thread

VARIABLES
  reg,           \* regs[]: the sets of lines in ISR and in IER
  triggeredCPU,
  irqFlag,       \* PPCCPUState::irqFlag, the input of the processor
  at,            \* where each thread is in the controller's code
  doing,         \* the update each thread has in hand
  seen           \* the set of lines each thread holds in a machine register

intcVars == <<reg, triggeredCPU, irqFlag, at, doing, seen>>

Reg  == {"ISR", "IER"}
\* = data, |= data and &= ~data
How  == {"set", "or", "andnot"}
Place == {"out", "load", "store", "readISR", "readIER", "decide", "drive"}
Update == [reg : Reg, how : How, lines : SUBSET Line]

\* Mutant of Updated: a newly triggered line replaces the latched ones.
UpdatedByLastOnly(old, u) ==
  IF u.how = "andnot" THEN old \ u.lines ELSE u.lines

Updated(old, u) ==
  CASE u.how = "set"    -> u.lines
    [] u.how = "or"     -> old \cup u.lines
    [] u.how = "andnot" -> old \ u.lines
-----------------------------------------------------------------------------
Enter(t, u) ==
  /\ at[t] = "out"
  /\ at' = [at EXCEPT ![t] = IF u.how = "set" THEN "store" ELSE "load"]
  /\ doing' = [doing EXCEPT ![t] = u]
  /\ UNCHANGED <<reg, triggeredCPU, irqFlag, seen>>

\* Mutant of TriggerIRQ: lines counted from 1.
TriggerIRQCountingFromOne(t, n) ==
  Enter(t, [reg |-> "ISR", how |-> "or", lines |-> {n + 1}])

TriggerIRQ(t, n) == Enter(t, [reg |-> "ISR", how |-> "or", lines |-> {n}])

\* write32 to ISR, IER, IAR, SIE and CIE
Write32(t, r, how, lines) ==
  /\ how = "or" => r = "IER"
  /\ Enter(t, [reg |-> r, how |-> how, lines |-> lines])

\* write32 to MER, which is stored and never consulted, and to IPR and IVR
Write32Unused(t) ==
  /\ at[t] = "out"
  /\ at' = [at EXCEPT ![t] = "readISR"]
  /\ UNCHANGED <<reg, triggeredCPU, irqFlag, doing, seen>>

Load(t) ==
  /\ at[t] = "load"
  /\ seen' = [seen EXCEPT ![t] = reg[doing[t].reg]]
  /\ at' = [at EXCEPT ![t] = "store"]
  /\ UNCHANGED <<reg, triggeredCPU, irqFlag, doing>>

\* Mutant of Store: reassessOutput is not called after IER was written.
StoreReassessingISROnly(t) ==
  /\ at[t] = "store"
  /\ reg' = [reg EXCEPT ![doing[t].reg] = Updated(seen[t], doing[t])]
  /\ at' = [at EXCEPT ![t] = IF doing[t].reg = "ISR" THEN "readISR" ELSE "out"]
  /\ UNCHANGED <<triggeredCPU, irqFlag, doing, seen>>

Store(t) ==
  /\ at[t] = "store"
  /\ reg' = [reg EXCEPT ![doing[t].reg] = Updated(seen[t], doing[t])]
  /\ at' = [at EXCEPT ![t] = "readISR"]
  /\ UNCHANGED <<triggeredCPU, irqFlag, doing, seen>>

(* reassessOutput *)

ReadISR(t) ==
  /\ at[t] = "readISR"
  /\ seen' = [seen EXCEPT ![t] = reg["ISR"]]
  /\ at' = [at EXCEPT ![t] = "readIER"]
  /\ UNCHANGED <<reg, triggeredCPU, irqFlag, doing>>

ReadIER(t) ==
  /\ at[t] = "readIER"
  /\ seen' = [seen EXCEPT ![t] = @ \cap reg["IER"]]
  /\ at' = [at EXCEPT ![t] = "decide"]
  /\ UNCHANGED <<reg, triggeredCPU, irqFlag, doing>>

Decide(t) ==
  /\ at[t] = "decide"
  /\ triggeredCPU' = (seen[t] # {})
  /\ at' = [at EXCEPT ![t] = IF triggeredCPU' # triggeredCPU THEN "drive" ELSE "out"]
  /\ UNCHANGED <<reg, irqFlag, doing, seen>>

Drive(t) ==
  /\ at[t] = "drive"
  /\ irqFlag' = (seen[t] # {})
  /\ at' = [at EXCEPT ![t] = "out"]
  /\ UNCHANGED <<reg, triggeredCPU, doing, seen>>

InIntc(t) == Load(t) \/ Store(t) \/ ReadISR(t) \/ ReadIER(t) \/ Decide(t) \/ Drive(t)
-----------------------------------------------------------------------------
IntcInit ==
  /\ reg = [r \in Reg |-> {}]
  /\ triggeredCPU = FALSE
  /\ irqFlag = FALSE
  /\ at = [t \in Thread |-> "out"]
  /\ doing = [t \in Thread |-> [reg |-> "ISR", how |-> "set", lines |-> {}]]
  /\ seen = [t \in Thread |-> {}]

IntcNext ==
  \/ \E t \in Thread : InIntc(t)
  \/ \E t \in Thread, n \in Line : TriggerIRQ(t, n)
  \/ \E r \in Reg, how \in How, ls \in SUBSET Line : Write32(CPU, r, how, ls)
  \/ Write32Unused(CPU)

IntcSpec == IntcInit /\ [][IntcNext]_intcVars
-----------------------------------------------------------------------------
(* Type correctness of the registers and of each thread's progress.        *)
IntcTypeOK ==
  /\ reg \in [Reg -> SUBSET Line]
  /\ triggeredCPU \in BOOLEAN
  /\ irqFlag \in BOOLEAN
  /\ at \in [Thread -> Place]
  /\ doing \in [Thread -> Update]
  /\ seen \in [Thread -> SUBSET Line]

Settled == \A t \in Thread : at[t] = "out"

Active == reg["ISR"] \cap reg["IER"] # {}

(* Between calls the processor's input is up exactly while an enabled      *)
(* interrupt is latched (reassessOutput, "so it can have EI                *)
(* activated/deactivated"): no interrupt is left unseen, none is raised    *)
(* for nothing.                                                            *)
EiFollowsActive == Settled => irqFlag = Active

(* Only the guest's acknowledgement (or a write of ISR itself) takes a     *)
(* latched line away: an edge is remembered until then.                    *)
EdgesAreKept ==
  [][\A t \in Thread, n \in Line :
        Store(t) /\ n \in reg["ISR"] /\ n \notin reg'["ISR"]
          => t = CPU /\ (doing[t].how = "set" \/ n \in doing[t].lines)]_intcVars
=============================================================================
