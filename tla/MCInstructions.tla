--------------------------- MODULE MCInstructions ---------------------------
(***************************************************************************)
(* The instructions, checked apart: a behaviour is either one of MemoryOps *)
(* or one of Alu, and the other module's variables rest.                   *)
(***************************************************************************)
EXTENDS MemoryOps, Alu

Words == {0, 1, 90, 127, 128, 255}
Bits  == {0, 1, 4, 7}

\* Operands and flags, with one CR; CR, CTR and LR, with fixed operands.
OperandStarts ==
  [ra : Words, rb : Words, rt : {60}, so : {0, 1}, ov : {0}, ca : {0, 1},
   cr : {165}, pc : {252}, lr : {42}, ctr : {3}, out : {"next"}]
BranchStarts ==
  [ra : {90}, rb : {165}, rt : {0}, so : {0, 1}, ov : {0, 1}, ca : {0, 1},
   cr : {0, 24, 167, 255}, pc : {4}, lr : {7}, ctr : {0, 1, 2}, out : {"next"}]
MCStarts == OperandStarts \cup BranchStarts

NoAlu == [op |-> "idle"]
SomeInsn == CHOOSE j \in Insn : j.op = "stmw"

MCInit ==
  \/ /\ MemoryInit
     /\ did = NoAlu /\ cpu = (CHOOSE c \in Starts : TRUE) /\ before = cpu
  \/ /\ AluInit
     /\ insn = SomeInsn /\ state = "running" /\ n = 0 /\ i = 0
     /\ regs = OldRegs /\ mem = OldMem /\ frame = [p \in Page |-> p] /\ mapped = Page

\* Every instruction is an initial state: one stands for those that follow.
MCMemoryNext == Working \/ Begin(SomeInsn, frame, mapped)

\* A branch does not look at the operands.
MCAluNext == AluNext /\ (did'.op \in {"bc", "bclr", "bcctr"} => cpu \in BranchStarts)

MCNext ==
  \/ did = NoAlu /\ MCMemoryNext /\ UNCHANGED aluVars
  \/ did # NoAlu /\ MCAluNext /\ UNCHANGED memoryVars

MCSpec == MCInit /\ [][MCNext]_<<memoryVars, aluVars>>
=============================================================================
