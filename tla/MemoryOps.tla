------------------------------ MODULE MemoryOps ------------------------------
(***************************************************************************)
(* Loads and stores: the simple ones of 1, 2 and 4 bytes, and those that   *)
(* access memory more than once (lmw, stmw, lswi, lswx, stswi, stswx).     *)
(* PPCMMU's accessors translate the first byte only, move all of them, and *)
(* then look at the alignment.  After a page fault the guest's pager maps  *)
(* the page and the instruction starts again; after an alignment fault the *)
(* guest's handler does what the instruction should have done.             *)
(*                                                                         *)
(* A byte is a symbol: each address and each byte of a register starts with*)
(* its own name, so one instance of the data stands for all.  Only valid   *)
(* forms are executed: RA and RB are not loaded, so an instruction that is *)
(* started again finds the same base address.                              *)
(***************************************************************************)
EXTENDS Integers, FiniteSets

CONSTANTS
  NrRegs,      \* 32 in the code, whose "& 31" is a remainder here
  ZeroCount,   \* 32 in the code: the count that an NB of 0 stands for
  Count,       \* NB, or XER's string length
  Base,        \* effective addresses
  PageBytes, NrPages,
  Granule,     \* 8 in the code
  Align        \* MEM_OP_ALIGNMENT

ASSUME MemoryAssumption ==
  /\ NrRegs \in Nat \ {0} /\ ZeroCount \in 1..4 * NrRegs /\ Count \subseteq 0..4 * NrRegs
  /\ Granule \in {4 * k : k \in 1..Granule} /\ PageBytes \in {Granule * k : k \in 1..PageBytes}
  /\ NrPages \in Nat \ {0} /\ Base \subseteq 0..(NrPages * PageBytes - 4 * NrRegs)
  /\ Align \in 0..2

Reg == 0..NrRegs - 1
Page == 0..NrPages - 1
\* The last frame is another task's.
PA == 0..(NrPages + 1) * PageBytes - 1
Frames == {f \in [Page -> Page] : \A p, q \in Page : f[p] = f[q] => p = q}

Load == {"load", "lmw", "lswi", "lswx"}
Store == {"store", "stmw", "stswi", "stswx"}
Insn == [op : {"load", "store"}, rt : Reg, base : Base, nb : {1, 2, 4}]
        \cup [op : {"lmw", "stmw"}, rt : Reg, base : Base, nb : {0}]
        \cup [op : {"lswi", "lswx", "stswi", "stswx"}, rt : Reg, base : Base, nb : Count]

VARIABLES
  insn, state, \* the instruction; "running", "nopage", "align" or "done"
  n, i,        \* the counters of its loops
  regs, mem,   \* registers as four bytes, the most significant first; host memory
  frame,       \* where the guest's pages are
  mapped       \* those its page table has now

memoryVars == <<insn, state, n, i, regs, mem, frame, mapped>>

OldRegs == [r \in Reg |-> [k \in 1..4 |-> <<r, k>>]]
OldMem == [a \in PA |-> <<a>>]
Zeroed == <<>>

(* The architecture: byte b of the operand is at base + b and in a register *)

Single == insn.op \in {"load", "store"}
Length == IF insn.op \in {"lmw", "stmw"} THEN 4 * Cardinality(insn.rt..NrRegs - 1)
          ELSE IF insn.op \in {"lswi", "stswi"} /\ insn.nb = 0 THEN ZeroCount
          ELSE insn.nb
Operand == 0..Length - 1
RegOf(b) == IF Single THEN insn.rt ELSE (insn.rt + b \div 4) % NrRegs
ByteOf(b) == IF Single THEN 5 - Length + b ELSE (b % 4) + 1
Named == {RegOf(b) : b \in Operand}

PageOf(a) == a \div PageBytes
Physical(a) == frame[PageOf(a)] * PageBytes + (a % PageBytes)
Touched == {Physical(insn.base + b) : b \in Operand}

WithLoaded == [r \in Reg |-> IF r \notin Named THEN regs[r] ELSE
                [k \in 1..4 |-> IF \E b \in Operand : RegOf(b) = r /\ ByteOf(b) = k
                  THEN mem[Physical(insn.base + CHOOSE b \in Operand : RegOf(b) = r /\ ByteOf(b) = k)]
                  ELSE Zeroed]]
WithStored == [a \in PA |-> IF a \notin Touched THEN mem[a] ELSE
                LET b == CHOOSE b \in Operand : Physical(insn.base + b) = a
                IN regs[RegOf(b)][ByteOf(b)]]
-----------------------------------------------------------------------------
(* PPCMMU's accessors, for s bytes *)

NoPage(a) == PageOf(a) \notin mapped

Misaligned(s, pa) ==
  /\ pa % s # 0
  /\ Align = 0 \/ (Align = 1 /\ (pa % Granule) + s > Granule)

BytesAt(s, pa) == [k \in 1..4 |-> IF k > 4 - s THEN mem[pa + k - 1 - (4 - s)] ELSE Zeroed]

StoreAt(s, pa, v) ==
  mem' = [a \in PA |-> IF a \in pa..pa + s - 1 THEN v[a - pa + 1 + (4 - s)] ELSE mem[a]]
-----------------------------------------------------------------------------
(* The interpreter *)

\* Mutant of Bytes: one word too many for the multiples.
BytesOneMore == CASE insn.op \in {"lmw", "stmw"}                   -> 4 * (NrRegs + 1 - insn.rt)
                  [] insn.op \in {"lswi", "stswi"} /\ insn.nb = 0  -> ZeroCount
                  [] OTHER                                         -> insn.nb

\* How many bytes the loops of the instruction move.
Bytes == CASE insn.op \in {"lmw", "stmw"}                     -> 4 * (NrRegs - insn.rt)
           [] insn.op \in {"lswi", "stswi"} /\ insn.nb = 0    -> ZeroCount
           [] OTHER                                           -> insn.nb

Left == Bytes - n
Partial == ~Single /\ Left < 4
Size == IF Single THEN insn.nb ELSE 4
CurReg == (insn.rt + n \div 4) % NrRegs
At == insn.base + n + i
Here == Physical(At)
Works(ops) == state = "running" /\ Left > 0 /\ insn.op \in ops /\ ~NoPage(At)

\* v & (0xffffffff >> 8*(NB - n)), if the word is not complete
Masked(v) == [k \in 1..4 |-> IF Partial /\ k <= Left THEN Zeroed ELSE v[k]]

\* The register is written after MFCHECK.
LoadWord ==
  /\ Works(Load)
  /\ IF Misaligned(Size, Here)
       THEN state' = "align" /\ UNCHANGED <<regs, n>>
       ELSE /\ regs' = [regs EXCEPT ![CurReg] = Masked(BytesAt(Size, Here))]
            /\ n' = n + 4
            /\ UNCHANGED state
  /\ UNCHANGED <<insn, i, mem, frame, mapped>>

\* Mutant of StoreWord: the address does not advance.
StoreWordInPlace ==
  /\ Works(Store) /\ ~Partial
  /\ StoreAt(Size, Physical(insn.base), regs[CurReg])
  /\ IF Misaligned(Size, Here) THEN state' = "align" /\ UNCHANGED n
                               ELSE n' = n + 4 /\ UNCHANGED state
  /\ UNCHANGED <<insn, i, regs, frame, mapped>>

\* Memory is written before the alignment is looked at.
StoreWord ==
  /\ Works(Store) /\ ~Partial
  /\ StoreAt(Size, Here, regs[CurReg])
  /\ IF Misaligned(Size, Here) THEN state' = "align" /\ UNCHANGED n
                               ELSE n' = n + 4 /\ UNCHANGED state
  /\ UNCHANGED <<insn, i, regs, frame, mapped>>

\* The bytes that are left are stored one by one, each by STORE32.
StoreRest ==
  /\ Works(Store) /\ Partial
  /\ StoreAt(4, Here, regs[CurReg])
  /\ IF Misaligned(4, Here) THEN state' = "align" /\ UNCHANGED <<n, i>>
     ELSE /\ IF i + 1 < Left THEN i' = i + 1 /\ UNCHANGED n
                             ELSE i' = 0 /\ n' = n + 4
          /\ UNCHANGED state
  /\ UNCHANGED <<insn, regs, frame, mapped>>

\* MFCHECK
Fault ==
  /\ state = "running" /\ Left > 0 /\ NoPage(At)
  /\ state' = "nopage"
  /\ UNCHANGED <<insn, n, i, regs, mem, frame, mapped>>

\* The pager; the instruction is executed again.
Service ==
  /\ state = "nopage"
  /\ mapped' = mapped \cup {PageOf(At)}
  /\ state' = "running"
  /\ n' = 0 /\ i' = 0
  /\ UNCHANGED <<insn, regs, mem, frame>>

\* The alignment handler, with the pages it needs, byte by byte.
Emulate ==
  /\ state = "align"
  /\ mapped' = mapped \cup {PageOf(insn.base + b) : b \in Operand}
  /\ regs' = IF insn.op \in Load THEN WithLoaded ELSE regs
  /\ mem' = IF insn.op \in Store THEN WithStored ELSE mem
  /\ state' = "done"
  /\ UNCHANGED <<insn, n, i, frame>>

\* incPC
Finish ==
  /\ state = "running" /\ Left <= 0
  /\ state' = "done"
  /\ UNCHANGED <<insn, n, i, regs, mem, frame, mapped>>

\* Other instructions, and other tasks, prepare the next one.
Begin(j, f, pages) ==
  /\ state = "done"
  /\ insn' = j /\ state' = "running"
  /\ n' = 0 /\ i' = 0
  /\ regs' = OldRegs /\ mem' = OldMem
  /\ frame' = f /\ mapped' = pages

MemoryInit ==
  /\ insn \in Insn /\ state = "running"
  /\ n = 0 /\ i = 0
  /\ regs = OldRegs /\ mem = OldMem
  /\ frame \in Frames /\ mapped \in SUBSET Page

Working ==
  \/ LoadWord \/ StoreWord \/ StoreRest \/ Finish
  \/ Fault \/ Service \/ Emulate

MemoryNext ==
  \/ Working
  \/ \E j \in Insn, f \in Frames, pages \in SUBSET Page : Begin(j, f, pages)

MemorySpec == MemoryInit /\ [][MemoryNext]_memoryVars
-----------------------------------------------------------------------------
(* A string that fills its last word: the rest of one that does not is moved*)
(* wrongly (Masked, StoreRest).                                             *)
WholeWords == Single \/ Length % 4 = 0

(* No word of the operand crosses into another page.                        *)
WordsInPages == insn.base % 4 = 0 \/ (Length > 0 => PageOf(insn.base) = PageOf(insn.base + Length - 1))

(* Registers and memory that the instruction does not name keep their      *)
(* contents, also while a fault interrupts it half way: whole words only,  *)
(* and no store that crosses into a page elsewhere.                        *)
Footprint ==
  /\ insn.op \in Load => mem = OldMem /\ \A r \in Reg \ Named : regs[r] = OldRegs[r]
  /\ insn.op \in Store => regs = OldRegs
  /\ insn.op \in Store /\ WholeWords /\ WordsInPages =>
       \A a \in PA \ Touched : mem[a] = OldMem[a]

(* However often it faulted and was started again or emulated, an          *)
(* instruction that is done has moved its operand, past the last register  *)
(* to r0 and across pages that are not neighbours in memory.               *)
OperandMoved ==
  state = "done" /\ WholeWords =>
    /\ insn.op \in Load => regs = WithLoaded
    /\ insn.op \in Store => mem = WithStored

(* A store, whatever its address, changes its operand and no other memory: *)
(* one that the build does not permit (README.md, ALIGNMENT: "permit       *)
(* unaligned within a 64b boundary") is left to the handler.               *)
StoresStayInside ==
  insn.op \in Store /\ WholeWords => \A a \in PA \ Touched : mem[a] = OldMem[a]
=============================================================================
