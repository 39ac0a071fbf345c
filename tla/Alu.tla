--------------------------------- MODULE Alu ---------------------------------
(***************************************************************************)
(* The instructions on registers that are written by hand (Arithmetic,     *)
(* Logical, CondReg, Branch and Trap), and the macros of inst_utility.h    *)
(* with the additions, comparisons and mullw that tools/PPC.csv makes of   *)
(* them.  Words have W bits.  Operators follow the code's shifts and masks;*)
(* the properties say what they amount to, in integers and single bits.    *)
(* One instruction is executed from each of the given states.              *)
(***************************************************************************)
EXTENDS Integers, Bitwise

CONSTANTS
  W,         \* 32 in the code; CR has W/4 fields
  Starts,    \* what the registers may hold before the instruction
  SH         \* the shift amounts and bit numbers in instructions, from 0..W-1

ASSUME AluAssumption == W \in {4 * k : k \in 1 .. 8} /\ SH \subseteq 0 .. W - 1

VARIABLES
  cpu,       \* RA, RB and the target register; XER's SO, OV, CA; CR, PC, LR, CTR; outcome
  before,    \* cpu before the instruction
  did        \* the instruction executed, with its fields

aluVars == <<cpu, before, did>>

Top  == 2 ^ (W - 1)
Wrap == 2 ^ W
Ones == Wrap - 1
Low(z)    == z % Wrap
Neg(x)    == x >= Top
Signed(x) == IF Neg(x) THEN x - Wrap ELSE x
NotW(x)   == Ones - x
Shl(x, n) == (x * 2 ^ n) % Wrap
Shr(x, n) == x \div 2 ^ n
Sar(x, n) == Low(Signed(x) \div 2 ^ n)
Flag(p)   == IF p THEN 1 ELSE 0
-----------------------------------------------------------------------------
(* inst_utility.h *)

Cmp(x, y)  == (IF Signed(x) < Signed(y) THEN 8 ELSE IF Signed(x) > Signed(y) THEN 4 ELSE 2)
CmpU(x, y) == (IF x < y THEN 8 ELSE IF x > y THEN 4 ELSE 2)

WriteCrField(cr, f, v) ==
  LET sh == (W \div 4 - 1 - f) * 4 IN (cr & NotW(Shl(15, sh))) | Shl(v, sh)

ReadCrField(cr, f) == Shr(cr, (W \div 4 - 1 - f) * 4) & 15

\* Mutant of AddOvCoCi: the carry is taken from the sum of a and b alone.
AddOvCoCiBeforeCarry(a, b, ci) ==
  LET r == a + b + ci IN
  [val |-> Low(r), co |-> Flag(a + b >= Wrap),
   ov  |-> (~Neg(a) /\ ~Neg(b) /\ Neg(Low(r))) \/ (Neg(a) /\ Neg(b) /\ ~Neg(Low(r)))]

AddOvCoCi(a, b, ci) ==
  LET r == a + b + ci IN
  [val |-> Low(r), co |-> Flag(r >= Wrap),
   ov  |-> (~Neg(a) /\ ~Neg(b) /\ Neg(Low(r))) \/ (Neg(a) /\ Neg(b) /\ ~Neg(Low(r)))]

\* A shift by the width is undefined; builds make x or 0 of it.
Rotl(x, s) == {Shl(x, s) | h : h \in IF s = 0 THEN {x, 0} ELSE {Shr(x, W - s)}}

\* SET_SO_OV, then SET_CR0, which copies the new SO, then incPC
Results(c, val, ov, oe, rc) ==
  LET so == IF oe THEN Flag(ov) | c.so ELSE c.so IN
  [c EXCEPT !.rt = val, !.so = so, !.ov = IF oe THEN Flag(ov) ELSE @,
            !.cr = IF rc THEN WriteCrField(@, 0, Cmp(val, 0) | so) ELSE @,
            !.pc = Low(@ + 4)]
-----------------------------------------------------------------------------
(* The instructions: what each makes of a state c. *)

Addend == {"add", "addc", "adde", "addme", "addze", "neg", "subf", "subfc", "subfe", "subfme", "subfze"}

\* tools/PPC.csv: the macro's operands
Operands(op, c) ==
  [a  |-> IF op \in {"add", "addc", "adde", "addme", "addze"} THEN c.ra ELSE NotW(c.ra),
   b  |-> IF op \in {"addme", "subfme"} THEN Ones
          ELSE IF op = "subfze" THEN 0
          ELSE IF op = "addze" THEN c.ca
          ELSE IF op = "neg" THEN 1
          ELSE c.rb,
   ci |-> IF op \in {"subf", "subfc"} THEN 1
          ELSE IF op \in {"adde", "addme", "subfe", "subfme", "subfze"} THEN c.ca ELSE 0]

SetsCA(op) == op \notin {"add", "neg", "subf"}

Add(c, op, oe, rc) ==
  LET o == Operands(op, c)
      s == AddOvCoCi(o.a, o.b, o.ci)
  IN Results([c EXCEPT !.ca = IF SetsCA(op) THEN s.co ELSE @], s.val, s.ov, oe, rc)

Mullw(c, oe, rc) ==
  LET x == (Signed(c.ra) * Signed(c.rb)) % (Wrap * Wrap)
      ov == \/ Shr(x, W) # 0 /\ Shr(x, W - 1) # 2 ^ (W + 1) - 1
            \/ (Neg(c.ra) # Neg(c.rb)) # Neg(Low(x)) /\ x # 0
  IN Results(c, Low(x), ov, oe, rc)

\* C's division: towards zero
Quot(a, b) ==
  LET abs(z) == IF z < 0 THEN -z ELSE z
      q == abs(a) \div abs(b)
  IN IF (a < 0) # (b < 0) THEN -q ELSE q

Divw(c, oe, rc) ==
  LET zero  == c.rb = 0
      big   == c.ra = Top /\ c.rb = Ones
      val   == IF zero THEN (IF Neg(c.ra) THEN Top ELSE Top - 1)
               ELSE IF big THEN Top - 1
               ELSE Low(Quot(Signed(c.ra), Signed(c.rb)))
  IN Results(c, val, zero \/ big, oe, rc)

Divwu(c, oe, rc) ==
  Results(c, IF c.rb = 0 THEN Ones ELSE c.ra \div c.rb, c.rb = 0, oe, rc)

\* __builtin_clz, external
Clz(x) == CHOOSE n \in 0 .. W - 1 : 2 ^ (W - 1 - n) <= x /\ x < 2 ^ (W - n)

Cntlzw(c, rc) == Results(c, IF c.ra = 0 THEN W ELSE Clz(c.ra), FALSE, FALSE, rc)

\* Mutant of mkmask: MB and ME swapped where they wrap.
MkmaskSwapped(MB, ME) ==
  IF MB <= ME THEN Shr(Ones, MB) & NotW(Shr(Top - 1, ME))
  ELSE Shl(Ones, W - 1 - MB) | NotW(Shl(Ones - 1, W - 1 - ME))

mkmask(MB, ME) ==
  IF MB <= ME THEN Shr(Ones, MB) & NotW(Shr(Top - 1, ME))
  ELSE Shl(Ones, W - 1 - ME) | NotW(Shl(Ones - 1, W - 1 - MB))

Rlwimi(c, s, MB, ME, rc) ==
  {Results(c, (c.rt & NotW(mkmask(MB, ME))) | (r & mkmask(MB, ME)), FALSE, FALSE, rc) : r \in Rotl(c.ra, s)}

\* rlwnm takes its shift from RB
Rlwinm(c, s, MB, ME, rc) ==
  {Results(c, r & mkmask(MB, ME), FALSE, FALSE, rc) : r \in Rotl(c.ra, s)}

\* Mutant of Sraw: CA is set whenever a one is shifted out.
SrawCarryOfAnySign(c, sh, rc) ==
  LET far == sh > W - 1
      val == Sar(c.ra, IF far THEN W - 1 ELSE sh)
      ca  == IF far THEN Neg(c.ra) ELSE (c.ra & (2 ^ sh - 1)) # 0
  IN Results([c EXCEPT !.ca = Flag(ca)], val, FALSE, FALSE, rc)

\* srawi takes its shift from the instruction, and cannot exceed W - 1
Sraw(c, sh, rc) ==
  LET far == sh > W - 1
      val == Sar(c.ra, IF far THEN W - 1 ELSE sh)
      ca  == IF far THEN Neg(c.ra) ELSE Neg(c.ra) /\ (c.ra & (2 ^ sh - 1)) # 0
  IN Results([c EXCEPT !.ca = Flag(ca)], val, FALSE, FALSE, rc)

Compare(c, f, x, signed) ==
  [c EXCEPT !.cr = WriteCrField(@, f, (IF signed THEN Cmp(c.ra, x) ELSE CmpU(c.ra, x)) | c.so),
            !.pc = Low(@ + 4)]

Mcrf(c, f, g) == [c EXCEPT !.cr = WriteCrField(@, f, ReadCrField(@, g)), !.pc = Low(@ + 4)]

Xer4(c) == 8 * c.so + 4 * c.ov + 2 * c.ca

\* setXER(0) clears the string count too
Mcrxr(c, f) ==
  [c EXCEPT !.cr = WriteCrField(@, f, Xer4(c)), !.so = 0, !.ov = 0, !.ca = 0, !.pc = Low(@ + 4)]

Mfcr(c) == [c EXCEPT !.rt = c.cr, !.pc = Low(@ + 4)]

\* Mutant of FieldMask: fields numbered from the bottom.
FieldMaskFromBottom(fs) ==
  LET m[f \in 0 .. W \div 4] == IF f = 0 THEN 0
        ELSE m[f - 1] | (IF f - 1 \in fs THEN Shl(15, (f - 1) * 4) ELSE 0)
  IN m[W \div 4]

\* FXM, as the set of fields it names
FieldMask(fs) ==
  LET m[f \in 0 .. W \div 4] == IF f = 0 THEN 0
        ELSE m[f - 1] | (IF f - 1 \in fs THEN Shl(15, (W \div 4 - f) * 4) ELSE 0)
  IN m[W \div 4]

Mtcrf(c, fs) ==
  [c EXCEPT !.cr = (@ & NotW(FieldMask(fs))) | (c.ra & FieldMask(fs)), !.pc = Low(@ + 4)]
-----------------------------------------------------------------------------
(* Branches.  BO as a record of its bits: always, crp, noctr and zero. *)

CrBit(c, b) == Shr(c.cr, W - 1 - b) % 2 = 1

Linked(c, lk) == IF lk THEN Low(c.pc + 4) ELSE c.lr

\* op_b: a branch to itself asks for a stop, and is still made.
Branch(c, off, aa, lk) ==
  LET dest == IF aa THEN Low(off) ELSE Low(c.pc + off) IN
  [c EXCEPT !.pc = dest, !.lr = Linked(c, lk), !.out = IF dest = c.pc THEN "stop" ELSE @]

\* Mutant of Decided: CTR is tested before it is decremented.
DecidedBeforeDecrement(c, bo, bi) ==
  /\ bo.always \/ CrBit(c, bi) = bo.crp
  /\ bo.noctr \/ (c.ctr = 0) = bo.zero

Decided(c, bo, bi) ==
  /\ bo.always \/ CrBit(c, bi) = bo.crp
  /\ bo.noctr \/ (Low(c.ctr - 1) = 0) = bo.zero

Conditional(c, bo, bi, dest, lk) ==
  [c EXCEPT !.pc = IF Decided(c, bo, bi) THEN dest ELSE Low(@ + 4),
            !.ctr = IF bo.noctr THEN @ ELSE Low(@ - 1),
            !.lr = Linked(c, lk)]

Bc(c, bo, bi, off, aa, lk) ==
  Conditional(c, bo, bi, IF aa THEN Low(off) ELSE Low(c.pc + off), lk)

Aligned(x) == x - (x % 4)

Bclr(c, bo, bi, lk) == Conditional(c, bo, bi, Aligned(c.lr), lk)

\* bcctr with a decrement is an invalid form: a program interrupt
Bcctr(c, bo, bi, lk) ==
  IF bo.noctr THEN Conditional(c, bo, bi, Aligned(c.ctr), lk) ELSE [c EXCEPT !.out = "prog"]

DoesTrap(to, a, b) ==
  \/ "lt" \in to /\ Signed(a) < Signed(b)
  \/ "gt" \in to /\ Signed(a) > Signed(b)
  \/ "eq" \in to /\ a = b
  \/ "ltu" \in to /\ a < b
  \/ "gtu" \in to /\ a > b

Tw(c, to, b) == IF DoesTrap(to, c.ra, b) THEN [c EXCEPT !.out = "prog"] ELSE [c EXCEPT !.pc = Low(@ + 4)]
-----------------------------------------------------------------------------
Execute(insn, results) ==
  /\ did = [op |-> "none"]
  /\ did' = insn
  /\ before' = cpu
  /\ cpu' \in results

Field == 0 .. W \div 4 - 1
BO == [always : BOOLEAN, crp : BOOLEAN, noctr : BOOLEAN, zero : BOOLEAN]
Offset == {-4, 0, 4}

ExecuteArithmetic == \E oe, rc \in BOOLEAN :
  \/ \E op \in Addend : Execute([op |-> op, oe |-> oe, rc |-> rc], {Add(cpu, op, oe, rc)})
  \/ Execute([op |-> "mullw", oe |-> oe, rc |-> rc], {Mullw(cpu, oe, rc)})
  \/ Execute([op |-> "divw", oe |-> oe, rc |-> rc], {Divw(cpu, oe, rc)})
  \/ Execute([op |-> "divwu", oe |-> oe, rc |-> rc], {Divwu(cpu, oe, rc)})

ExecuteRotate == \E MB, ME \in SH, rc \in BOOLEAN :
  \/ \E s \in SH : Execute([op |-> "rlwimi", sh |-> s, mb |-> MB, me |-> ME, rc |-> rc], Rlwimi(cpu, s, MB, ME, rc))
  \/ \E s \in SH : Execute([op |-> "rlwinm", sh |-> s, mb |-> MB, me |-> ME, rc |-> rc], Rlwinm(cpu, s, MB, ME, rc))
  \/ Execute([op |-> "rlwnm", sh |-> cpu.rb % W, mb |-> MB, me |-> ME, rc |-> rc],
             Rlwinm(cpu, cpu.rb % W, MB, ME, rc))

ExecuteShift == \E rc \in BOOLEAN :
  \/ Execute([op |-> "cntlzw", rc |-> rc], {Cntlzw(cpu, rc)})
  \/ Execute([op |-> "sraw", sh |-> cpu.rb % (2 * W), rc |-> rc], {Sraw(cpu, cpu.rb % (2 * W), rc)})
  \/ \E s \in SH : Execute([op |-> "srawi", sh |-> s, rc |-> rc], {Sraw(cpu, s, rc)})

ExecuteCondReg ==
  \/ \E f \in Field, signed \in BOOLEAN :
       Execute([op |-> "cmp", f |-> f, signed |-> signed], {Compare(cpu, f, cpu.rb, signed)})
  \/ \E f, g \in Field : Execute([op |-> "mcrf", f |-> f, g |-> g], {Mcrf(cpu, f, g)})
  \/ \E f \in Field : Execute([op |-> "mcrxr", f |-> f], {Mcrxr(cpu, f)})
  \/ Execute([op |-> "mfcr"], {Mfcr(cpu)})
  \/ \E fs \in SUBSET Field : Execute([op |-> "mtcrf", fs |-> fs], {Mtcrf(cpu, fs)})

ExecuteBranch == \E lk \in BOOLEAN :
  \/ \E off \in Offset, aa \in BOOLEAN :
       \/ Execute([op |-> "b", off |-> off, aa |-> aa, lk |-> lk], {Branch(cpu, off, aa, lk)})
       \/ \E bo \in BO, bi \in SH : Execute([op |-> "bc", bo |-> bo, bi |-> bi, off |-> off, aa |-> aa, lk |-> lk],
                                              {Bc(cpu, bo, bi, off, aa, lk)})
  \/ \E bo \in BO, bi \in SH :
       \/ Execute([op |-> "bclr", bo |-> bo, bi |-> bi, lk |-> lk], {Bclr(cpu, bo, bi, lk)})
       \/ Execute([op |-> "bcctr", bo |-> bo, bi |-> bi, lk |-> lk], {Bcctr(cpu, bo, bi, lk)})

ExecuteTrap == \E to \in SUBSET {"lt", "gt", "eq", "ltu", "gtu"} :
  Execute([op |-> "tw", to |-> to], {Tw(cpu, to, cpu.rb)})

\* Other instructions prepare the next one; every start is an initial state.
Prepare ==
  /\ did # [op |-> "none"]
  /\ did' = [op |-> "none"]
  /\ cpu' = before
  /\ UNCHANGED before

AluInit == cpu \in Starts /\ before = cpu /\ did = [op |-> "none"]

AluNext ==
  \/ ExecuteArithmetic \/ ExecuteRotate \/ ExecuteShift
  \/ ExecuteCondReg \/ ExecuteBranch \/ ExecuteTrap
  \/ Prepare
-----------------------------------------------------------------------------
Bit(x, b) == (x \div 2 ^ (W - 1 - b)) % 2

(* rlwimi, rlwinm and rlwnm: a bit of the result is the bit of RS that is  *)
(* SH places to its right, within MB to ME and around the end of the word  *)
(* if MB is past ME (mkmask's second case); elsewhere RA's old bit, or 0.  *)
RotatedUnderMask ==
  did.op \in {"rlwimi", "rlwinm", "rlwnm"} =>
    \A b \in 0 .. W - 1 :
      LET inside == IF did.mb <= did.me THEN b \in did.mb .. did.me ELSE b \notin did.me + 1 .. did.mb - 1
      IN Bit(cpu.rt, b) = IF inside THEN Bit(before.ra, (b + did.sh) % W)
                          ELSE IF did.op = "rlwimi" THEN Bit(before.rt, b) ELSE 0

\* The sums the additions and subtractions stand for; m is -1 in the same reading as a and b.
Exact(op, a, b, m, ca) ==
  CASE op \in {"add", "addc"}   -> a + b
    [] op = "adde"              -> a + b + ca
    [] op = "addme"             -> a + m + ca
    [] op = "addze"             -> a + ca
    [] op = "neg"               -> -a
    [] op \in {"subf", "subfc"} -> b - a
    [] op = "subfe"             -> b - a - 1 + ca
    [] op = "subfme"            -> m - a - 1 + ca
    [] op = "subfze"            -> ca - 1 - a

Representable == -Top .. Top - 1

\* What the arithmetic instruction should give, and CA if it sets it.
ExactResult ==
  LET a == Signed(before.ra)  b == Signed(before.rb)
  IN CASE did.op \in Addend -> Exact(did.op, a, b, -1, before.ca)
       [] did.op = "mullw"  -> a * b
       [] did.op = "divw"   -> Quot(a, b)
       [] did.op = "divwu"  -> before.ra \div before.rb

Overflows ==
  IF did.op \in {"divw", "divwu"} /\ before.rb = 0 THEN TRUE
  ELSE did.op # "divwu" /\ ExactResult \notin Representable

ExactCarry ==
  LET sum == Exact(did.op, before.ra, before.rb, Ones, before.ca)
  IN Flag(sum >= IF did.op \in {"addc", "adde", "addme", "addze"} THEN Wrap ELSE 0)

(* Additions, subtractions, mullw and the divisions: the result is the     *)
(* integer one modulo the word, OV is set exactly if that has no place in  *)
(* the word (the carry in included), SO stays set and reaches CR0 with the *)
(* new OV, and CA is the carry, or no borrow, of the whole sum.            *)
ArithmeticIsExact ==
  did.op \in Addend \cup {"mullw", "divw", "divwu"} =>
    /\ (did.op \in {"divw", "divwu"} /\ Overflows) \/ cpu.rt = Low(ExactResult)
    /\ cpu.ov = IF did.oe THEN Flag(Overflows) ELSE before.ov
    /\ cpu.so = IF did.oe /\ Overflows THEN 1 ELSE before.so
    /\ cpu.ca = IF did.op \in Addend /\ SetsCA(did.op) THEN ExactCarry ELSE before.ca
    /\ did.rc => ReadCrField(cpu.cr, 0) = Cmp(cpu.rt, 0) + cpu.so

(* sraw and srawi divide by 2^SH, rounding down, for shifts past the word  *)
(* as well, and CA says that a negative dividend was rounded (so addze     *)
(* gives the quotient towards zero); cntlzw counts the zeros above the     *)
(* first one, and W for 0.                                                 *)
ShiftsDivide ==
  /\ did.op \in {"sraw", "srawi"} =>
       LET a == Signed(before.ra)
       IN /\ Signed(cpu.rt) = a \div 2 ^ did.sh
          /\ Signed(cpu.rt) + cpu.ca = Quot(a, 2 ^ did.sh)
  /\ did.op = "cntlzw" =>
       /\ cpu.rt \in 0 .. W
       /\ \A b \in 0 .. W - 1 : (b < cpu.rt => Bit(before.ra, b) = 0) /\ (b = cpu.rt => Bit(before.ra, b) = 1)

\* The CR fields that the instruction names.
NamedFields ==
  CASE did.op \in {"cmp", "mcrf", "mcrxr"} -> {did.f}
    [] did.op = "mtcrf"                    -> did.fs
    [] "rc" \in DOMAIN did                 -> IF did.rc THEN {0} ELSE {}
    [] OTHER                               -> {}

Nibble(x, f) == [k \in 0 .. 3 |-> Bit(x, 4 * f + k)]

(* CR fields that an instruction does not name keep their bits, and those  *)
(* that mcrf, mtcrf, mcrxr and the comparisons name get what is meant:     *)
(* fields are numbered from the top of the word, and the macros shift from *)
(* the bottom.                                                             *)
CrFieldsByName ==
  /\ \A f \in Field \ NamedFields : Nibble(cpu.cr, f) = Nibble(before.cr, f)
  /\ did.op = "mcrf" => Nibble(cpu.cr, did.f) = Nibble(before.cr, did.g)
  /\ did.op = "mtcrf" => \A f \in did.fs : Nibble(cpu.cr, f) = Nibble(before.ra, f)
  /\ did.op = "mcrxr" => Nibble(cpu.cr, did.f) = [k \in 0 .. 3 |-> <<before.so, before.ov, before.ca, 0>>[k + 1]]
  /\ did.op = "cmp" =>
       LET d == IF did.signed THEN Signed(before.ra) - Signed(before.rb) ELSE before.ra - before.rb
       IN Nibble(cpu.cr, did.f) = [k \in 0 .. 3 |-> Flag(CASE k = 0 -> d < 0 [] k = 1 -> d > 0
                                                          [] k = 2 -> d = 0 [] k = 3 -> before.so = 1)]

(* Conditional branches: CTR counts down once, past 0 to the largest word, *)
(* and the branch is made if it has just reached 0, or has not; bclrl goes *)
(* where LR pointed before it is written, and LR is written also if the    *)
(* branch is not made.  bcctr that would count changes nothing.            *)
BranchesByCount ==
  did.op \in {"bc", "bclr", "bcctr"} =>
    LET counts == ~did.bo.noctr
        taken  == /\ did.bo.always \/ (Bit(before.cr, did.bi) = 1) = did.bo.crp
                  /\ counts => (before.ctr = 1) = did.bo.zero
        dest   == CASE did.op = "bc"   -> {z \in 0 .. Ones : z % Wrap = (did.off + IF did.aa THEN 0 ELSE before.pc) % Wrap}
                    [] did.op = "bclr"  -> {z \in 0 .. Ones : z % 4 = 0 /\ z \in before.lr - 3 .. before.lr}
                    [] did.op = "bcctr" -> {z \in 0 .. Ones : z % 4 = 0 /\ z \in before.ctr - 3 .. before.ctr}
    IN IF did.op = "bcctr" /\ counts THEN cpu = [before EXCEPT !.out = "prog"]
       ELSE /\ cpu.pc \in IF taken THEN dest ELSE {(before.pc + 4) % Wrap}
            /\ cpu.lr = IF did.lk THEN (before.pc + 4) % Wrap ELSE before.lr
            /\ (before.ctr - cpu.ctr) % Wrap = Flag(counts)
=============================================================================
