-------------------------- MODULE MemoryOps_proofs ---------------------------
(* Loads and stores move their operand and nothing else, for any number of *)
(* registers and pages, wherever a fault interrupts them.                  *)
EXTENDS MemoryOps, FiniteSetTheorems, TLAPS
-----------------------------------------------------------------------------
(* Remainders *)

\* Quotient and remainder are unique.
LEMMA DivModOf ==
  ASSUME NEW d \in Nat \ {0}, NEW q \in Nat, NEW r \in 0..d - 1,
         NEW x \in Nat, x = q * d + r
  PROVE  x \div d = q /\ x % d = r
<1> DEFINE p == x \div d
           m == x % d
<1>1. p \in Nat /\ m \in 0..d - 1 /\ x = d * p + m
  OBVIOUS
<1>2. ~(p < q)
  <2> SUFFICES ASSUME p < q PROVE FALSE
    OBVIOUS
  <2>1. PICK e \in Nat : q = p + 1 + e
    BY <1>1
  <2>2. q * d = d * p + d + e * d /\ e * d >= 0
    BY <1>1, <2>1
  <2> QED BY <1>1, <2>2
<1>3. ~(q < p)
  <2> SUFFICES ASSUME q < p PROVE FALSE
    OBVIOUS
  <2>1. PICK e \in Nat : p = q + 1 + e
    BY <1>1
  <2>2. d * p = q * d + d + e * d /\ e * d >= 0
    BY <1>1, <2>1
  <2> QED BY <1>1, <2>2
<1>4. p = q
  BY <1>1, <1>2, <1>3
<1> QED BY <1>1, <1>4

\* A number is its quotient and its remainder.
LEMMA DivModIs ==
  ASSUME NEW d \in Nat \ {0}, NEW x \in Nat
  PROVE  x \div d \in Nat /\ x % d \in 0..d - 1 /\ x = (x \div d) * d + (x % d)
OBVIOUS

\* A register number goes round once at most.
LEMMA RoundOnce ==
  ASSUME NEW d \in Nat \ {0}, NEW x \in 0..2 * d - 1
  PROVE  x % d = IF x < d THEN x ELSE x - d
<1>1. CASE x < d
  BY <1>1, DivModOf
<1>2. CASE x >= d
  <2>1. x = 1 * d + (x - d) /\ x - d \in 0..d - 1
    BY <1>2
  <2> QED BY <1>2, <2>1, DivModOf
<1> QED BY <1>1, <1>2

\* What lies within a granule lies within a page, which is whole granules.
LEMMA GranuleInPage ==
  ASSUME NEW g \in Nat \ {0}, NEW k \in Nat \ {0}, NEW p \in Nat, p = g * k,
         NEW f \in Nat, NEW x \in 0..p - 1, NEW y \in Nat, y = f * p + x,
         NEW s \in Nat, (y % g) + s <= g
  PROVE  x + s <= p
<1> DEFINE q == x \div g
           r == x % g
           fk == f * k
<1>1. q \in Nat /\ r \in 0..g - 1 /\ x = q * g + r
  <2>1. x \in Nat
    OBVIOUS
  <2> QED BY <2>1, DivModIs
<1>2. fk \in Nat /\ f * p = fk * g
  OBVIOUS
<1> HIDE DEF q, r, fk
<1>3. (fk + q) * g = fk * g + q * g
  BY <1>1, <1>2
<1>4. y = (fk + q) * g + r /\ fk + q \in Nat
  <2> DEFINE whole == fk * g
             rest == q * g
             both == (fk + q) * g
             start == f * p
  <2>1. y = start + x /\ x = rest + r /\ start = whole /\ both = whole + rest
    BY <1>1, <1>2, <1>3, Zenon
  <2>2. whole \in Nat /\ rest \in Nat /\ r \in Nat
    BY <1>1, <1>2
  <2> HIDE DEF whole, rest, both, start
  <2>3. y = both + r
    BY <2>1, <2>2
  <2> QED BY <1>1, <1>2, <2>3 DEF both
<1>5. y % g = r
  BY <1>1, <1>4, DivModOf, SMTT(60)
<1>6. q < k
  <2> SUFFICES ASSUME q >= k PROVE FALSE
    BY <1>1
  <2>1. PICK e \in Nat : q = k + e
    BY <1>1
  <2>2. q * g = g * k + e * g /\ e * g >= 0
    BY <2>1
  <2> QED BY <1>1, <2>2
<1>7. PICK e \in Nat : k = q + 1 + e
  BY <1>1, <1>6
<1>8. g * k = q * g + g + e * g /\ e * g >= 0
  BY <1>1, <1>7
<1> QED BY <1>1, <1>5, <1>8
-----------------------------------------------------------------------------
(* Addresses *)

LEMMA Sizes ==
  /\ NrRegs \in Nat \ {0} /\ PageBytes \in Nat \ {0} /\ NrPages \in Nat \ {0}
  /\ Granule \in Nat \ {0}
  /\ \E k \in Nat \ {0} : PageBytes = Granule * k
  /\ \E k \in Nat \ {0} : Granule = 4 * k
<1>1. PICK j \in 1..Granule : Granule = 4 * j
  BY MemoryAssumption
<1>2. Granule \in Nat \ {0} /\ j \in Nat \ {0}
  BY <1>1, MemoryAssumption
<1>3. PICK k \in 1..PageBytes : PageBytes = Granule * k
  BY MemoryAssumption
<1>4. k \in Nat \ {0}
  BY <1>3
<1>5. PageBytes \in Nat \ {0}
  BY <1>2, <1>3, <1>4
<1> QED BY <1>1, <1>2, <1>3, <1>4, <1>5, MemoryAssumption

\* The bytes up to the end of its page follow a byte in memory too.
LEMMA PhysicalWithin ==
  ASSUME frame \in Frames, NEW x \in Nat, PageOf(x) \in Page,
         NEW k \in Nat, (x % PageBytes) + k < PageBytes
  PROVE  /\ PageOf(x + k) = PageOf(x)
         /\ Physical(x + k) = Physical(x) + k
         /\ Physical(x) + k \in PA
<1> DEFINE q == x \div PageBytes
           r == x % PageBytes
           f == frame[q]
<1>1. q \in Nat /\ r \in 0..PageBytes - 1 /\ x = q * PageBytes + r /\ PageBytes \in Nat \ {0}
  BY DivModIs, Sizes
<1>2. f \in 0..NrPages - 1
  BY DEF Frames, Page, PageOf
<1>3. r + k \in 0..PageBytes - 1
  BY <1>1
<1> HIDE DEF q, r, f
<1>4. x + k = q * PageBytes + (r + k)
  BY <1>1
<1>5. (x + k) \div PageBytes = q /\ (x + k) % PageBytes = r + k
  <2> DEFINE y == x + k
             c == r + k
  <2>1. y \in Nat /\ c \in 0..PageBytes - 1 /\ y = q * PageBytes + c
    BY <1>3, <1>4
  <2> HIDE DEF y, c
  <2>2. y \div PageBytes = q /\ y % PageBytes = c
    BY <1>1, <2>1, DivModOf
  <2> QED BY <2>2 DEF y, c
<1>6. Physical(x + k) = f * PageBytes + (r + k) /\ Physical(x) = f * PageBytes + r
  BY <1>5 DEF Physical, PageOf, f, q, r
<1>7. f * PageBytes \in Nat /\ f * PageBytes + PageBytes <= (NrPages + 1) * PageBytes
  <2>1. PICK e \in Nat : NrPages = f + 1 + e
    BY <1>2, Sizes
  <2>2. (NrPages + 1) * PageBytes = f * PageBytes + (2 + e) * PageBytes
    BY <1>1, <1>2, <2>1
  <2>3. (2 + e) * PageBytes = 2 * PageBytes + e * PageBytes /\ e * PageBytes \in Nat
    BY <1>1, <2>1
  <2>4. f * PageBytes \in Nat
    BY <1>1, <1>2
  <2> QED BY <1>1, <2>2, <2>3, <2>4
<1>8. f * PageBytes + (r + k) \in PA
  <2>1. (NrPages + 1) * PageBytes \in Int
    BY Sizes
  <2> QED BY <1>1, <1>3, <1>7, <2>1 DEF PA
<1>9. Physical(x + k) = Physical(x) + k
  BY <1>1, <1>6, <1>7
<1> QED BY <1>5, <1>6, <1>8, <1>9 DEF PageOf, q

\* Where a byte is, from its frame and its place in the page.
LEMMA PhysicalParts ==
  ASSUME frame \in Frames, NEW x \in Nat, PageOf(x) \in Page
  PROVE  /\ Physical(x) \in Nat
         /\ x % PageBytes \in 0..PageBytes - 1 /\ x = PageOf(x) * PageBytes + (x % PageBytes)
         /\ Physical(x) \div PageBytes = frame[PageOf(x)]
         /\ Physical(x) % PageBytes = x % PageBytes
<1> DEFINE f == frame[PageOf(x)]
           r == x % PageBytes
           y == Physical(x)
<1>1. PageBytes \in Nat \ {0}
  BY Sizes
<1>2. r \in 0..PageBytes - 1 /\ x = PageOf(x) * PageBytes + r
  BY <1>1, DivModIs DEF PageOf
<1>3. f \in Nat
  BY DEF Frames, Page
<1>4. y = f * PageBytes + r
  BY DEF Physical
<1> HIDE DEF f, r, y
<1>5. y \in Nat
  BY <1>1, <1>2, <1>3, <1>4
<1>6. y \div PageBytes = f /\ y % PageBytes = r
  <2>1. y = f * PageBytes + r /\ r \in 0..PageBytes - 1
    BY <1>2, <1>4
  <2> QED BY <1>1, <1>3, <1>5, <2>1, DivModOf, SMTT(60)
<1> QED BY <1>2, <1>5, <1>6 DEF f, r, y

\* No two bytes of the pages share a place in memory.
LEMMA PhysicalInjective ==
  ASSUME frame \in Frames, NEW x \in Nat, NEW y \in Nat,
         PageOf(x) \in Page, PageOf(y) \in Page, Physical(x) = Physical(y)
  PROVE  x = y
<1>1. frame[PageOf(x)] = frame[PageOf(y)] /\ x % PageBytes = y % PageBytes
  BY PhysicalParts
<1>2. PageOf(x) = PageOf(y)
  BY <1>1 DEF Frames
<1> QED BY <1>1, <1>2, PhysicalParts

\* The address space is whole pages.
LEMMA PageExists ==
  ASSUME NEW x \in Nat, x < NrPages * PageBytes
  PROVE  PageOf(x) \in Page
<1> DEFINE q == x \div PageBytes
<1>1. PageBytes \in Nat \ {0} /\ NrPages \in Nat
  BY Sizes
<1>2. q \in Nat /\ x >= q * PageBytes
  BY <1>1, DivModIs
<1> HIDE DEF q
<1>3. q < NrPages
  <2> SUFFICES ASSUME q >= NrPages PROVE FALSE
    BY <1>1, <1>2
  <2>1. PICK e \in Nat : q = NrPages + e
    BY <1>1, <1>2
  <2>2. q * PageBytes = NrPages * PageBytes + e * PageBytes /\ e * PageBytes >= 0
    BY <1>1, <2>1
  <2>3. NrPages * PageBytes \in Nat /\ q * PageBytes \in Nat /\ e * PageBytes \in Nat
    BY <1>1, <1>2
  <2> DEFINE a == q * PageBytes
             b == NrPages * PageBytes
             c == e * PageBytes
  <2>4. a \in Nat /\ b \in Nat /\ c \in Nat /\ a = b + c /\ x >= a /\ x < b
    BY <1>2, <2>2, <2>3
  <2> HIDE DEF a, b, c
  <2> QED BY <2>4
<1> QED BY <1>1, <1>2, <1>3 DEF PageOf, Page, q

\* Two bytes of one page: those between them are in it as well.
LEMMA Between ==
  ASSUME NEW x \in Nat, NEW s \in Nat, PageOf(x + s) = PageOf(x)
  PROVE  (x % PageBytes) + s < PageBytes
<1> DEFINE q == PageOf(x) * PageBytes
<1>1. PageBytes \in Nat \ {0}
  BY Sizes
<1>2. /\ PageOf(x) \in Nat /\ x % PageBytes \in 0..PageBytes - 1
      /\ x = q + (x % PageBytes)
  BY <1>1, DivModIs DEF PageOf
<1>3. x + s \in Nat /\ q \in Nat
  BY <1>1, <1>2
<1>4. /\ (x + s) % PageBytes \in 0..PageBytes - 1
      /\ x + s = PageOf(x + s) * PageBytes + ((x + s) % PageBytes)
  BY <1>1, <1>3, DivModIs DEF PageOf
<1>5. x + s = q + ((x + s) % PageBytes)
  BY <1>4
<1> HIDE DEF q
<1> QED BY <1>1, <1>2, <1>3, <1>4, <1>5

\* An access that is not left to the alignment handler stays in its page.
LEMMA AlignedStays ==
  ASSUME Align # 2, frame \in Frames, NEW x \in Nat, PageOf(x) \in Page,
         NEW s \in {1, 2, 4}, ~Misaligned(s, Physical(x))
  PROVE  (x % PageBytes) + s <= PageBytes
<1> DEFINE f == frame[PageOf(x)]
           y == x % PageBytes
<1>1. f \in Nat
  BY DEF Frames, Page
<1>2. y \in 0..PageBytes - 1
  BY Sizes, DivModIs
<1>3. Physical(x) = f * PageBytes + y
  BY DEF Physical
<1> HIDE DEF f, y
<1>4. PICK k \in Nat \ {0} : PageBytes = Granule * k
  BY Sizes
<1>5. PICK j \in Nat \ {0} : Granule = 4 * j
  BY Sizes
<1>6. Physical(x) \in Nat /\ PageBytes \in Nat \ {0} /\ Granule \in Nat \ {0} /\ s \in Nat \ {0}
  BY <1>1, <1>2, <1>3, Sizes
<1>7. CASE Physical(x) % s = 0
  <2>1. PICK h \in Nat \ {0} : PageBytes = s * h
    <3> DEFINE m == j * k
    <3>1. m \in Nat \ {0} /\ PageBytes = 4 * m
      BY <1>4, <1>5
    <3> HIDE DEF m
    <3>2. /\ 4 * m \in Nat \ {0} /\ 2 * m \in Nat \ {0}
          /\ 4 * m = 1 * (4 * m) /\ 4 * m = 2 * (2 * m)
      BY <3>1
    <3>3. CASE s = 1
      BY <3>1, <3>2, <3>3
    <3>4. CASE s = 2
      BY <3>1, <3>2, <3>4
    <3>5. CASE s = 4
      BY <3>1, <3>5
    <3> QED BY <3>3, <3>4, <3>5
  <2>2. (Physical(x) % s) + s <= s /\ s \in Nat \ {0}
    BY <1>7
  <2>3. y + s <= PageBytes
    BY <1>1, <1>2, <1>3, <1>6, <2>1, <2>2, GranuleInPage
  <2> QED BY <2>3 DEF y
<1>8. CASE (Physical(x) % Granule) + s <= Granule
  <2> DEFINE z == Physical(x)
  <2>1. z \in Nat /\ z = f * PageBytes + y /\ (z % Granule) + s <= Granule
    BY <1>3, <1>6, <1>8
  <2> HIDE DEF z
  <2>2. y + s <= PageBytes
    BY <1>1, <1>2, <1>4, <1>6, <2>1, GranuleInPage
  <2> QED BY <2>2 DEF y
<1>9. Physical(x) % Granule \in Nat
  <2> DEFINE z == Physical(x)
  <2>1. z \in Nat
    BY <1>6
  <2> HIDE DEF z
  <2>2. z % Granule \in 0..Granule - 1
    BY <1>6, <2>1, DivModIs, SMTT(60)
  <2>3. z % Granule \in Nat
    BY <2>2
  <2> QED BY <2>3 DEF z
<1>10. Physical(x) % s = 0 \/ ~((Physical(x) % Granule) + s > Granule)
  BY MemoryAssumption DEF Misaligned
<1>11. Physical(x) % s = 0 \/ (Physical(x) % Granule) + s <= Granule
  BY <1>6, <1>9, <1>10
<1> QED BY <1>7, <1>8, <1>11
-----------------------------------------------------------------------------
(* The operand and the loops that move it *)

\* Where the loops stop is where the operand ends, within the registers.
LEMMA Lengths ==
  ASSUME insn \in Insn
  PROVE  /\ Bytes = Length /\ Length \in 0..4 * NrRegs
         /\ Single => Length \in {1, 2, 4} /\ Length = insn.nb
         /\ insn.rt \in Reg
         /\ insn.base \in Nat /\ insn.base + 4 * NrRegs <= NrPages * PageBytes
         /\ insn.op \in Load <=> insn.op \notin Store
<1>1. insn.rt \in Reg /\ insn.base \in Base /\ insn.op \in Load \cup Store
  BY DEF Insn, Load, Store
<1>2. insn.base \in Nat /\ insn.base + 4 * NrRegs <= NrPages * PageBytes
  <2> DEFINE top == NrPages * PageBytes
  <2>1. top \in Int /\ NrRegs \in Int
    BY Sizes
  <2>2. insn.base \in 0..(top - 4 * NrRegs)
    BY <1>1, MemoryAssumption
  <2> HIDE DEF top
  <2>3. insn.base \in Nat /\ insn.base + 4 * NrRegs <= top
    BY <2>1, <2>2
  <2> QED BY <2>3 DEF top
<1>3. Cardinality(insn.rt..NrRegs - 1) = NrRegs - insn.rt
  <2> DEFINE first == insn.rt
             last == NrRegs - 1
  <2>1. first \in Int /\ last \in Int /\ first <= last /\ last = NrRegs - 1
    BY <1>1, Sizes DEF Reg
  <2> HIDE DEF first, last
  <2>2. Cardinality(first..last) = last - first + 1
    BY <2>1, FS_Interval
  <2>3. Cardinality(first..last) = NrRegs - first
    BY <2>1, <2>2, Sizes
  <2> QED BY <2>3 DEF first, last
<1>4. CASE insn.op \in {"load", "store"}
  <2>1. insn.nb \in {1, 2, 4}
    BY <1>4 DEF Insn
  <2>2. Length = insn.nb /\ Bytes = insn.nb
    BY <1>4 DEF Length, Bytes
  <2> QED BY <1>1, <1>2, <1>4, <2>1, <2>2, Sizes DEF Load, Store
<1>5. CASE insn.op \in {"lmw", "stmw"}
  <2>1. Length = 4 * (NrRegs - insn.rt) /\ Bytes = 4 * (NrRegs - insn.rt)
    BY <1>3, <1>5 DEF Length, Bytes
  <2> QED BY <1>1, <1>2, <1>5, <2>1, Sizes DEF Load, Store, Single, Reg
<1>6. CASE insn.op \in {"lswi", "lswx", "stswi", "stswx"}
  <2>1. insn.nb \in 0..4 * NrRegs
    BY <1>6, MemoryAssumption DEF Insn
  <2>2. ZeroCount \in 0..4 * NrRegs
    BY MemoryAssumption
  <2>3. Length = (IF insn.op \in {"lswi", "stswi"} /\ insn.nb = 0 THEN ZeroCount ELSE insn.nb)
    BY <1>6 DEF Length
  <2>4. Bytes = (IF insn.op \in {"lswi", "stswi"} /\ insn.nb = 0 THEN ZeroCount ELSE insn.nb)
    BY <1>6 DEF Bytes
  <2> QED BY <1>1, <1>2, <1>6, <2>1, <2>2, <2>3, <2>4 DEF Load, Store, Single
<1> QED BY <1>1, <1>4, <1>5, <1>6 DEF Load, Store

(* What every state of a loop satisfies: its counters are whole words, and *)
(* only the rest of a string is stored byte by byte.                       *)
Counters ==
  /\ insn \in Insn /\ state \in {"running", "nopage", "align", "done"}
  /\ n \in Nat /\ n % 4 = 0 /\ i \in Nat
  /\ insn.op \in Load \/ WholeWords => i = 0
  /\ i = 0 \/ (Partial /\ i < Left)
  /\ state = "nopage" => Left > 0
  /\ frame \in Frames /\ mapped \subseteq Page

\* The word that is moved next is a word of the operand, in a register of its own.
LEMMA NextWord ==
  ASSUME Counters, Left > 0
  PROVE  /\ n \in Operand /\ CurReg = RegOf(n) /\ CurReg \in Named /\ CurReg \in Reg
         /\ Single => n = 0
<1>1. n < Length /\ Length \in Nat /\ n \in Nat /\ n % 4 = 0 /\ (Single => Length \in {1, 2, 4})
  BY Lengths DEF Counters, Left
<1>2. n \in Operand
  BY <1>1 DEF Operand
<1>3. Single => n = 0
  BY <1>1
<1>4. CurReg = RegOf(n)
  <2>1. CASE Single
    <3>1. insn.rt % NrRegs = insn.rt
      <4>1. insn.rt \in 0..2 * NrRegs - 1 /\ insn.rt < NrRegs
        BY Lengths, Sizes DEF Counters, Reg
      <4> QED BY <4>1, Sizes, RoundOnce
    <3>2. n = 0 /\ n \div 4 = 0 /\ insn.rt \in Int
      BY <1>3, <2>1, Lengths DEF Counters, Reg
    <3> QED BY <2>1, <3>1, <3>2 DEF CurReg, RegOf
  <2>2. CASE ~Single
    BY <2>2 DEF CurReg, RegOf
  <2> QED BY <2>1, <2>2
<1>5. CurReg \in Reg
  <2>1. insn.rt + n \div 4 \in Nat
    BY <1>1, Lengths DEF Counters, Reg
  <2>2. CurReg \in 0..NrRegs - 1
    BY <2>1, Sizes, DivModIs DEF CurReg
  <2> QED BY <2>2 DEF Reg
<1> QED BY <1>2, <1>3, <1>4, <1>5 DEF Named

\* All of the operand is in the address space.
LEMMA OperandHasPages ==
  ASSUME Counters, NEW b \in Nat, b < 4 * NrRegs
  PROVE  insn.base + b \in Nat /\ PageOf(insn.base + b) \in Page
<1> DEFINE top == NrPages * PageBytes
<1>1. top \in Int /\ NrRegs \in Nat
  BY Sizes
<1>2. insn.base \in Nat /\ insn.base + 4 * NrRegs <= top
  BY Lengths DEF Counters
<1> HIDE DEF top
<1>3. insn.base + b \in Nat /\ insn.base + b < top
  BY <1>1, <1>2
<1> QED BY <1>3, PageExists DEF top

LEMMA AtHasPage ==
  ASSUME Counters, Left > 0
  PROVE  At \in Nat /\ PageOf(At) \in Page
<1> DEFINE b == n + i
<1>1. Length \in Nat /\ Length <= 4 * NrRegs /\ Left = Length - n /\ insn.base \in Nat
  BY Lengths, Sizes DEF Counters, Left
<1>2. b \in Nat /\ b < 4 * NrRegs
  <2>1. n \in Nat /\ i \in Nat /\ (i = 0 \/ i < Left)
    BY DEF Counters
  <2> QED BY <1>1, <2>1, Sizes
<1>3. At = insn.base + b
  BY <1>1 DEF At, Counters
<1> HIDE DEF b
<1> QED BY <1>2, <1>3, OperandHasPages

\* A whole word: its bytes are the operand's bytes from n, in one register
\* that holds no others.
LEMMA WholeWord ==
  ASSUME Counters, WholeWords, Left > 0
  PROVE  /\ ~Partial /\ Size \in {1, 2, 4} /\ At = insn.base + n
         /\ n + Size <= Length
         /\ \A k \in 0..Size - 1 :
              n + k \in Operand /\ RegOf(n + k) = CurReg /\ ByteOf(n + k) = 5 - Size + k
         /\ \A b \in Operand : RegOf(b) = CurReg => b \in n..n + Size - 1
         /\ \A b \in Operand : b >= n /\ b < n + 4 => b - n \in 0..Size - 1
<1>1. /\ n < Length /\ Length \in Nat /\ n \in Nat /\ n % 4 = 0 /\ Left = Length - n
      /\ Length <= 4 * NrRegs /\ (Single => Length \in {1, 2, 4} /\ Length = insn.nb)
      /\ insn.rt \in Reg /\ insn.base \in Nat /\ i = 0 /\ NrRegs \in Nat \ {0}
  BY Lengths, Sizes DEF Counters, Left
<1>2. At = insn.base + n
  BY <1>1 DEF At
<1>3. CurReg = RegOf(n)
  BY NextWord
<1>4. CASE Single
  <2>1. n = 0 /\ Size = Length /\ Size \in {1, 2, 4}
    BY <1>1, <1>4 DEF Size
  <2>2. \A k \in 0..Size - 1 :
              n + k \in Operand /\ RegOf(n + k) = CurReg /\ ByteOf(n + k) = 5 - Size + k
    BY <1>1, <1>3, <1>4, <2>1 DEF Operand, RegOf, ByteOf
  <2> QED BY <1>1, <1>2, <1>4, <2>1, <2>2 DEF Operand, Partial
<1>5. CASE ~Single
  <2>1. Size = 4 /\ n + 4 <= Length /\ ~Partial
    <3>1. Length % 4 = 0
      BY <1>5 DEF WholeWords
    <3>2. n + 4 <= Length
      BY <1>1, <3>1
    <3> QED BY <1>1, <1>5, <3>2 DEF Size, Partial
  <2>2. ASSUME NEW k \in 0..3
        PROVE  n + k \in Operand /\ RegOf(n + k) = CurReg /\ ByteOf(n + k) = 5 - Size + k
    <3>1. (n + k) \div 4 = n \div 4 /\ (n + k) % 4 = k
      BY <1>1
    <3> QED BY <1>1, <1>3, <1>5, <2>1, <3>1 DEF Operand, RegOf, ByteOf
  <2>3. ASSUME NEW b \in Operand, RegOf(b) = CurReg
        PROVE  b \in n..n + 3
    <3> DEFINE p == b \div 4
               q == n \div 4
    <3>1. b \in Nat /\ b < 4 * NrRegs
      BY <1>1 DEF Operand
    <3>2. p \in 0..NrRegs - 1 /\ q \in 0..NrRegs - 1
      BY <1>1, <3>1
    <3>3. (insn.rt + p) % NrRegs = (insn.rt + q) % NrRegs
      BY <1>3, <1>5, <2>3 DEF RegOf
    <3>4. b - 4 * p \in 0..3 /\ n = 4 * q
      BY <1>1, <3>1
    <3> HIDE DEF p, q
    <3>5. insn.rt + p \in 0..2 * NrRegs - 1 /\ insn.rt + q \in 0..2 * NrRegs - 1
      BY <1>1, <3>2 DEF Reg
    <3>6. p = q
      <4> DEFINE x == insn.rt + p
                 y == insn.rt + q
      <4>1. /\ x \in 0..2 * NrRegs - 1 /\ y \in 0..2 * NrRegs - 1 /\ x % NrRegs = y % NrRegs
            /\ x - y < NrRegs /\ y - x < NrRegs /\ x - y = p - q
        BY <1>1, <3>2, <3>3, <3>5 DEF Reg
      <4> HIDE DEF x, y
      <4>2. /\ x % NrRegs = IF x < NrRegs THEN x ELSE x - NrRegs
            /\ y % NrRegs = IF y < NrRegs THEN y ELSE y - NrRegs
        BY <1>1, <4>1, RoundOnce
      <4>3. x = y
        BY <1>1, <4>1, <4>2
      <4> QED BY <3>2, <4>1, <4>3
    <3> QED BY <1>1, <3>1, <3>2, <3>4, <3>6
  <2>4. \A b \in Operand : b >= n /\ b < n + 4 => b - n \in 0..Size - 1
    BY <1>1, <2>1 DEF Operand
  <2>5. \A b \in Operand : RegOf(b) = CurReg => b \in n..n + Size - 1
    BY <1>1, <2>1, <2>3
  <2>6. \A k \in 0..Size - 1 :
          n + k \in Operand /\ RegOf(n + k) = CurReg /\ ByteOf(n + k) = 5 - Size + k
    BY <2>1, <2>2
  <2> QED BY <1>1, <1>2, <2>1, <2>4, <2>5, <2>6
<1> QED BY <1>4, <1>5

\* The next word lies in one page if all words do.
LEMMA WordInPage ==
  ASSUME Counters, WholeWords, WordsInPages, Left > 0
  PROVE  (At % PageBytes) + Size <= PageBytes
<1>1. /\ At = insn.base + n /\ n + Size <= Length /\ Size \in {1, 2, 4} /\ Length \in Nat
      /\ n \in Nat /\ n % 4 = 0 /\ insn.base \in Nat /\ At \in Nat
  BY WholeWord, AtHasPage, Lengths DEF Counters
<1>2. PageBytes \in Nat \ {0}
  BY Sizes
<1>3. CASE insn.base % 4 = 0
  <2>1. PICK k \in Nat \ {0} : PageBytes = 4 * k
    <3>1. PICK m \in Nat \ {0} : PageBytes = Granule * m
      BY Sizes
    <3>2. PICK j \in Nat \ {0} : Granule = 4 * j
      BY Sizes
    <3>3. j * m \in Nat \ {0} /\ PageBytes = 4 * (j * m)
      BY <3>1, <3>2
    <3> QED BY <3>3
  <2> DEFINE y == At
             s == Size
             f == PageOf(At)
             x == At % PageBytes
  <2>2. (y % 4) + s <= 4 /\ y \in Nat /\ s \in Nat
    BY <1>1, <1>3
  <2>3. f \in Nat /\ x \in 0..PageBytes - 1 /\ y = f * PageBytes + x
    BY <1>1, <1>2, DivModIs DEF PageOf
  <2> HIDE DEF y, s, f, x
  <2>4. x + s <= PageBytes
    BY <1>2, <2>1, <2>2, <2>3, GranuleInPage
  <2> QED BY <2>4 DEF s, x
<1>4. CASE PageOf(insn.base) = PageOf(insn.base + Length - 1)
  <2> DEFINE b == insn.base
             s == Length - 1
             r == b % PageBytes
             q == b \div PageBytes
             x == r + n
             y == At
  <2>1. s \in Nat /\ b \in Nat /\ b + s = insn.base + Length - 1 /\ s = Length - 1
    BY <1>1
  <2>2. q \in Nat /\ r \in 0..PageBytes - 1 /\ b = q * PageBytes + r
    BY <1>2, <2>1, DivModIs
  <2>3. r + s < PageBytes
    BY <1>4, <2>1, Between
  <2>4. y \in Nat /\ y = b + n /\ x = r + n
    BY <1>1
  <2> HIDE DEF b, s, r, q, x, y
  <2>5. x + Size <= PageBytes /\ x \in 0..PageBytes - 1
    BY <1>1, <1>2, <2>1, <2>2, <2>3, <2>4
  <2>6. y = q * PageBytes + x
    BY <1>1, <1>2, <2>1, <2>2, <2>4
  <2>7. q \in Nat /\ y \in Nat /\ x \in 0..PageBytes - 1 /\ y = q * PageBytes + x
    BY <2>2, <2>4, <2>5, <2>6
  <2>8. y % PageBytes = x
    BY <1>2, <2>7, DivModOf
  <2> QED BY <2>5, <2>8 DEF y
<1>5. Length > 0
  BY <1>1
<1> QED BY <1>3, <1>4, <1>5 DEF WordsInPages

\* In memory too, the bytes of a word in one page follow each other.
LEMMA WordInMemory ==
  ASSUME Counters, WholeWords, Left > 0, (At % PageBytes) + Size <= PageBytes,
         NEW k \in 0..Size - 1
  PROVE  /\ Physical(insn.base + (n + k)) = Here + k /\ Here + k \in PA
         /\ Here \in Nat /\ PageOf(insn.base + (n + k)) \in Page
<1>1. At = insn.base + n /\ Size \in {1, 2, 4} /\ n \in Nat /\ insn.base \in Nat
  BY WholeWord, Lengths DEF Counters
<1>2. At \in Nat /\ PageOf(At) \in Page /\ frame \in Frames
  BY AtHasPage DEF Counters
<1>3. k \in Nat /\ (At % PageBytes) + k < PageBytes
  <2> DEFINE y == At
  <2>1. y \in Nat /\ PageBytes \in Nat \ {0} /\ (y % PageBytes) + Size <= PageBytes
    BY <1>2, Sizes
  <2> HIDE DEF y
  <2>2. y % PageBytes \in 0..PageBytes - 1
    BY <2>1, DivModIs
  <2>3. k \in Nat /\ (y % PageBytes) + k < PageBytes
    BY <1>1, <2>1, <2>2
  <2> QED BY <2>3 DEF y
<1>4. insn.base + (n + k) = At + k
  BY <1>1, <1>3
<1>5. /\ PageOf(At + k) = PageOf(At) /\ Physical(At + k) = Physical(At) + k
      /\ Physical(At) + k \in PA
  BY <1>2, <1>3, PhysicalWithin
<1> QED BY <1>2, <1>4, <1>5, PhysicalParts DEF Here

\* What a register of the operand holds once it is loaded.
Loaded(r) ==
  [k \in 1..4 |-> IF \E b \in Operand : RegOf(b) = r /\ ByteOf(b) = k
     THEN mem[Physical(insn.base + CHOOSE b \in Operand : RegOf(b) = r /\ ByteOf(b) = k)]
     ELSE Zeroed]

LEMMA LoadedWord ==
  ASSUME Counters, WholeWords, Left > 0, (At % PageBytes) + Size <= PageBytes
  PROVE  Masked(BytesAt(Size, Here)) = Loaded(CurReg)
<1>1. Size \in {1, 2, 4} /\ n \in Nat /\ ~Partial
  BY WholeWord DEF Counters
<1>2. ASSUME NEW k \in 1..4
      PROVE  BytesAt(Size, Here)[k] = Loaded(CurReg)[k]
  <2>1. ASSUME NEW b \in Operand, RegOf(b) = CurReg, ByteOf(b) = k
        PROVE  k > 4 - Size /\ b = n + (k - 5 + Size)
    <3>1. b \in n..n + Size - 1
      BY <2>1, WholeWord
    <3> DEFINE d == b - n
    <3>2. d \in 0..Size - 1 /\ b = n + d
      BY <1>1, <3>1
    <3> HIDE DEF d
    <3>3. ByteOf(n + d) = 5 - Size + d
      BY <3>2, WholeWord
    <3> QED BY <1>1, <2>1, <3>2, <3>3
  <2>2. CASE k > 4 - Size
    <3> DEFINE d == k - 5 + Size
    <3>1. d \in 0..Size - 1 /\ 5 - Size + d = k /\ Here + k - 1 - (4 - Size) = Here + d
      <4>1. Here \in Nat
        BY <1>1, WordInMemory, 0 \in 0..Size - 1
      <4> QED BY <1>1, <2>2, <4>1
    <3>2. n + d \in Operand /\ RegOf(n + d) = CurReg /\ ByteOf(n + d) = k
      BY <3>1, WholeWord
    <3>3. (CHOOSE b \in Operand : RegOf(b) = CurReg /\ ByteOf(b) = k) = n + d
      BY <2>1, <3>2
    <3>4. Loaded(CurReg)[k] = mem[Physical(insn.base + (n + d))]
      BY <3>2, <3>3 DEF Loaded
    <3>5. Physical(insn.base + (n + d)) = Here + d
      BY <3>1, WordInMemory
    <3>6. BytesAt(Size, Here)[k] = mem[Here + d]
      BY <2>2, <3>1 DEF BytesAt
    <3> QED BY <3>4, <3>5, <3>6
  <2>3. CASE ~(k > 4 - Size)
    <3>1. Loaded(CurReg)[k] = Zeroed
      BY <2>1, <2>3 DEF Loaded
    <3>2. BytesAt(Size, Here)[k] = Zeroed
      BY <2>3 DEF BytesAt
    <3> QED BY <3>1, <3>2
  <2> QED BY <2>2, <2>3
<1>3. Masked(BytesAt(Size, Here)) = [k \in 1..4 |-> BytesAt(Size, Here)[k]]
  BY <1>1 DEF Masked
<1>4. Loaded(CurReg) = [k \in 1..4 |-> Loaded(CurReg)[k]]
  BY DEF Loaded
<1> QED BY <1>2, <1>3, <1>4
-----------------------------------------------------------------------------
(* The loops *)

\* What an instruction's operand is depends on the instruction and the frames.
LEMMA SameOperand ==
  ASSUME insn' = insn
  PROVE  /\ Length' = Length /\ Bytes' = Bytes /\ Single' = Single /\ WholeWords' = WholeWords
         /\ Operand' = Operand /\ Named' = Named /\ WordsInPages' = WordsInPages
         /\ \A b \in Operand : RegOf(b)' = RegOf(b) /\ ByteOf(b)' = ByteOf(b)
         /\ frame' = frame => /\ Touched' = Touched
                              /\ \A x : Physical(x)' = Physical(x)
<1>1. Length' = Length /\ Bytes' = Bytes /\ Single' = Single
  BY DEF Length, Bytes, Single
<1>2. WholeWords' = WholeWords /\ Operand' = Operand /\ WordsInPages' = WordsInPages
  BY <1>1 DEF WholeWords, Operand, WordsInPages, PageOf
<1>3. Named' = Named /\ \A b \in Operand : RegOf(b)' = RegOf(b) /\ ByteOf(b)' = ByteOf(b)
  BY <1>1, <1>2 DEF Named, RegOf, ByteOf
<1>4. frame' = frame => Touched' = Touched /\ \A x : Physical(x)' = Physical(x)
  BY <1>2 DEF Touched, Physical, PageOf
<1> QED BY <1>1, <1>2, <1>3, <1>4

LEMMA CountersStep ==
  ASSUME Counters, [MemoryNext]_memoryVars
  PROVE  Counters'
<1>1. /\ insn \in Insn /\ state \in {"running", "nopage", "align", "done"}
      /\ n \in Nat /\ n % 4 = 0 /\ i \in Nat
      /\ insn.op \in Load \/ WholeWords => i = 0
      /\ i = 0 \/ (Partial /\ i < Left)
      /\ state = "nopage" => Left > 0
      /\ frame \in Frames /\ mapped \subseteq Page
      /\ n + 4 \in Nat /\ (n + 4) % 4 = 0
  BY DEF Counters
<1>2. insn' = insn => Bytes' = Bytes /\ Single' = Single /\ WholeWords' = WholeWords
  BY SameOperand
<1>3. insn' = insn /\ n' = n => Left' = Left /\ Partial' = Partial
  BY <1>2 DEF Left, Partial
<1>4. CASE LoadWord
  <2>1. /\ insn' = insn /\ insn.op \in Load /\ i' = i /\ n' \in {n, n + 4}
        /\ UNCHANGED <<frame, mapped>> /\ state' \in {"running", "align"}
    BY <1>4 DEF LoadWord, Works
  <2> QED BY <1>1, <1>2, <2>1 DEF Counters
<1>5. CASE StoreWord
  <2>1. /\ insn' = insn /\ ~Partial /\ i' = i /\ n' \in {n, n + 4}
        /\ UNCHANGED <<frame, mapped>> /\ state' \in {"running", "align"}
    BY <1>5 DEF StoreWord, Works
  <2> QED BY <1>1, <1>2, <2>1 DEF Counters
<1>6. CASE StoreRest
  <2>1. /\ insn' = insn /\ insn.op \in Store /\ Partial /\ Left > 0
        /\ \/ n' = n /\ i' = i
           \/ n' = n /\ i' = i + 1 /\ i + 1 < Left
           \/ n' = n + 4 /\ i' = 0
        /\ UNCHANGED <<frame, mapped>> /\ state' \in {"running", "align"}
    BY <1>6 DEF StoreRest, Works
  <2>2. ~WholeWords /\ insn.op \notin Load
    <3>1. Length \in Nat /\ Left = Length - n /\ insn.op \notin Load
      BY <1>1, <2>1, Lengths DEF Left
    <3>2. Length < n + 4 /\ Length > n /\ ~Single
      BY <1>1, <2>1, <3>1 DEF Partial
    <3>3. Length % 4 # 0
      BY <1>1, <3>1, <3>2
    <3> QED BY <3>1, <3>2, <3>3 DEF WholeWords
  <2>3. i' \in Nat /\ n' \in Nat /\ n' % 4 = 0
    BY <1>1, <2>1
  <2>4. i' = 0 \/ (Partial' /\ i' < Left')
    <3>1. CASE n' = n /\ i' = i
      BY <1>1, <1>3, <2>1, <3>1
    <3>2. CASE n' = n /\ i' = i + 1 /\ i + 1 < Left
      BY <1>3, <2>1, <3>2
    <3> QED BY <2>1, <3>1, <3>2
  <2>5. ~(insn'.op \in Load \/ WholeWords')
    BY <1>2, <2>1, <2>2
  <2>6. frame' \in Frames /\ mapped' \subseteq Page /\ insn' \in Insn /\ state' \in {"running", "align"}
    BY <1>1, <2>1
  <2> QED BY <2>3, <2>4, <2>5, <2>6 DEF Counters
<1>7. CASE Fault \/ Finish
  <2>1. /\ insn' = insn /\ n' = n /\ i' = i /\ UNCHANGED <<frame, mapped>>
        /\ state' = "done" \/ (state' = "nopage" /\ Left > 0)
    BY <1>7 DEF Fault, Finish
  <2> QED BY <1>1, <1>2, <1>3, <2>1 DEF Counters
<1>8. CASE Service
  <2>1. /\ insn' = insn /\ n' = 0 /\ i' = 0 /\ UNCHANGED frame /\ state' = "running"
        /\ state = "nopage" /\ mapped' = mapped \cup {PageOf(At)}
    BY <1>8 DEF Service
  <2>2. PageOf(At) \in Page
    BY <1>1, <2>1, AtHasPage
  <2> QED BY <1>1, <1>2, <2>1, <2>2 DEF Counters
<1>9. CASE Emulate
  <2>1. /\ insn' = insn /\ n' = n /\ i' = i /\ UNCHANGED frame /\ state' = "done"
        /\ mapped' = mapped \cup {PageOf(insn.base + b) : b \in Operand}
    BY <1>9 DEF Emulate
  <2>2. ASSUME NEW b \in Operand
        PROVE  PageOf(insn.base + b) \in Page
    <3>1. b \in Nat /\ b < 4 * NrRegs
      BY <1>1, Lengths, Sizes DEF Operand
    <3> QED BY <3>1, OperandHasPages
  <2>3. mapped' \subseteq Page
    BY <1>1, <2>1, <2>2
  <2> QED BY <1>1, <1>2, <1>3, <2>1, <2>3 DEF Counters
<1>10. ASSUME NEW j \in Insn, NEW f \in Frames, NEW pages \in SUBSET Page, Begin(j, f, pages)
       PROVE  Counters'
  BY <1>10 DEF Begin, Counters
<1>11. CASE UNCHANGED memoryVars
  <2>1. insn' = insn /\ n' = n /\ i' = i /\ UNCHANGED <<state, frame, mapped>>
    BY <1>11 DEF memoryVars
  <2> QED BY <1>1, <1>2, <1>3, <2>1 DEF Counters
<1> QED BY <1>4, <1>5, <1>6, <1>7, <1>8, <1>9, <1>10, <1>11 DEF MemoryNext, Working

(* Registers and memory are functions throughout: no address but theirs is *)
(* ever written.                                                           *)
Shapes ==
  /\ regs = [r \in Reg |-> regs[r]]
  /\ mem = [a \in PA |-> mem[a]]

LEMMA ShapesStep ==
  ASSUME Shapes, [MemoryNext]_memoryVars
  PROVE  Shapes'
<1>1. regs' = [r \in Reg |-> regs'[r]]
  <2>1. regs' = regs \/ (\E v : regs' = [regs EXCEPT ![CurReg] = v]) \/ regs' = WithLoaded \/ regs' = OldRegs
    BY DEF MemoryNext, Working, memoryVars, LoadWord, StoreWord, StoreRest, Finish, Fault, Service,
           Emulate, Begin
  <2> QED BY <2>1 DEF Shapes, WithLoaded, OldRegs
<1>2. mem' = [a \in PA |-> mem'[a]]
  <2>1. \/ mem' = mem \/ mem' = WithStored \/ mem' = OldMem
        \/ \E s, pa, v : StoreAt(s, pa, v)
    BY DEF MemoryNext, Working, memoryVars, LoadWord, StoreWord, StoreRest, Finish, Fault, Service,
           Emulate, Begin
  <2> QED BY <2>1 DEF Shapes, WithStored, OldMem, StoreAt
<1> QED BY <1>1, <1>2 DEF Shapes

LEMMA FootprintStep ==
  ASSUME Counters, Shapes, Footprint, [MemoryNext]_memoryVars
  PROVE  Footprint'
<1>1. insn \in Insn /\ (insn.op \in Load <=> insn.op \notin Store)
  BY Lengths DEF Counters
<1>2. OldRegs' = OldRegs /\ OldMem' = OldMem
  BY DEF OldRegs, OldMem
<1>3. CASE LoadWord
  <2>1. insn' = insn /\ insn.op \in Load /\ mem' = mem /\ Left > 0
        /\ (regs' = regs \/ \E v : regs' = [regs EXCEPT ![CurReg] = v])
    BY <1>3 DEF LoadWord, Works
  <2>2. \A r \in Reg \ Named : regs'[r] = regs[r]
    BY <2>1, NextWord DEF Shapes
  <2> QED BY <1>1, <1>2, <2>1, <2>2, SameOperand DEF Footprint
<1>4. CASE StoreWord
  <2>1. /\ insn' = insn /\ insn.op \in Store /\ regs' = regs /\ frame' = frame /\ Left > 0
        /\ StoreAt(Size, Here, regs[CurReg])
    BY <1>4 DEF StoreWord, Works
  <2>2. ASSUME WholeWords, WordsInPages, NEW a \in PA \ Touched
        PROVE  mem'[a] = mem[a]
    <3>1. Size \in {1, 2, 4} /\ (At % PageBytes) + Size <= PageBytes
      BY <2>1, <2>2, WholeWord, WordInPage
    <3>2. a \notin Here..Here + Size - 1
      <4> SUFFICES ASSUME a \in Here..Here + Size - 1 PROVE FALSE
        OBVIOUS
      <4> DEFINE k == a - Here
      <4>1. Here \in Nat
        BY <2>1, <2>2, <3>1, WordInMemory, 0 \in 0..Size - 1
      <4>2. k \in 0..Size - 1 /\ a = Here + k
        BY <3>1, <4>1
      <4> HIDE DEF k
      <4>3. a = Physical(insn.base + (n + k)) /\ n + k \in Operand
        BY <2>1, <2>2, <3>1, <4>2, WordInMemory, WholeWord
      <4> QED BY <2>2, <4>3 DEF Touched
    <3> QED BY <2>1, <2>2, <3>2 DEF StoreAt
  <2> QED BY <1>1, <1>2, <2>1, <2>2, SameOperand DEF Footprint
<1>5. CASE StoreRest
  <2>1. insn' = insn /\ insn.op \in Store /\ regs' = regs /\ Left > 0 /\ Partial
    BY <1>5 DEF StoreRest, Works
  <2>2. ~WholeWords
    BY <2>1, WholeWord
  <2> QED BY <1>1, <1>2, <2>1, <2>2, SameOperand DEF Footprint
<1>6. CASE Fault \/ Finish \/ Service \/ UNCHANGED memoryVars
  <2>1. UNCHANGED <<insn, regs, mem, frame>>
    BY <1>6 DEF Fault, Finish, Service, memoryVars
  <2> QED BY <1>2, <2>1, SameOperand DEF Footprint
<1>7. CASE Emulate
  <2>1. /\ UNCHANGED <<insn, frame>>
        /\ regs' = (IF insn.op \in Load THEN WithLoaded ELSE regs)
        /\ mem' = (IF insn.op \in Store THEN WithStored ELSE mem)
    BY <1>7 DEF Emulate
  <2>2. /\ \A r \in Reg \ Named : WithLoaded[r] = regs[r]
        /\ \A a \in PA \ Touched : WithStored[a] = mem[a]
    BY DEF WithLoaded, WithStored
  <2> QED BY <1>1, <1>2, <2>1, <2>2, SameOperand DEF Footprint
<1>8. ASSUME NEW j \in Insn, NEW f \in Frames, NEW pages \in SUBSET Page, Begin(j, f, pages)
      PROVE  Footprint'
  BY <1>2, <1>8 DEF Begin, Footprint
<1> QED BY <1>3, <1>4, <1>5, <1>6, <1>7, <1>8 DEF MemoryNext, Working

\* The registers that an instruction loads depend on memory only.
LEMMA SameLoaded ==
  ASSUME UNCHANGED <<insn, mem, frame>>
  PROVE  \A r : Loaded(r)' = Loaded(r)
BY DEF Loaded, Operand, RegOf, ByteOf, Single, Length, Physical, PageOf

\* And the bytes that it stores on the registers only.
StoredByte(a) == LET b == CHOOSE b \in Operand : Physical(insn.base + b) = a
                 IN regs[RegOf(b)][ByteOf(b)]

LEMMA SameStored ==
  ASSUME UNCHANGED <<insn, regs, frame>>
  PROVE  \A a : StoredByte(a)' = StoredByte(a)
BY DEF StoredByte, Operand, RegOf, ByteOf, Single, Length, Physical, PageOf

(* While an instruction runs, what lies before its counter has been moved: *)
(* a loaded register holds its bytes, a stored byte is in its place.  After*)
(* an access that was misaligned this need not be so, and the handler moves*)
(* all of it again.                                                        *)
MovedSoFar ==
  state = "running" /\ WholeWords =>
    \A b \in Operand : b < n =>
      /\ insn.op \in Load => regs[RegOf(b)] = Loaded(RegOf(b))
      /\ insn.op \in Store => mem[Physical(insn.base + b)] = regs[RegOf(b)][ByteOf(b)]

LEMMA MovedStep ==
  ASSUME Align # 2, Counters, Shapes, MovedSoFar, [MemoryNext]_memoryVars
  PROVE  MovedSoFar'
<1>1. /\ insn \in Insn /\ (insn.op \in Load <=> insn.op \notin Store) /\ n \in Nat
      /\ frame \in Frames /\ Operand \subseteq Nat
  BY Lengths DEF Counters, Operand
<1>2. ASSUME NEW b \in Operand
      PROVE  /\ RegOf(b) \in Reg /\ insn.base + b \in Nat /\ PageOf(insn.base + b) \in Page
             /\ Physical(insn.base + b) \in PA
  <2>1. b \in Nat /\ b < 4 * NrRegs /\ insn.rt \in Reg
    BY <1>1, Lengths, Sizes DEF Operand
  <2>2. insn.base + b \in Nat /\ PageOf(insn.base + b) \in Page
    BY <2>1, OperandHasPages
  <2>3. Physical(insn.base + b) \in PA
    <3> DEFINE x == insn.base + b
    <3>1. x \in Nat /\ PageOf(x) \in Page /\ PageBytes \in Nat \ {0}
      BY <2>2, Sizes
    <3> HIDE DEF x
    <3>2. x % PageBytes \in 0..PageBytes - 1
      BY <3>1, DivModIs
    <3>3. (x % PageBytes) + 0 < PageBytes
      BY <3>1, <3>2
    <3>4. Physical(x) + 0 \in PA /\ Physical(x) \in Nat
      BY <1>1, <3>1, <3>3, PhysicalWithin, PhysicalParts
    <3> QED BY <3>4 DEF x
  <2>4. RegOf(b) \in Reg
    <3>1. insn.rt + b \div 4 \in Nat
      BY <2>1 DEF Reg
    <3>2. (insn.rt + b \div 4) % NrRegs \in 0..NrRegs - 1
      BY <3>1, Sizes, DivModIs
    <3> QED BY <2>1, <3>2 DEF RegOf, Reg
  <2> QED BY <2>2, <2>3, <2>4
<1>3. ASSUME Left > 0, WholeWords, ~NoPage(At), ~Misaligned(Size, Here)
      PROVE  (At % PageBytes) + Size <= PageBytes
  BY <1>1, <1>3, AtHasPage, WholeWord, AlignedStays DEF Here
<1>4. CASE LoadWord
  <2> SUFFICES ASSUME state' = "running", WholeWords', NEW b \in Operand', (b < n)'
               PROVE  regs'[RegOf(b)'] = Loaded(RegOf(b))'
    BY <1>1, <1>4 DEF MovedSoFar, LoadWord, Works
  <2>1. /\ insn' = insn /\ insn.op \in Load /\ UNCHANGED <<mem, frame>> /\ Left > 0
        /\ state = "running" /\ ~NoPage(At) /\ ~Misaligned(Size, Here)
        /\ regs' = [regs EXCEPT ![CurReg] = Masked(BytesAt(Size, Here))] /\ n' = n + 4
    BY <1>4 DEF LoadWord, Works
  <2>2. WholeWords /\ b \in Operand /\ b < n + 4 /\ RegOf(b)' = RegOf(b)
    BY <2>1, SameOperand
  <2>3. Masked(BytesAt(Size, Here)) = Loaded(CurReg) /\ CurReg \in Reg
    BY <1>3, <2>1, <2>2, LoadedWord, NextWord
  <2>4. Loaded(RegOf(b))' = Loaded(RegOf(b))
    BY <2>1, <2>2, SameLoaded
  <2>5. CASE RegOf(b) = CurReg
    BY <2>1, <2>2, <2>3, <2>4, <2>5 DEF Shapes
  <2>6. CASE RegOf(b) # CurReg
    <3>1. b < n
      <4> SUFFICES ASSUME b >= n PROVE FALSE
        BY <1>1, <2>2
      <4> DEFINE k == b - n
      <4>1. k \in 0..Size - 1
        BY <2>1, <2>2, WholeWord
      <4>2. b = n + k
        BY <1>1, <2>2
      <4> HIDE DEF k
      <4> QED BY <2>1, <2>2, <2>6, <4>1, <4>2, WholeWord
    <3>2. regs'[RegOf(b)] = regs[RegOf(b)]
      BY <1>2, <2>1, <2>2, <2>6 DEF Shapes
    <3> QED BY <2>1, <2>2, <2>4, <3>1, <3>2 DEF MovedSoFar
  <2> QED BY <2>5, <2>6
<1>5. CASE StoreWord
  <2> SUFFICES ASSUME state' = "running", WholeWords', NEW b \in Operand', (b < n)'
               PROVE  (mem[Physical(insn.base + b)])' = (regs[RegOf(b)][ByteOf(b)])'
    BY <1>1, <1>5 DEF MovedSoFar, StoreWord, Works
  <2>1. /\ insn' = insn /\ insn.op \in Store /\ UNCHANGED <<regs, frame>> /\ Left > 0
        /\ state = "running" /\ ~NoPage(At) /\ ~Misaligned(Size, Here)
        /\ StoreAt(Size, Here, regs[CurReg]) /\ n' = n + 4
    BY <1>5 DEF StoreWord, Works
  <2>2. /\ WholeWords /\ b \in Operand /\ b < n + 4 /\ RegOf(b)' = RegOf(b) /\ ByteOf(b)' = ByteOf(b)
        /\ Physical(insn.base + b)' = Physical(insn.base + b)
    <3>1. Physical(insn.base + b)' = Physical(insn.base + b)
      BY <2>1 DEF Physical, PageOf
    <3> QED BY <2>1, <3>1, SameOperand
  <2>3. (At % PageBytes) + Size <= PageBytes /\ Size \in {1, 2, 4}
    BY <1>3, <2>1, <2>2, WholeWord
  <2>4. Here \in Nat
    BY <2>1, <2>2, <2>3, WordInMemory, 0 \in 0..Size - 1
  <2> DEFINE a == Physical(insn.base + b)
  <2>5. a \in PA
    BY <1>2, <2>2
  <2>6. CASE b >= n
    <3> DEFINE k == b - n
    <3>1. k \in 0..Size - 1
      BY <2>1, <2>2, <2>6, WholeWord
    <3>2. b = n + k
      BY <1>1, <2>2
    <3> HIDE DEF k
    <3>3. a = Here + k
      BY <2>1, <2>2, <2>3, <3>1, <3>2, WordInMemory
    <3>4. RegOf(b) = CurReg /\ ByteOf(b) = 5 - Size + k
      BY <2>1, <2>2, <3>1, <3>2, WholeWord
    <3>5. a \in Here..Here + Size - 1 /\ a - Here + 1 + (4 - Size) = 5 - Size + k
      <4> HIDE DEF a
      <4> QED BY <2>3, <2>4, <3>1, <3>3
    <3>6. mem'[a] = regs[CurReg][a - Here + 1 + (4 - Size)]
      BY <2>1, <2>5, <3>5 DEF StoreAt
    <3> QED BY <2>1, <2>2, <3>4, <3>5, <3>6
  <2>7. CASE b < n
    <3>1. a \notin Here..Here + Size - 1
      <4> SUFFICES ASSUME a \in Here..Here + Size - 1 PROVE FALSE
        OBVIOUS
      <4> DEFINE k == a - Here
      <4>1. k \in 0..Size - 1 /\ a = Here + k
        BY <2>3, <2>4
      <4> HIDE DEF k
      <4> DEFINE c == n + k
      <4>2. c \in Operand /\ Physical(insn.base + c) = a
        BY <2>1, <2>2, <2>3, <4>1, WordInMemory, WholeWord
      <4>3. insn.base \in Nat /\ b \in Nat /\ c \in Nat /\ c >= n
        BY <1>1, <2>2, <4>1, <4>2, Lengths
      <4> HIDE DEF c
      <4>4. insn.base + b = insn.base + c
        BY <1>1, <1>2, <2>2, <4>2, PhysicalInjective
      <4> QED BY <1>1, <2>7, <4>3, <4>4
    <3>2. mem'[a] = mem[a]
      BY <2>1, <2>5, <3>1 DEF StoreAt
    <3>3. mem[a] = regs[RegOf(b)][ByteOf(b)]
      BY <2>1, <2>2, <2>7 DEF MovedSoFar
    <3> QED BY <2>1, <2>2, <3>2, <3>3
  <2>8. b \in Nat /\ n \in Nat
    BY <1>1, <2>2
  <2>9. b >= n \/ b < n
    BY <2>8
  <2> QED BY <2>6, <2>7, <2>9
<1>6. CASE StoreRest
  <2>1. insn' = insn /\ ~WholeWords
    BY <1>6, WholeWord DEF StoreRest, Works
  <2> QED BY <2>1, SameOperand DEF MovedSoFar
<1>7. CASE Fault \/ Finish \/ Emulate
  <2>1. state' # "running"
    BY <1>7 DEF Fault, Finish, Emulate
  <2> QED BY <2>1 DEF MovedSoFar
<1>8. CASE Service
  <2>1. insn' = insn /\ n' = 0
    BY <1>8 DEF Service
  <2>2. Operand' \subseteq Nat
    BY <1>1, <2>1, SameOperand
  <2>3. \A b \in Operand' : ~(b < n')
    BY <2>1, <2>2
  <2> QED BY <2>3 DEF MovedSoFar
<1>9. ASSUME NEW j \in Insn, NEW f \in Frames, NEW pages \in SUBSET Page, Begin(j, f, pages)
      PROVE  MovedSoFar'
  <2>1. n' = 0
    BY <1>9 DEF Begin
  <2>2. \A b \in Operand' : ~(b < n')
    BY <2>1 DEF Operand
  <2> QED BY <2>2 DEF MovedSoFar
<1>10. CASE UNCHANGED memoryVars
  <2>1. UNCHANGED <<insn, state, n, regs, mem, frame>>
    BY <1>10 DEF memoryVars
  <2>2. ASSUME NEW b \in Operand
        PROVE  /\ Loaded(RegOf(b))' = Loaded(RegOf(b)) /\ RegOf(b)' = RegOf(b)
               /\ ByteOf(b)' = ByteOf(b) /\ Physical(insn.base + b)' = Physical(insn.base + b)
    <3>1. Physical(insn.base + b)' = Physical(insn.base + b)
      BY <2>1 DEF Physical, PageOf
    <3> QED BY <2>1, <3>1, SameOperand, SameLoaded
  <2> QED BY <2>1, <2>2, SameOperand DEF MovedSoFar
<1> QED BY <1>4, <1>5, <1>6, <1>7, <1>8, <1>9, <1>10 DEF MemoryNext, Working

LEMMA OperandMovedStep ==
  ASSUME Counters, Shapes, MovedSoFar, OperandMoved, [MemoryNext]_memoryVars
  PROVE  OperandMoved'
<1>1. insn \in Insn /\ (insn.op \in Load <=> insn.op \notin Store)
  BY Lengths DEF Counters
<1>2. CASE LoadWord \/ StoreWord
  <2>1. state' # "done"
    BY <1>2 DEF LoadWord, StoreWord, Works
  <2> QED BY <2>1 DEF OperandMoved
<1>3. CASE StoreRest
  <2>1. insn' = insn /\ ~WholeWords
    BY <1>3, WholeWord DEF StoreRest, Works
  <2> QED BY <2>1, SameOperand DEF OperandMoved
<1>4. CASE Fault \/ Service
  <2>1. state' # "done"
    BY <1>4 DEF Fault, Service
  <2> QED BY <2>1 DEF OperandMoved
<1>5. ASSUME NEW j \in Insn, NEW f \in Frames, NEW pages \in SUBSET Page, Begin(j, f, pages)
      PROVE  OperandMoved'
  <2>1. state' # "done"
    BY <1>5 DEF Begin
  <2> QED BY <2>1 DEF OperandMoved
<1>6. CASE Finish
  <2> SUFFICES ASSUME WholeWords' PROVE (insn.op \in Load => regs = WithLoaded)'
                                        /\ (insn.op \in Store => mem = WithStored)'
    BY DEF OperandMoved
  <2>1. state = "running" /\ Left <= 0 /\ UNCHANGED <<insn, n, i, regs, mem, frame, mapped>>
    BY <1>6 DEF Finish
  <2>2. /\ WholeWords
        /\ \A b \in Operand : b < n
    <3>1. Length \in Nat /\ n \in Nat /\ Left = Length - n
      BY <1>1, Lengths DEF Counters, Left
    <3>2. WholeWords
      BY <2>1, SameOperand
    <3>3. \A b \in Operand : b < n
      BY <2>1, <3>1 DEF Operand
    <3> QED BY <3>2, <3>3
  <2>3. ASSUME insn.op \in Load PROVE regs = WithLoaded
    <3>1. ASSUME NEW r \in Named PROVE regs[r] = Loaded(r)
      <4>1. PICK b \in Operand : r = RegOf(b)
        BY DEF Named
      <4> QED BY <2>1, <2>2, <2>3, <4>1 DEF MovedSoFar
    <3>2. \A r \in Reg : WithLoaded[r] = regs[r]
      BY <3>1 DEF WithLoaded, Loaded
    <3> QED BY <3>2 DEF Shapes, WithLoaded
  <2>4. ASSUME insn.op \in Store PROVE mem = WithStored
    <3>1. ASSUME NEW a \in PA PROVE WithStored[a] = mem[a]
      <4>1. CASE a \notin Touched
        BY <4>1 DEF WithStored
      <4>2. CASE a \in Touched
        <5> DEFINE b == CHOOSE b \in Operand : Physical(insn.base + b) = a
        <5>1. b \in Operand /\ Physical(insn.base + b) = a
          BY <4>2 DEF Touched
        <5>2. WithStored[a] = regs[RegOf(b)][ByteOf(b)]
          BY <4>2 DEF WithStored
        <5> HIDE DEF b
        <5> QED BY <2>1, <2>2, <2>4, <5>1, <5>2 DEF MovedSoFar
      <4> QED BY <4>1, <4>2
    <3> QED BY <3>1 DEF Shapes, WithStored
  <2>5. WithLoaded' = WithLoaded /\ WithStored' = WithStored
    BY <2>1 DEF WithLoaded, WithStored, Named, Touched, Operand, RegOf, ByteOf, Single, Length, Physical, PageOf
  <2> QED BY <2>1, <2>3, <2>4, <2>5
<1>7. CASE Emulate
  <2>1. /\ UNCHANGED <<insn, frame>>
        /\ regs' = (IF insn.op \in Load THEN WithLoaded ELSE regs)
        /\ mem' = (IF insn.op \in Store THEN WithStored ELSE mem)
    BY <1>7 DEF Emulate
  <2>2. CASE insn.op \in Load
    <3>1. regs' = WithLoaded /\ mem' = mem
      BY <1>1, <2>1, <2>2
    <3>2. Named' = Named /\ \A r : Loaded(r)' = Loaded(r)
      BY <2>1, <3>1, SameOperand, SameLoaded
    <3>3. WithLoaded = [r \in Reg |-> IF r \notin Named THEN regs[r] ELSE Loaded(r)]
      BY DEF WithLoaded, Loaded
    <3>4. WithLoaded' = [r \in Reg |-> IF r \notin Named' THEN regs'[r] ELSE Loaded(r)']
      BY DEF WithLoaded, Loaded
    <3>5. WithLoaded' = WithLoaded
      BY <3>1, <3>2, <3>3, <3>4
    <3> QED BY <1>1, <2>1, <2>2, <3>1, <3>5 DEF OperandMoved
  <2>3. CASE insn.op \in Store
    <3>1. mem' = WithStored /\ regs' = regs
      BY <1>1, <2>1, <2>3
    <3>2. Touched' = Touched /\ \A a : StoredByte(a)' = StoredByte(a)
      BY <2>1, <3>1, SameOperand, SameStored
    <3>3. WithStored = [a \in PA |-> IF a \notin Touched THEN mem[a] ELSE StoredByte(a)]
      BY DEF WithStored, StoredByte
    <3>4. WithStored' = [a \in PA |-> IF a \notin Touched' THEN mem'[a] ELSE StoredByte(a)']
      BY DEF WithStored, StoredByte
    <3>5. WithStored' = WithStored
      BY <3>1, <3>2, <3>3, <3>4
    <3> QED BY <1>1, <2>1, <2>3, <3>1, <3>5 DEF OperandMoved
  <2> QED BY <1>1, <2>2, <2>3
<1>8. CASE UNCHANGED memoryVars
  <2>1. UNCHANGED <<insn, state, regs, mem, frame>>
    BY <1>8 DEF memoryVars
  <2>2. WithLoaded' = WithLoaded /\ WithStored' = WithStored
    BY <2>1 DEF WithLoaded, WithStored, Named, Touched, Operand, RegOf, ByteOf, Single, Length, Physical, PageOf
  <2> QED BY <2>1, <2>2, SameOperand DEF OperandMoved
<1> QED BY <1>2, <1>3, <1>4, <1>5, <1>6, <1>7, <1>8 DEF MemoryNext, Working
-----------------------------------------------------------------------------
LEMMA StartsRight ==
  ASSUME MemoryInit
  PROVE  Counters /\ Shapes /\ Footprint /\ MovedSoFar /\ OperandMoved
<1>1. n = 0 /\ i = 0 /\ state = "running" /\ regs = OldRegs /\ mem = OldMem
      /\ insn \in Insn /\ frame \in Frames /\ mapped \subseteq Page
  BY DEF MemoryInit
<1>2. Counters
  BY <1>1 DEF Counters
<1>3. Shapes
  BY <1>1 DEF Shapes, OldRegs, OldMem
<1>4. MovedSoFar
  BY <1>1 DEF MovedSoFar, Operand
<1> QED BY <1>1, <1>2, <1>3, <1>4 DEF Footprint, OperandMoved

(* Whatever the alignment that the build permits: registers that an        *)
(* instruction does not name, and memory outside its operand if no word of *)
(* it crosses a page, keep their contents (LMW, STMW, LSWI, STSWI and the  *)
(* simple forms, between any two of their accesses).                       *)
THEOREM OperandsAreBounds == MemorySpec => []Footprint
<1>1. MemoryInit => Counters /\ Shapes /\ Footprint
  BY StartsRight
<1>2. Counters /\ Shapes /\ Footprint /\ [MemoryNext]_memoryVars => (Counters /\ Shapes /\ Footprint)'
  BY CountersStep, ShapesStep, FootprintStep
<1> QED BY <1>1, <1>2, PTL DEF MemorySpec

(* An instruction that is done has moved all of its operand, however often *)
(* a page fault restarted it and wherever an alignment fault left it.  A   *)
(* build that permits every alignment is excluded: its accesses may cross  *)
(* into a page that is elsewhere in memory (the accessors translate the    *)
(* first byte only).                                                       *)
THEOREM InstructionsMoveTheirOperand ==
  ASSUME Align # 2
  PROVE  MemorySpec => []OperandMoved
<1> DEFINE Inv == Counters /\ Shapes /\ MovedSoFar /\ OperandMoved
<1>1. MemoryInit => Inv
  BY StartsRight
<1>2. Inv /\ [MemoryNext]_memoryVars => Inv'
  BY CountersStep, ShapesStep, MovedStep, OperandMovedStep
<1> QED BY <1>1, <1>2, PTL DEF MemorySpec
=============================================================================
