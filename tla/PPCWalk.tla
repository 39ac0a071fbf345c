------------------------------ MODULE PPCWalk ------------------------------
(***************************************************************************)
(* What PPCMMU::translateEA computes from the architected translation      *)
(* state: the MSR[IR]/MSR[DR] copies, the BATs, the segment registers,     *)
(* SDR1 and the hashed page table in guest memory.  No micro-TLB here:     *)
(* PPCMMU adds it, ArchMMU specifies the MMU that has none.                *)
(*                                                                         *)
(* An address is its page number; the byte offset within the page plays no *)
(* part in a translation.  A register field is a member of a small set.    *)
(***************************************************************************)
EXTENDS Integers, FiniteSetsExt

CONSTANTS
  NrSegs,       \* PPCMMU_NR_SEGS: 16 segments ...
  SegPages,     \* ... of 2^16 pages each
  ApiPages,     \* pages that share one abbreviated page index: 2^10
  NrBats,       \* PPCMMU_NR_BATS: 4 BATs a side
  BatPages,     \* pages of the smallest block, 128KB: 32
  MaxBl,        \* largest bl_shift: 11
  NrPtegs,      \* PTEGs of guest memory the page table can occupy
  NrSlots,      \* PTEs of a PTEG: 8
  MaxMask,      \* largest htab_mask: 2^9 - 1
  MaxVsid,      \* VSIDs are 24 bits
  Hash(_, _),   \* (vsid & 0x7ffff) ^ pgidx
  BitOr(_, _),  \* C's | on page, block and PTEG numbers
  BitAnd(_, _), \* C's & on a hash and a mask
  Requests      \* the accesses the guest makes (a bound of an instance)

Side  == {"I", "D"}                    \* InD: instruction or data
Page  == 0 .. NrSegs * SegPages - 1    \* EA and PA are both 32 bits
Seg   == 0 .. NrSegs - 1
BatIx == 0 .. NrBats - 1
Pteg  == 0 .. NrPtegs - 1
Slot  == 0 .. NrSlots - 1
Bit   == {0, 1}
PP    == 0 .. 3
Api   == 0 .. SegPages - 1
Vsid  == 0 .. MaxVsid

BatUpper == [bepi : Page, bl : 0 .. MaxBl, vs : BOOLEAN, vp : BOOLEAN]
BatLower == [brpn : Page, pp : PP]
SegReg   == [vsid : Vsid, ks : BOOLEAN, kp : BOOLEAN, n : BOOLEAN]
Sdr1     == [phys : Pteg, mask : 0 .. MaxMask]
PteL     == [v : BOOLEAN, h : BOOLEAN, vsid : Vsid, api : Api]    \* first word
PteH     == [rpn : Page, pp : PP, r : BOOLEAN, c : BOOLEAN]       \* second word
Perms    == [r : BOOLEAN, w : BOOLEAN, clean : BOOLEAN]
Fault    == {"NONE", "NO_PAGE", "PERMS", "PERMS_NX"}
PteAddr  == Pteg \X Slot

Access == [side : Side, priv : BOOLEAN, rnw : BOOLEAN, page : Page]

ASSUME SizesAssumption ==
  /\ NrSegs \in Nat \ {0} /\ SegPages \in Nat \ {0} /\ ApiPages \in Nat \ {0}
  /\ NrBats \in Nat /\ NrPtegs \in Nat \ {0} /\ NrSlots \in Nat
  /\ MaxBl \in Nat /\ MaxVsid \in Nat /\ MaxMask \in Nat
  /\ \A bl \in 0 .. MaxBl : BatPages * 2^bl \in Nat \ {0}

\* A fetch only reads.
ASSUME RequestsAssumption ==
  /\ Requests \subseteq Access
  /\ \A a \in Requests : a.side = "I" => a.rnw

\* The bits of the hash that select a PTEG: 10 fixed ones and htab_mask.
TableMask(s) == s.mask * ApiPages + (ApiPages - 1)

\* Page numbers are a power of two many, and the page table lies in memory.
ASSUME BitsAssumption ==
  /\ \A x, y \in Page : BitOr(x, y) \in Page
  /\ \A s \in Sdr1 :
       /\ \A v \in Vsid, i \in 0 .. SegPages - 1 :
            BitAnd(Hash(v, i), TableMask(s)) \in 0 .. TableMask(s)
       /\ \A x \in 0 .. TableMask(s) : BitOr(s.phys, x) \in Pteg

\* C's ^, & and |: the mask keeps the low bits of a hash, whose XOR with one
\* VSID loses nothing; and the OR with an aligned table loses nothing of what
\* the mask let through, nor of its complement.
ASSUME HashAssumption ==
  \A s \in Sdr1, v, u \in Vsid, i, j \in Api :
    LET x == BitAnd(Hash(v, i), TableMask(s))
        y == BitAnd(Hash(u, j), TableMask(s))
    IN  /\ v = u /\ x = y => i % ApiPages = j % ApiPages
        /\ /\ BitAnd(s.phys, TableMask(s)) = 0
           /\ \/ BitOr(s.phys, x) = BitOr(s.phys, y)
              \/ BitOr(s.phys, TableMask(s) - x) = BitOr(s.phys, TableMask(s) - y)
           => x = y

VARIABLES
  enabled,   \* enabled_i, enabled_d by side
  bat,       \* ibat, dbat by side: [up, lo] for each index
  segreg,
  sdr1,      \* htab_phys, htab_mask
  ptel,      \* first word of each PTE in guest memory
  pteh       \* second word of each PTE in guest memory

contextVars == <<enabled, bat, segreg, sdr1, ptel, pteh>>

ContextTypeOK ==
  /\ enabled \in [Side -> BOOLEAN]
  /\ bat \in [Side -> [BatIx -> [up : BatUpper, lo : BatLower]]]
  /\ segreg \in [Seg -> SegReg]
  /\ sdr1 \in Sdr1
  /\ ptel \in [PteAddr -> PteL]
  /\ pteh \in [PteAddr -> PteH]
-----------------------------------------------------------------------------
(* Block address translation *)

BlockSize(u) == BatPages * 2^(u.bl)

BatHit(b, priv, page) ==
  /\ IF priv THEN b.up.vs ELSE b.up.vp
  /\ page \div BlockSize(b.up) = b.up.bepi \div BlockSize(b.up)

BatHits(side, priv, page) == {i \in BatIx : BatHit(bat[side][i], priv, page)}

\* Mutant of BatPage: the offset is added to a BRPN that is not aligned to
\* the block, where the code ORs it in.
BatPageAdding(b, page) == b.lo.brpn + (page % BlockSize(b.up))

BatPage(b, page) == BitOr(b.lo.brpn, page % BlockSize(b.up))
-----------------------------------------------------------------------------
(* Page translation: at most two PTEGs are probed, slot by slot. *)

SegOf(page)     == segreg[page \div SegPages]
PageIndex(page) == page % SegPages

\* The PTEG of the primary and, for h, of the secondary (complemented) hash.
PtegOf(page, h) ==
  LET hashed == BitAnd(Hash(SegOf(page).vsid, PageIndex(page)), TableMask(sdr1))
  IN  BitOr(sdr1.phys, IF h THEN TableMask(sdr1) - hashed ELSE hashed)

\* Mutant of PteMatches: H is not compared.
PteMatchesIgnoringH(p, page, h) ==
  /\ p.v
  /\ p.vsid = SegOf(page).vsid
  /\ p.api = PageIndex(page) \div ApiPages

PteMatches(p, page, h) ==
  p = [v |-> TRUE, h |-> h, vsid |-> SegOf(page).vsid, api |-> PageIndex(page) \div ApiPages]

Matching(page, h) == {s \in Slot : PteMatches(ptel[<<PtegOf(page, h), s>>], page, h)}

HasPte(page) == Matching(page, FALSE) # {} \/ Matching(page, TRUE) # {}

\* The PTE the walk stops at: primary PTEG first, lowest slot first.
PteFor(page) ==
  LET h == Matching(page, FALSE) = {}
  IN  <<PtegOf(page, h), Min(Matching(page, h))>>

\* The storage key selected by the privilege of the access.
Key(page, priv) == IF priv THEN SegOf(page).ks ELSE SegOf(page).kp

PageReadable(key, pp) == ~(key /\ pp = 0)
PageWritable(key, pp) == (~key /\ pp < 3) \/ (key /\ pp = 2)

(***************************************************************************)
(* The outcome of one walk of the tables for access a when translation is  *)
(* on: the fault, the page frame, the permissions, and the second word of  *)
(* the PTE with Referenced set, and Changed set for a permitted store.     *)
(***************************************************************************)
NoWalk(f) == [fault |-> f, frame |-> 0, perms |-> [r |-> FALSE, w |-> FALSE, clean |-> FALSE]]

BatWalk(a) ==
  LET b == bat[a.side][Min(BatHits(a.side, a.priv, a.page))]
  IN  IF b.lo.pp = 0
        THEN NoWalk("PERMS")
        ELSE [fault |-> "NONE", frame |-> BatPage(b, a.page),
              perms |-> [r |-> TRUE, w |-> b.lo.pp = 2, clean |-> FALSE]]

\* Mutant of ReferencedChanged: any store sets Changed, permitted or not.
ReferencedChangedByAnyStore(word, a) ==
  [word EXCEPT !.r = TRUE, !.c = @ \/ ~a.rnw]

ReferencedChanged(word, a) ==
  [word EXCEPT !.r = TRUE,
               !.c = @ \/ (~a.rnw /\ PageWritable(Key(a.page, a.priv), word.pp))]

\* Mutants of PageWalk: a page is never marked clean; a page is marked clean
\* by the C bit it had before this walk updated it.
PageWalkNeverClean(a, word) ==
  [fault |-> "NONE", frame |-> word.rpn,
   perms |-> [r |-> PageReadable(Key(a.page, a.priv), word.pp),
              w |-> PageWritable(Key(a.page, a.priv), word.pp),
              clean |-> FALSE]]

PageWalkCleanBefore(a, word) ==
  [PageWalkNeverClean(a, word) EXCEPT !.perms.clean = ~word.c]

PageWalk(a, word) ==
  [fault |-> "NONE", frame |-> word.rpn,
   perms |-> [r |-> PageReadable(Key(a.page, a.priv), word.pp),
              w |-> PageWritable(Key(a.page, a.priv), word.pp),
              clean |-> ~ReferencedChanged(word, a).c]]

\* Does access a reach the page table, and find a PTE there?
ByPage(a) ==
  /\ BatHits(a.side, a.priv, a.page) = {}
  /\ ~(a.side = "I" /\ SegOf(a.page).n)
  /\ HasPte(a.page)

TranslatedWalk(a) ==
  CASE BatHits(a.side, a.priv, a.page) # {} -> BatWalk(a)
    [] ByPage(a) -> PageWalk(a, pteh[PteFor(a.page)])
    [] OTHER -> NoWalk(IF a.side = "I" /\ SegOf(a.page).n THEN "PERMS_NX" ELSE "NO_PAGE")

RealWalk(a) == [fault |-> "NONE", frame |-> a.page,
                perms |-> [r |-> TRUE, w |-> TRUE, clean |-> FALSE]]

Walk(a) == IF enabled[a.side] THEN TranslatedWalk(a) ELSE RealWalk(a)

\* Guest memory after the walk: only the R and C bits of one PTE may change.
WalkedPteh(a) ==
  IF enabled[a.side] /\ ByPage(a)
    THEN [pteh EXCEPT ![PteFor(a.page)] = ReferencedChanged(@, a)]
    ELSE pteh

(* checkPerms, leaving cleanliness aside *)
Permits(perms, a) == IF a.side = "I" \/ a.rnw THEN perms.r ELSE perms.w
=============================================================================
