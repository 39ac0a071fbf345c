------------------------------ MODULE MCPPCMMU ------------------------------
(* Instances of PPCMMU for TLC. *)
EXTENDS PPCMMU, Bitwise

\* Bit operations of the sizes met here, tabulated once.
Small    == 0 .. 7
OrTable  == [x \in Small, y \in Small |-> x | y]
AndTable == [x \in Small, y \in Small |-> x & y]
XorTable == [x \in Small, y \in Small |-> x ^^ y]
MCBitOr(x, y)       == OrTable[x, y]
MCBitAnd(x, y)      == AndTable[x, y]
MCHash(vsid, pgidx) == XorTable[vsid, pgidx]

Acc(s, priv, rnw, page) == [side |-> s, priv |-> priv, rnw |-> rnw, page |-> page]
Up(bepi, bl, vs, vp) == [bepi |-> bepi, bl |-> bl, vs |-> vs, vp |-> vp]
Lo(brpn, pp) == [brpn |-> brpn, pp |-> pp]
Sr(vsid, ks, kp, n) == [vsid |-> vsid, ks |-> ks, kp |-> kp, n |-> n]
Ptel(v, h, vsid, api) == [v |-> v, h |-> h, vsid |-> vsid, api |-> api]
Pteh(rpn, pp) == [rpn |-> rpn, pp |-> pp, r |-> FALSE, c |-> FALSE]
NoSdr1 == [phys |-> 0, mask |-> 0]
FreePte == Ptel(FALSE, FALSE, 0, 0)
NoBat == Up(0, 0, FALSE, FALSE)

DataOnOff == {<<FALSE, FALSE>>, <<FALSE, TRUE>>}

\* Dirty: loads and stores, by both privileges, of two pages that share a
\* micro-TLB index and, when their segments agree, one PTE.
DirtyRequests == {Acc("D", p, r, g) : p \in BOOLEAN, r \in BOOLEAN, g \in {0, 1}}
DirtySegs     == {Sr(0, FALSE, TRUE, FALSE), Sr(0, TRUE, FALSE, FALSE)}
DirtyPtel     == {FreePte, Ptel(TRUE, FALSE, 0, 0)}
DirtyPteh     == {Pteh(1, 0), Pteh(0, 2)}
NoSdr1Change  == {NoSdr1}

\* Context: both sides, a block of two pages with a frame not aligned to it
\* over one page table entry, no-execute segments, translation on and off.
ContextRequests == {Acc("I", TRUE, TRUE, 1), Acc("D", FALSE, TRUE, 1)}
AllOnOff       == {<<FALSE, FALSE>>, <<TRUE, TRUE>>}
ContextUppers  == {NoBat, Up(0, 1, TRUE, TRUE)}
ContextLowers  == {Lo(3, 2), Lo(3, 0)}
ContextSegs    == {Sr(0, FALSE, FALSE, TRUE), Sr(0, FALSE, FALSE, FALSE)}
ContextPtel    == {FreePte, Ptel(TRUE, FALSE, 0, 1)}
ContextPteh    == {Pteh(2, 2)}

\* Table: four PTEGs of one slot, tables of two and of four PTEGs, a VSID that
\* changes every bit of the hash.
TableSdr1 == {NoSdr1, [phys |-> 0, mask |-> 1]}
TableSegs == {Sr(3, FALSE, FALSE, FALSE)}
TablePtel == {FreePte} \cup {Ptel(TRUE, h, 3, a) : h \in BOOLEAN, a \in {0, 1}}
TablePteh == {Pteh(1, 2)}
=============================================================================
