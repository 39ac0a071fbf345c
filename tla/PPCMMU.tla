------------------------------- MODULE PPCMMU -------------------------------
(***************************************************************************)
(* PPCMMU: the software MMU of the simulator.  Four direct-mapped          *)
(* micro-TLBs (instruction/data x privileged/unprivileged) stand in front  *)
(* of the walk of PPCWalk.  Nothing tells the micro-TLBs when the state    *)
(* behind them changes except the invalidations the register setters make, *)
(* and the TR tag that separates entries made with translation on from     *)
(* entries made with it off.                                               *)
(***************************************************************************)
EXTENDS PPCWalk

CONSTANTS
  UtlbEntries,   \* PPCMMU_UTLB_ENTRIES: 128
  GenWrap,       \* generation_count is an unsigned int: 2^32
  IrDrValues,    \* what the guest sets MSR[IR,DR] to,
  Sdr1Values, BatUppers, BatLowers, SegValues,   \* what it writes to registers
  PtelValues, PtehValues                         \* and to its page table

ASSUME MMUAssumption ==
  /\ UtlbEntries \in Nat \ {0}
  /\ GenWrap \in Nat \ {0}
  /\ IrDrValues \subseteq BOOLEAN \X BOOLEAN
  /\ Sdr1Values \subseteq Sdr1
  /\ BatUppers \subseteq BatUpper
  /\ BatLowers \subseteq BatLower
  /\ SegValues \subseteq SegReg
  /\ PtelValues \subseteq PteL
  /\ PtehValues \subseteq PteH

VARIABLES
  utlb,               \* pi_utlb, pd_utlb, ui_utlb, ud_utlb
  generation_count,
  edited,             \* history: pages whose PTE the guest changed, by side,
                      \* since that side's micro-TLBs were last invalidated
  out                 \* what the last operation returned

vars == <<contextVars, utlb, generation_count, edited, out>>

Index == 0 .. UtlbEntries - 1

Entry == [valid : BOOLEAN, tr : BOOLEAN, page : Page, frame : Page, perms : Perms]

\* memset to zero
Empty == [valid |-> FALSE, tr |-> FALSE, page |-> 0, frame |-> 0,
          perms |-> [r |-> FALSE, w |-> FALSE, clean |-> FALSE]]

\* The two outcomes of translateAddr that must never occur: a miss straight
\* after the insertion, and a re-walk that asks for another re-walk.
Broken == {"MISS_AFTER_INSERT", "REWALK_AGAIN"}
Result == [fault : Fault \cup Broken, frame : Page]

Done      == [fault |-> "NONE", frame |-> 0]
Failed(f) == [fault |-> f, frame |-> 0]
-----------------------------------------------------------------------------
(* The micro-TLBs *)

IndexOf(page) == page % UtlbEntries

EntryFor(u, a) == u[a.side][a.priv][IndexOf(a.page)]

\* Mutant of UtlbLookup: the TR tag is not compared.
UtlbLookupIgnoringTR(u, a) ==
  LET e == EntryFor(u, a)
  IN  e.valid /\ e.page = a.page

UtlbLookup(u, a) ==
  LET e == EntryFor(u, a)
  IN  e.valid /\ e.page = a.page /\ e.tr = enabled[a.side]

UtlbInsert(u, a, w) ==
  [u EXCEPT ![a.side][a.priv][IndexOf(a.page)] =
     [valid |-> TRUE, tr |-> enabled[a.side], page |-> a.page,
      frame |-> w.frame, perms |-> w.perms]]

EmptyUtlb == [priv \in BOOLEAN |-> [i \in Index |-> Empty]]

\* Mutant of Invalidate: generation_count is not advanced.
InvalidateQuietly(sides) ==
  /\ utlb' = [s \in Side |-> IF s \in sides THEN EmptyUtlb ELSE utlb[s]]
  /\ edited' = [s \in Side |-> IF s \in sides THEN {} ELSE edited[s]]
  /\ out' = Done
  /\ UNCHANGED generation_count

\* iutlbInv and dutlbInv, as the setters call them, and generation_count++.
Invalidate(sides) ==
  /\ utlb' = [s \in Side |-> IF s \in sides THEN EmptyUtlb ELSE utlb[s]]
  /\ edited' = [s \in Side |-> IF s \in sides THEN {} ELSE edited[s]]
  /\ generation_count' = (generation_count + 1) % GenWrap
  /\ out' = Done
-----------------------------------------------------------------------------
(* Register writes: mtspr, mtsr, mtmsr/rfi/exceptions, and tlbie *)

SetSDR1(v) ==
  /\ sdr1' = v
  /\ Invalidate(Side)
  /\ UNCHANGED <<enabled, bat, segreg, ptel, pteh>>

SetBatUpper(s, i, u) ==
  /\ bat' = [bat EXCEPT ![s][i].up = u]
  /\ Invalidate({s})
  /\ UNCHANGED <<enabled, segreg, sdr1, ptel, pteh>>

\* Mutant of SetBatLower: only the upper word flushes the micro-TLBs.
SetBatLowerWithoutFlush(s, i, l) ==
  /\ bat' = [bat EXCEPT ![s][i].lo = l]
  /\ Invalidate({})
  /\ UNCHANGED <<enabled, segreg, sdr1, ptel, pteh>>

SetBatLower(s, i, l) ==
  /\ bat' = [bat EXCEPT ![s][i].lo = l]
  /\ Invalidate({s})
  /\ UNCHANGED <<enabled, segreg, sdr1, ptel, pteh>>

\* Mutant of SetSegmentReg: the instruction side is forgotten.
SetSegmentRegFlushingData(n, v) ==
  /\ segreg' = [segreg EXCEPT ![n] = v]
  /\ Invalidate({"D"})
  /\ UNCHANGED <<enabled, bat, sdr1, ptel, pteh>>

SetSegmentReg(n, v) ==
  /\ segreg' = [segreg EXCEPT ![n] = v]
  /\ Invalidate(Side)
  /\ UNCHANGED <<enabled, bat, sdr1, ptel, pteh>>

Tlbie ==
  /\ Invalidate(Side)
  /\ UNCHANGED contextVars

SetIRDR(ir, dr) ==
  /\ enabled' = [s \in Side |-> IF s = "I" THEN ir ELSE dr]
  /\ out' = Done
  /\ UNCHANGED <<bat, segreg, sdr1, ptel, pteh, utlb, generation_count, edited>>
-----------------------------------------------------------------------------
(* Guest stores to the page table: the MMU sees nothing of them.  A PTE is  *)
(* two words, and two stores.                                               *)

PteOf(page) == IF HasPte(page)
                 THEN <<ptel[PteFor(page)], pteh[PteFor(page)]>> ELSE <<>>

NoteEdits ==
  /\ UNCHANGED <<enabled, bat, segreg, sdr1, utlb, generation_count>>
  /\ edited' = [s \in Side |-> edited[s] \cup {pg \in Page : PteOf(pg)' # PteOf(pg)}]
  /\ out' = Done

GuestWritesPtel(p, w) ==
  /\ ptel' = [ptel EXCEPT ![p] = w]
  /\ UNCHANGED pteh
  /\ NoteEdits

GuestWritesPteh(p, w) ==
  /\ pteh' = [pteh EXCEPT ![p] = w]
  /\ UNCHANGED ptel
  /\ NoteEdits
-----------------------------------------------------------------------------
(* translateAddr *)

CheckPerms(perms, a) == Permits(perms, a) /\ (a.side = "I" \/ a.rnw \/ ~perms.clean)

FaultWasCleanliness(perms, a) == a.side = "D" /\ ~a.rnw /\ perms.w /\ perms.clean

Answer(e, a) == IF CheckPerms(e.perms, a)
                  THEN [fault |-> "NONE", frame |-> e.frame] ELSE Failed("PERMS")

NeedsWalk(a) == \/ ~UtlbLookup(utlb, a)
                \/ FaultWasCleanliness(EntryFor(utlb, a).perms, a)

AccessHits(a) ==
  /\ ~NeedsWalk(a)
  /\ out' = Answer(EntryFor(utlb, a), a)
  /\ UNCHANGED <<contextVars, utlb, generation_count, edited>>

\* The walk for the access, its insertion, and the lookup that fetches it.
AccessWalks(a) ==
  LET w == Walk(a)
      inserted == UtlbInsert(utlb, a, w)
  IN
  /\ NeedsWalk(a)
  /\ pteh' = WalkedPteh(a)
  /\ utlb' = IF w.fault = "NONE" THEN inserted ELSE utlb
  /\ out' = IF w.fault # "NONE" THEN Failed(w.fault)
            ELSE IF ~UtlbLookup(inserted, a) THEN Failed("MISS_AFTER_INSERT")
            ELSE IF FaultWasCleanliness(EntryFor(inserted, a).perms, a) THEN Failed("REWALK_AGAIN")
            ELSE Answer(EntryFor(inserted, a), a)
  /\ UNCHANGED <<enabled, bat, segreg, sdr1, ptel, generation_count, edited>>
-----------------------------------------------------------------------------
\* Registers the constructor leaves alone hold anything; BATs start invalid.
Init ==
  /\ enabled = [s \in Side |-> FALSE]
  /\ bat \in [Side -> [BatIx -> [up : {u \in BatUppers : ~u.vs /\ ~u.vp}, lo : BatLowers]]]
  /\ segreg \in [Seg -> SegValues]
  /\ sdr1 \in Sdr1Values
  /\ ptel \in [PteAddr -> {w \in PtelValues : ~w.v}]
  /\ pteh \in [PteAddr -> {w \in PtehValues : ~w.r /\ ~w.c}]
  /\ utlb = [s \in Side |-> EmptyUtlb]
  /\ generation_count = 0
  /\ edited = [s \in Side |-> {}]
  /\ out = Done

\* mtspr to the registers of the MMU (CHECK_YOUR_PRIVILEGE is empty)
MoveToBat ==
  \E s \in Side, i \in BatIx :
    \/ \E u \in BatUppers : SetBatUpper(s, i, u)
    \/ \E l \in BatLowers : SetBatLower(s, i, l)

MoveToSpr == MoveToBat \/ \E v \in Sdr1Values : SetSDR1(v)

\* mtsr and mtsrin
MoveToSr == \E n \in Seg, v \in SegValues : SetSegmentReg(n, v)

Next ==
  \/ MoveToSpr
  \/ MoveToSr
  \/ Tlbie
  \/ \E v \in IrDrValues : SetIRDR(v[1], v[2])
  \/ \E p \in PteAddr :
       \/ \E w \in PtelValues : GuestWritesPtel(p, w)
       \/ \E w \in PtehValues : GuestWritesPteh(p, w)
  \/ \E a \in Requests : AccessHits(a)
  \/ \E a \in Requests : AccessWalks(a)

Spec == Init /\ [][Next]_vars
-----------------------------------------------------------------------------
(* Type correctness: registers, guest page table, micro-TLBs and results   *)
(* keep the shape the code's types give them.                              *)
TypeOK ==
  /\ ContextTypeOK
  /\ utlb \in [Side -> [BOOLEAN -> [Index -> Entry]]]
  /\ generation_count \in 0 .. GenWrap - 1
  /\ edited \in [Side -> SUBSET Page]
  /\ out \in Result

\* The translations a stale PTE copy may still answer: see ArchMMU!InDoubt.
Doubtful(s, priv, page) ==
  /\ page \in edited[s]
  /\ BatHits(s, priv, page) = {}
  /\ ~(s = "I" /\ SegOf(page).n)

LoadOf(s, priv, page) == [side |-> s, priv |-> priv, rnw |-> TRUE, page |-> page]

\* An entry made with translation on agrees with the tables as they are now.
AgreesWithTables(e, a) ==
  /\ TranslatedWalk(a).fault = "NONE"
  /\ e.frame = TranslatedWalk(a).frame
  /\ e.perms.r = TranslatedWalk(a).perms.r
  /\ e.perms.w = TranslatedWalk(a).perms.w
  /\ ByPage(a) => /\ pteh[PteFor(a.page)].r
                  /\ e.perms.clean \/ pteh[PteFor(a.page)].c
  /\ ~ByPage(a) => ~e.perms.clean

EntryCoherent(e, s, priv, i) ==
  e.valid =>
    /\ IndexOf(e.page) = i
    /\ ~e.tr => e.frame = e.page /\ e.perms = [r |-> TRUE, w |-> TRUE, clean |-> FALSE]
    /\ e.tr /\ ~Doubtful(s, priv, e.page) => AgreesWithTables(e, LoadOf(s, priv, e.page))

(* Every micro-TLB entry says what a walk of the current tables would say, *)
(* for the privilege and side it is filed under, whatever registers were   *)
(* rewritten since it was made; it lets a load through only if R is        *)
(* recorded, and a store only if C is.  Entries made with translation off  *)
(* are the identity and are never taken for translated ones.  About the    *)
(* invalidations in PPCMMU::set*, the TR tag and the "clean" permission.   *)
UtlbCoherent ==
  \A s \in Side, priv \in BOOLEAN, i \in Index :
    \A e \in {utlb[s][priv][i]} : EntryCoherent(e, s, priv, i)

(* translateAddr always finishes: the entry translateEA inserted is found  *)
(* by the lookup that follows (no FATAL), and one re-walk for a store      *)
(* clears the cleanliness fault, so the goto do_lookup loop runs at most   *)
(* once more.                                                              *)
AccessCompletes == out.fault \notin Broken

VirtualPage(page) == <<SegOf(page).vsid, PageIndex(page)>>

Sdr1Aligned == BitAnd(sdr1.phys, TableMask(sdr1)) = 0

(* One PTE never translates two different virtual pages: the probed PTEG,  *)
(* the H bit and the abbreviated page index together pin down the whole    *)
(* page index, at every table size (given SDR1 is aligned to its mask, as  *)
(* the architecture asks).  About the tag comparison in translateEA.       *)
WalkIsInjective ==
  Sdr1Aligned =>
    \A p, q \in Page : HasPte(p) /\ HasPte(q) /\ PteFor(p) = PteFor(q)
                         => VirtualPage(p) = VirtualPage(q)

(* The MMU sets Changed only for a store it goes on to allow: a faulting   *)
(* store or a load never dirties a page (update_c in translateEA).         *)
ChangedOnlyByStores ==
  [][\A a \in Requests : AccessHits(a) \/ AccessWalks(a) =>
       \A p \in PteAddr : pteh'[p].c # pteh[p].c =>
          ~a.rnw /\ out'.fault = "NONE" /\ pteh'[p] = [pteh[p] EXCEPT !.r = TRUE, !.c = TRUE]]_vars

\* Where an access lands, if it lands anywhere.
Mapping(a) == <<Walk(a).fault, Walk(a).frame>>

(* As long as generation_count stays, so does every mapping, unless the    *)
(* guest edits its page table or turns translation on or off: what the     *)
(* JIT's findBlock shortcut relies on (blocks are keyed by the MSR).       *)
GenerationCoversMappings ==
  [][UNCHANGED <<generation_count, enabled, ptel, pteh>>
       => \A a \in Requests : Mapping(a)' = Mapping(a)]_vars

Arch == INSTANCE ArchMMU

(* PPCMMU implements the MMU without micro-TLBs: apart from pages the guest*)
(* edited without a tlbie, every load, store and fetch faults or lands as  *)
(* a fresh walk would have it, and R and C are recorded as if every access *)
(* walked.                                                                 *)
ImplementsArch == Arch!Spec
=============================================================================
