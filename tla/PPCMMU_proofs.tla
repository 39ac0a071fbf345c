---------------------------- MODULE PPCMMU_proofs ----------------------------
(* Proofs about PPCMMU, for every size and every request set. *)
EXTENDS PPCMMU, WellFoundedInduction, TLAPS
-----------------------------------------------------------------------------
(* Operators *)

\* A non-empty set of naturals has a least element: the BAT and the PTE slot
\* that matchBAT and translateEA stop at exist.
LEMMA MinIsMember ==
  ASSUME NEW S \in SUBSET Nat, S # {}
  PROVE  Min(S) \in S
<1> DEFINE LessThan == {ss \in Nat \X Nat : ss[1] < ss[2]}
<1>1. IsWellFoundedOn(LessThan, Nat)
  <2>1. LessThan = OpToRel(<, Nat)
    BY DEF OpToRel
  <2>2. QED
    BY ONLY <2>1, NatLessThanWellFounded
<1>2. PICK x \in S : \A y \in S : ~(<<y, x>> \in LessThan)
  <2> HIDE DEF LessThan
  <2> QED BY <1>1, WFMin
<1>3. ASSUME NEW y \in S
      PROVE  x =< y
  <2>1. x \in Nat /\ y \in Nat
    OBVIOUS
  <2>2. y < x => <<y, x>> \in LessThan
    BY <2>1
  <2>3. ~(y < x)
    BY <1>2, <2>2
  <2>4. QED
    BY <2>1, <2>3
<1>4. QED
  BY <1>3 DEF Min

\* Page arithmetic: micro-TLB index, segment number and page index are in range.
LEMMA PageArithmetic ==
  ASSUME NEW p \in Page
  PROVE  /\ IndexOf(p) \in Index
         /\ p \div SegPages \in Seg
         /\ PageIndex(p) \in 0 .. SegPages - 1
<1>1. p \in Nat /\ p < NrSegs * SegPages
  BY SizesAssumption DEF Page
<1>2. IndexOf(p) \in Index
  BY <1>1, MMUAssumption DEF IndexOf, Index
<1>3. PageIndex(p) \in 0 .. SegPages - 1
  BY <1>1, SizesAssumption DEF PageIndex
<1>4. p \div SegPages \in Seg
  BY <1>1, SizesAssumption DEF Seg
<1>5. QED
  BY <1>2, <1>3, <1>4

\* The probed PTEG lies in the memory the model has.
LEMMA PtegInMemory ==
  ASSUME ContextTypeOK, NEW p \in Page, NEW h \in BOOLEAN
  PROVE  PtegOf(p, h) \in Pteg
<1> DEFINE hashed == BitAnd(Hash(SegOf(p).vsid, PageIndex(p)), TableMask(sdr1))
<1>1. SegOf(p) \in SegReg
  BY PageArithmetic DEF ContextTypeOK, SegOf
<1>2. sdr1 \in Sdr1 /\ TableMask(sdr1) \in Nat
  <2>1. sdr1 \in Sdr1 /\ sdr1.mask \in Nat /\ ApiPages \in Nat \ {0}
    BY SizesAssumption DEF ContextTypeOK, Sdr1
  <2>2. sdr1.mask * ApiPages \in Nat
    BY <2>1
  <2>3. QED
    BY <2>1, <2>2 DEF TableMask
<1>3. hashed \in 0 .. TableMask(sdr1)
  BY <1>1, <1>2, BitsAssumption, PageArithmetic DEF SegReg
<1>4. (IF h THEN TableMask(sdr1) - hashed ELSE hashed) \in 0 .. TableMask(sdr1)
  BY <1>2, <1>3
<1>5. QED
  BY <1>2, <1>4, BitsAssumption DEF PtegOf

\* A walk that finds a PTE stops at one that exists and matches.
LEMMA PteForIsMatching ==
  ASSUME ContextTypeOK, NEW p \in Page, HasPte(p)
  PROVE  /\ PteFor(p) \in PteAddr
         /\ pteh[PteFor(p)] \in PteH
<1> DEFINE h == Matching(p, FALSE) = {}
<1>1. h \in BOOLEAN /\ Matching(p, h) # {}
  BY DEF HasPte
<1>2. Matching(p, h) \in SUBSET Nat /\ Matching(p, h) \subseteq Slot
  <2>1. Slot \subseteq Nat
    BY SizesAssumption DEF Slot
  <2>2. Matching(p, h) \subseteq Slot
    BY DEF Matching
  <2>3. QED
    BY <2>1, <2>2
<1>3. Min(Matching(p, h)) \in Slot
  BY <1>1, <1>2, MinIsMember
<1>4. PteFor(p) \in PteAddr
  BY <1>1, <1>3, PtegInMemory DEF PteFor, PteAddr
<1>5. QED
  BY <1>4 DEF ContextTypeOK

\* The frame a failed translation is given, 0, is a page.
LEMMA FrameZero == 0 \in Page
BY SizesAssumption DEF Page

\* A BAT hit yields a page.
LEMMA BatWalkType ==
  ASSUME ContextTypeOK, NEW a \in Access, BatHits(a.side, a.priv, a.page) # {}
  PROVE  BatWalk(a) \in [fault : Fault, frame : Page, perms : Perms]
<1> DEFINE i == Min(BatHits(a.side, a.priv, a.page))
           b == bat[a.side][i]
<1>1. i \in BatIx
  BY MinIsMember, SizesAssumption DEF BatHits, BatIx
<1>2. b \in [up : BatUpper, lo : BatLower] /\ a.page \in Page
  BY <1>1 DEF ContextTypeOK, Access
<1>3. BlockSize(b.up) \in Nat \ {0}
  BY <1>2, SizesAssumption DEF BlockSize, BatUpper
<1>4. a.page % BlockSize(b.up) \in Page
  BY <1>2, <1>3, SizesAssumption DEF Page
<1>5. BatPage(b, a.page) \in Page
  BY <1>2, <1>4, BitsAssumption DEF BatPage, BatLower
<1>6. QED
  BY <1>2, <1>5, FrameZero DEF BatWalk, NoWalk, Fault, Perms

\* Recording R and C keeps the rest of the PTE.
LEMMA ReferencedChangedType ==
  ASSUME NEW word \in PteH, NEW a
  PROVE  LET new == ReferencedChanged(word, a)
         IN  /\ new \in PteH
             /\ new.rpn = word.rpn /\ new.pp = word.pp /\ new.r
             /\ word.c => new.c
BY DEF ReferencedChanged, PteH

\* A walk gives a fault or a page with permissions, and what it writes back to
\* a PTE is a PTE.
LEMMA WalkType ==
  ASSUME ContextTypeOK, NEW a \in Access
  PROVE  /\ TranslatedWalk(a) \in [fault : Fault, frame : Page, perms : Perms]
         /\ Walk(a) \in [fault : Fault, frame : Page, perms : Perms]
         /\ WalkedPteh(a) \in [PteAddr -> PteH]
<1>0. a.page \in Page /\ a.side \in Side
  BY DEF Access
<1>1. TranslatedWalk(a) \in [fault : Fault, frame : Page, perms : Perms]
  <2>1. CASE BatHits(a.side, a.priv, a.page) # {}
    BY <2>1, BatWalkType DEF TranslatedWalk, ByPage
  <2>2. CASE ByPage(a)
    <3>1. pteh[PteFor(a.page)] \in PteH
      BY <1>0, <2>2, PteForIsMatching DEF ByPage
    <3>2. PageWalk(a, pteh[PteFor(a.page)]) \in [fault : Fault, frame : Page, perms : Perms]
      <4>1. Key(a.page, a.priv) \in BOOLEAN
        BY <1>0, PageArithmetic DEF Key, SegOf, ContextTypeOK, SegReg
      <4>2. /\ PageReadable(Key(a.page, a.priv), pteh[PteFor(a.page)].pp) \in BOOLEAN
            /\ PageWritable(Key(a.page, a.priv), pteh[PteFor(a.page)].pp) \in BOOLEAN
        BY <4>1 DEF PageReadable, PageWritable
      <4>3. QED
        BY <3>1, <4>2 DEF PageWalk, Fault, Perms, PteH
    <3>3. QED
      BY <2>2, <3>2 DEF TranslatedWalk, ByPage
  <2>3. CASE BatHits(a.side, a.priv, a.page) = {} /\ ~ByPage(a)
    BY <2>3, FrameZero DEF TranslatedWalk, NoWalk, Fault, Perms
  <2>4. QED
    BY <2>1, <2>2, <2>3
<1>2. Walk(a) \in [fault : Fault, frame : Page, perms : Perms]
  BY <1>0, <1>1 DEF Walk, RealWalk, Fault, Perms
<1>3. WalkedPteh(a) \in [PteAddr -> PteH]
  <2>1. CASE enabled[a.side] /\ ByPage(a)
    <3>1. PteFor(a.page) \in PteAddr /\ pteh[PteFor(a.page)] \in PteH
      BY <1>0, <2>1, PteForIsMatching DEF ByPage
    <3>2. ReferencedChanged(pteh[PteFor(a.page)], a) \in PteH
      BY <3>1, ReferencedChangedType
    <3>3. QED
      BY <2>1, <3>1, <3>2 DEF WalkedPteh, ContextTypeOK
  <2>2. CASE ~(enabled[a.side] /\ ByPage(a))
    BY <2>2 DEF WalkedPteh, ContextTypeOK
  <2>3. QED
    BY <2>1, <2>2
<1>4. QED
  BY <1>1, <1>2, <1>3
-----------------------------------------------------------------------------
(* Type correctness *)

\* An emptied micro-TLB (iutlbInv, dutlbInv) is well typed.
LEMMA EmptyUtlbType == EmptyUtlb \in [BOOLEAN -> [Index -> Entry]]
<1>1. Empty \in Entry
  BY FrameZero DEF Empty, Entry, Perms
<1>2. QED
  BY <1>1 DEF EmptyUtlb

\* Emptying either side keeps both micro-TLBs well typed.
LEMMA InvalidateType ==
  ASSUME TypeOK, NEW sides \in SUBSET Side, Invalidate(sides)
  PROVE  /\ utlb' \in [Side -> [BOOLEAN -> [Index -> Entry]]]
         /\ generation_count' \in 0 .. GenWrap - 1
         /\ edited' \in [Side -> SUBSET Page]
         /\ out' \in Result
<1>1. utlb' \in [Side -> [BOOLEAN -> [Index -> Entry]]]
  BY EmptyUtlbType DEF Invalidate, TypeOK
<1>2. generation_count' \in 0 .. GenWrap - 1
  BY MMUAssumption DEF Invalidate, TypeOK
<1>3. edited' \in [Side -> SUBSET Page]
  BY DEF Invalidate, TypeOK
<1>4. out' \in Result
  BY FrameZero DEF Invalidate, Done, Result, Fault
<1>5. QED
  BY <1>1, <1>2, <1>3, <1>4

\* What a micro-TLB lookup answers.
LEMMA AnswerType ==
  ASSUME NEW e \in Entry, NEW a
  PROVE  Answer(e, a) \in [fault : {"NONE", "PERMS"}, frame : Page]
BY FrameZero DEF Answer, Failed, Entry

\* The entry an insertion leaves behind, and the entries it leaves alone.
LEMMA InsertEntries ==
  ASSUME TypeOK, NEW a \in Access, NEW w \in [fault : Fault, frame : Page, perms : Perms]
  PROVE  LET u == UtlbInsert(utlb, a, w)
             new == [valid |-> TRUE, tr |-> enabled[a.side], page |-> a.page,
                     frame |-> w.frame, perms |-> w.perms]
         IN  /\ new \in Entry
             /\ EntryFor(u, a) = new
             /\ u \in [Side -> [BOOLEAN -> [Index -> Entry]]]
             /\ \A s \in Side, priv \in BOOLEAN, i \in Index :
                  <<s, priv, i>> # <<a.side, a.priv, IndexOf(a.page)>>
                    => u[s][priv][i] = utlb[s][priv][i]
<1> DEFINE u == UtlbInsert(utlb, a, w)
           new == [valid |-> TRUE, tr |-> enabled[a.side], page |-> a.page,
                   frame |-> w.frame, perms |-> w.perms]
<1>1. a.side \in Side /\ a.priv \in BOOLEAN /\ a.page \in Page /\ IndexOf(a.page) \in Index
  BY PageArithmetic DEF Access
<1>2. new \in Entry
  BY <1>1 DEF Entry, TypeOK, ContextTypeOK
<1>3. utlb \in [Side -> [BOOLEAN -> [Index -> Entry]]]
  BY DEF TypeOK
<1>4. u = [utlb EXCEPT ![a.side][a.priv][IndexOf(a.page)] = new]
  BY DEF UtlbInsert
<1> HIDE DEF new, u
<1>5. u \in [Side -> [BOOLEAN -> [Index -> Entry]]]
  BY <1>1, <1>2, <1>3, <1>4
<1>6. u[a.side][a.priv][IndexOf(a.page)] = new
  BY <1>1, <1>3, <1>4
<1>7. ASSUME NEW s \in Side, NEW priv \in BOOLEAN, NEW i \in Index,
             <<s, priv, i>> # <<a.side, a.priv, IndexOf(a.page)>>
      PROVE  u[s][priv][i] = utlb[s][priv][i]
  BY <1>1, <1>3, <1>4, <1>7
<1>8. QED
  BY <1>2, <1>5, <1>6, <1>7 DEF EntryFor, new, u

\* The constructor leaves a well-typed state.
LEMMA InitType == Init => TypeOK
<1> SUFFICES ASSUME Init PROVE TypeOK
  OBVIOUS
<1>1. ContextTypeOK
  BY MMUAssumption DEF Init, ContextTypeOK
<1>2. utlb \in [Side -> [BOOLEAN -> [Index -> Entry]]]
  BY EmptyUtlbType DEF Init
<1>3. generation_count \in 0 .. GenWrap - 1
  BY MMUAssumption DEF Init
<1>4. edited \in [Side -> SUBSET Page] /\ out \in Result
  BY FrameZero DEF Init, Done, Result, Fault
<1>5. QED
  BY <1>1, <1>2, <1>3, <1>4 DEF TypeOK

\* Every setter, access and guest store keeps the state well typed.
LEMMA NextType == TypeOK /\ [Next]_vars => TypeOK'
<1> SUFFICES ASSUME TypeOK, [Next]_vars
             PROVE  TypeOK'
  OBVIOUS
<1>1. ASSUME NEW v \in Sdr1Values, SetSDR1(v)
      PROVE  TypeOK'
  <2>1. ContextTypeOK'
    BY <1>1, MMUAssumption DEF SetSDR1, TypeOK, ContextTypeOK
  <2>2. QED
    BY <1>1, <2>1, InvalidateType DEF SetSDR1, TypeOK
<1>2. ASSUME NEW s \in Side, NEW i \in BatIx, NEW u \in BatUppers, SetBatUpper(s, i, u)
      PROVE  TypeOK'
  <2>1. u \in BatUpper
    BY MMUAssumption
  <2>2. bat' \in [Side -> [BatIx -> [up : BatUpper, lo : BatLower]]]
    <3> DEFINE Bat == [up : BatUpper, lo : BatLower]
               b == [bat[s][i] EXCEPT !.up = u]
    <3>1. bat \in [Side -> [BatIx -> Bat]]
      BY DEF TypeOK, ContextTypeOK
    <3>2. b \in Bat
      BY <2>1, <3>1
    <3>3. bat' = [bat EXCEPT ![s] = [bat[s] EXCEPT ![i] = b]]
      BY <1>2 DEF SetBatUpper
    <3>4. [bat[s] EXCEPT ![i] = b] \in [BatIx -> Bat]
      <4> HIDE DEF Bat, b
      <4> QED BY <3>1, <3>2
    <3>5. QED
      <4> HIDE DEF Bat, b
      <4>1. bat' \in [Side -> [BatIx -> Bat]]
        BY <3>1, <3>3, <3>4
      <4>2. QED
        BY <4>1 DEF Bat
  <2>3. ContextTypeOK'
    BY <1>2, <2>2 DEF SetBatUpper, TypeOK, ContextTypeOK
  <2>4. QED
    BY <1>2, <2>3, InvalidateType DEF SetBatUpper, TypeOK
<1>3. ASSUME NEW s \in Side, NEW i \in BatIx, NEW l \in BatLowers, SetBatLower(s, i, l)
      PROVE  TypeOK'
  <2>1. l \in BatLower
    BY MMUAssumption
  <2>2. bat' \in [Side -> [BatIx -> [up : BatUpper, lo : BatLower]]]
    <3> DEFINE Bat == [up : BatUpper, lo : BatLower]
               b == [bat[s][i] EXCEPT !.lo = l]
    <3>1. bat \in [Side -> [BatIx -> Bat]]
      BY DEF TypeOK, ContextTypeOK
    <3>2. b \in Bat
      BY <2>1, <3>1
    <3>3. bat' = [bat EXCEPT ![s] = [bat[s] EXCEPT ![i] = b]]
      BY <1>3 DEF SetBatLower
    <3>4. [bat[s] EXCEPT ![i] = b] \in [BatIx -> Bat]
      <4> HIDE DEF Bat, b
      <4> QED BY <3>1, <3>2
    <3>5. QED
      <4> HIDE DEF Bat, b
      <4>1. bat' \in [Side -> [BatIx -> Bat]]
        BY <3>1, <3>3, <3>4
      <4>2. QED
        BY <4>1 DEF Bat
  <2>3. ContextTypeOK'
    BY <1>3, <2>2 DEF SetBatLower, TypeOK, ContextTypeOK
  <2>4. QED
    BY <1>3, <2>3, InvalidateType DEF SetBatLower, TypeOK
<1>4. ASSUME NEW n \in Seg, NEW v \in SegValues, SetSegmentReg(n, v)
      PROVE  TypeOK'
  <2>1. ContextTypeOK'
    BY <1>4, MMUAssumption DEF SetSegmentReg, TypeOK, ContextTypeOK
  <2>2. QED
    BY <1>4, <2>1, InvalidateType DEF SetSegmentReg, TypeOK
<1>5. CASE Tlbie
  <2>1. ContextTypeOK'
    BY <1>5 DEF Tlbie, TypeOK, ContextTypeOK, contextVars
  <2>2. QED
    BY <1>5, <2>1, InvalidateType DEF Tlbie, TypeOK
<1>6. ASSUME NEW v \in IrDrValues, SetIRDR(v[1], v[2])
      PROVE  TypeOK'
  <2>1. ContextTypeOK'
    BY <1>6, MMUAssumption DEF SetIRDR, TypeOK, ContextTypeOK
  <2>2. QED
    BY <1>6, <2>1, FrameZero DEF SetIRDR, TypeOK, Done, Result, Fault
<1>7. ASSUME NoteEdits
      PROVE  /\ edited' \in [Side -> SUBSET Page] /\ out' \in Result
             /\ UNCHANGED <<utlb, generation_count>>
  <2>1. edited' \in [Side -> SUBSET Page]
    BY <1>7 DEF NoteEdits, TypeOK
  <2>2. QED
    BY <1>7, <2>1, FrameZero DEF NoteEdits, Done, Result, Fault
<1>8. ASSUME NEW p \in PteAddr, NEW w \in PtelValues, GuestWritesPtel(p, w)
      PROVE  TypeOK'
  <2>1. ContextTypeOK'
    BY <1>8, MMUAssumption DEF GuestWritesPtel, NoteEdits, TypeOK, ContextTypeOK
  <2>2. QED
    BY <1>7, <1>8, <2>1 DEF GuestWritesPtel, TypeOK
<1>9. ASSUME NEW p \in PteAddr, NEW w \in PtehValues, GuestWritesPteh(p, w)
      PROVE  TypeOK'
  <2>1. ContextTypeOK'
    BY <1>9, MMUAssumption DEF GuestWritesPteh, NoteEdits, TypeOK, ContextTypeOK
  <2>2. QED
    BY <1>7, <1>9, <2>1 DEF GuestWritesPteh, TypeOK
<1>10. ASSUME NEW a \in Requests, AccessHits(a)
       PROVE  TypeOK'
  <2>1. EntryFor(utlb, a) \in Entry
    BY RequestsAssumption, PageArithmetic DEF EntryFor, TypeOK, Access
  <2>2. out' \in Result
    BY <1>10, <2>1, AnswerType DEF AccessHits, Result, Fault
  <2>3. QED
    BY <1>10, <2>2 DEF AccessHits, TypeOK, ContextTypeOK, contextVars
<1>11. ASSUME NEW a \in Requests, AccessWalks(a)
       PROVE  TypeOK'
  <2> DEFINE w == Walk(a)
             inserted == UtlbInsert(utlb, a, w)
  <2>1. a \in Access /\ w \in [fault : Fault, frame : Page, perms : Perms]
    BY RequestsAssumption, WalkType DEF TypeOK
  <2>2. /\ inserted \in [Side -> [BOOLEAN -> [Index -> Entry]]]
        /\ EntryFor(inserted, a) \in Entry
    BY <2>1, InsertEntries
  <2> HIDE DEF w, inserted
  <2>3. Answer(EntryFor(inserted, a), a) \in Result
    BY <2>2, AnswerType DEF Result, Fault
  <2>4. out' \in Result
    BY <1>11, <2>1, <2>3, FrameZero DEF AccessWalks, Result, Broken, Failed, w, inserted
  <2>5. utlb' \in [Side -> [BOOLEAN -> [Index -> Entry]]]
    BY <1>11, <2>2 DEF AccessWalks, TypeOK, w, inserted
  <2>6. ContextTypeOK'
    BY <1>11, <2>1, WalkType DEF AccessWalks, TypeOK, ContextTypeOK
  <2>7. QED
    BY <1>11, <2>4, <2>5, <2>6 DEF AccessWalks, TypeOK
<1>12. CASE UNCHANGED vars
  BY <1>12 DEF vars, contextVars, TypeOK, ContextTypeOK
<1>13. QED
  BY <1>1, <1>2, <1>3, <1>4, <1>5, <1>6, <1>8, <1>9, <1>10, <1>11, <1>12
     DEF Next, MoveToSpr, MoveToBat, MoveToSr

(* Every behaviour keeps registers, guest page table, micro-TLBs and       *)
(* results in the shape the code's types give them, at every size.         *)
THEOREM TypeCorrect == Spec => []TypeOK
<1>1. Init => TypeOK
  BY InitType
<1>2. TypeOK /\ [Next]_vars => TypeOK'
  BY NextType
<1>3. QED
  BY <1>1, <1>2, PTL DEF Spec
-----------------------------------------------------------------------------
(* Coherence of the micro-TLBs *)

\* What a walk reads besides the second words of the PTEs and MSR[IR,DR].
LEMMA WalkContext ==
  ASSUME NEW a, bat'[a.side] = bat[a.side], UNCHANGED <<segreg, sdr1, ptel>>
  PROVE  /\ BatHits(a.side, a.priv, a.page)' = BatHits(a.side, a.priv, a.page)
         /\ BatWalk(a)' = BatWalk(a)
         /\ SegOf(a.page)' = SegOf(a.page)
         /\ Key(a.page, a.priv)' = Key(a.page, a.priv)
         /\ HasPte(a.page)' = HasPte(a.page)
         /\ PteFor(a.page)' = PteFor(a.page)
         /\ ByPage(a)' = ByPage(a)
<1>1. BatHits(a.side, a.priv, a.page)' = BatHits(a.side, a.priv, a.page)
  BY DEF BatHits
<1>2. BatWalk(a)' = BatWalk(a)
  BY <1>1 DEF BatWalk
<1>3. SegOf(a.page)' = SegOf(a.page)
  BY DEF SegOf
<1>4. Key(a.page, a.priv)' = Key(a.page, a.priv)
  BY <1>3 DEF Key
<1>5. \A h : PtegOf(a.page, h)' = PtegOf(a.page, h)
  BY <1>3 DEF PtegOf
<1>6. \A h : Matching(a.page, h)' = Matching(a.page, h)
  BY <1>3, <1>5 DEF Matching, PteMatches
<1>7. HasPte(a.page)' = HasPte(a.page)
  <2>1. Matching(a.page, FALSE)' = Matching(a.page, FALSE)
    BY <1>6
  <2>2. Matching(a.page, TRUE)' = Matching(a.page, TRUE)
    BY <1>6
  <2>3. QED
    BY <2>1, <2>2 DEF HasPte
<1>8. PteFor(a.page)' = PteFor(a.page)
  BY <1>5, <1>6 DEF PteFor
<1>9. ByPage(a)' = ByPage(a)
  BY <1>1, <1>3, <1>7 DEF ByPage
<1>10. QED
  BY <1>1, <1>2, <1>3, <1>4, <1>7, <1>8, <1>9

\* With the same PTE behind it, a walk gives the same frame and permissions.
LEMMA SameWalk ==
  ASSUME NEW a, bat'[a.side] = bat[a.side], UNCHANGED <<segreg, sdr1, ptel>>,
         ByPage(a) => /\ pteh'[PteFor(a.page)].rpn = pteh[PteFor(a.page)].rpn
                      /\ pteh'[PteFor(a.page)].pp = pteh[PteFor(a.page)].pp
  PROVE  /\ TranslatedWalk(a)'.fault = TranslatedWalk(a).fault
         /\ TranslatedWalk(a)'.frame = TranslatedWalk(a).frame
         /\ TranslatedWalk(a)'.perms.r = TranslatedWalk(a).perms.r
         /\ TranslatedWalk(a)'.perms.w = TranslatedWalk(a).perms.w
<1>1. CASE BatHits(a.side, a.priv, a.page) # {}
  <2>1. TranslatedWalk(a) = BatWalk(a) /\ TranslatedWalk(a)' = BatWalk(a)'
    BY <1>1, WalkContext DEF TranslatedWalk, ByPage
  <2>2. QED
    BY <2>1, WalkContext
<1>2. CASE ByPage(a)
  <2>1. /\ TranslatedWalk(a) = PageWalk(a, pteh[PteFor(a.page)])
        /\ TranslatedWalk(a)' = PageWalk(a, pteh[PteFor(a.page)])'
    BY <1>2, WalkContext DEF TranslatedWalk, ByPage
  <2> DEFINE old == pteh[PteFor(a.page)]
             key == Key(a.page, a.priv)
  <2>2. old' = pteh'[PteFor(a.page)] /\ key' = key
    BY WalkContext
  <2>3. old'.rpn = old.rpn /\ old'.pp = old.pp
    BY <1>2, <2>2
  <2>4. /\ TranslatedWalk(a).fault = "NONE" /\ TranslatedWalk(a).frame = old.rpn
        /\ TranslatedWalk(a).perms.r = PageReadable(key, old.pp)
        /\ TranslatedWalk(a).perms.w = PageWritable(key, old.pp)
    BY <2>1 DEF PageWalk
  <2>5. /\ TranslatedWalk(a)'.fault = "NONE" /\ TranslatedWalk(a)'.frame = old'.rpn
        /\ TranslatedWalk(a)'.perms.r = PageReadable(key', old'.pp)
        /\ TranslatedWalk(a)'.perms.w = PageWritable(key', old'.pp)
    BY <2>1 DEF PageWalk
  <2> HIDE DEF old, key
  <2>6. QED
    BY <2>2, <2>3, <2>4, <2>5
<1>3. CASE BatHits(a.side, a.priv, a.page) = {} /\ ~ByPage(a)
  <2> DEFINE f == IF a.side = "I" /\ SegOf(a.page).n THEN "PERMS_NX" ELSE "NO_PAGE"
  <2>1. f' = f /\ BatHits(a.side, a.priv, a.page)' = {} /\ ~ByPage(a)'
    BY <1>3, WalkContext
  <2>2. TranslatedWalk(a) = NoWalk(f)
    BY <1>3 DEF TranslatedWalk
  <2>3. TranslatedWalk(a)' = NoWalk(f')
    BY <2>1 DEF TranslatedWalk
  <2>4. TranslatedWalk(a)' = TranslatedWalk(a)
    BY <2>1, <2>2, <2>3
  <2>5. QED
    BY <2>4
<1>4. QED
  BY <1>1, <1>2, <1>3

\* An entry that agreed still agrees while what its walk reads is unchanged.
LEMMA SameAgreement ==
  ASSUME NEW e, NEW a, bat'[a.side] = bat[a.side], UNCHANGED <<segreg, sdr1, ptel>>,
         ByPage(a) => /\ pteh'[PteFor(a.page)].rpn = pteh[PteFor(a.page)].rpn
                      /\ pteh'[PteFor(a.page)].pp = pteh[PteFor(a.page)].pp
                      /\ pteh[PteFor(a.page)].r => pteh'[PteFor(a.page)].r
                      /\ pteh[PteFor(a.page)].c => pteh'[PteFor(a.page)].c,
         AgreesWithTables(e, a)
  PROVE  AgreesWithTables(e, a)'
BY SameWalk, WalkContext DEF AgreesWithTables

\* Setters that empty the micro-TLBs of every side whose tables they change.
LEMMA InvalidateCoherent ==
  ASSUME TypeOK, UtlbCoherent, NEW sides \in SUBSET Side, Invalidate(sides),
         \A s \in Side \ sides : bat'[s] = bat[s],
         sides # Side => UNCHANGED <<segreg, sdr1, ptel, pteh>>
  PROVE  UtlbCoherent'
<1> SUFFICES ASSUME NEW s \in Side, NEW priv \in BOOLEAN, NEW i \in Index,
                    NEW e \in {utlb'[s][priv][i]}
             PROVE  EntryCoherent(e, s, priv, i)'
  BY DEF UtlbCoherent
<1>1. CASE s \in sides
  <2>1. e = Empty
    BY <1>1 DEF Invalidate, EmptyUtlb
  <2>2. QED
    BY <2>1 DEF EntryCoherent, Empty
<1>2. CASE s \notin sides
  <2> DEFINE a == LoadOf(s, priv, e.page)
  <2>1. EntryCoherent(e, s, priv, i)
    BY <1>2 DEF Invalidate, UtlbCoherent
  <2>2. /\ bat'[s] = bat[s] /\ UNCHANGED <<segreg, sdr1, ptel, pteh>>
        /\ edited'[s] = edited[s]
        /\ a.side = s /\ a.page = e.page /\ a.priv = priv
    BY <1>2 DEF Invalidate, LoadOf
  <2> HIDE DEF a
  <2>3. Doubtful(s, priv, e.page)' = Doubtful(s, priv, e.page)
    BY <2>2, WalkContext DEF Doubtful
  <2>4. AgreesWithTables(e, a) => AgreesWithTables(e, a)'
    BY <2>2, SameAgreement
  <2>5. QED
    BY <2>1, <2>3, <2>4 DEF EntryCoherent, a
<1>3. QED
  BY <1>1, <1>2

\* Editing the page table spoils no entry but those of the pages it notes.
LEMMA EditCoherent ==
  ASSUME TypeOK, UtlbCoherent, NoteEdits
  PROVE  UtlbCoherent'
<1> SUFFICES ASSUME NEW s \in Side, NEW priv \in BOOLEAN, NEW i \in Index,
                    NEW e \in {utlb'[s][priv][i]}, e.valid, e.tr,
                    ~Doubtful(s, priv, e.page)'
             PROVE  AgreesWithTables(e, LoadOf(s, priv, e.page))'
  BY DEF UtlbCoherent, EntryCoherent, NoteEdits
<1> DEFINE a == LoadOf(s, priv, e.page)
<1>1. /\ EntryCoherent(e, s, priv, i)
      /\ e.page \in Page
      /\ UNCHANGED <<bat, segreg, sdr1>>
      /\ edited'[s] = edited[s] \cup {pg \in Page : PteOf(pg)' # PteOf(pg)}
      /\ a.side = s /\ a.page = e.page /\ a.priv = priv
  BY DEF NoteEdits, UtlbCoherent, LoadOf, TypeOK, Entry
<1> HIDE DEF a
<1>2. /\ BatHits(s, priv, e.page)' = BatHits(s, priv, e.page)
      /\ BatWalk(a)' = BatWalk(a)
      /\ SegOf(e.page)' = SegOf(e.page)
  BY <1>1 DEF BatHits, BatWalk, SegOf
<1>3. ~Doubtful(s, priv, e.page)
  BY <1>1, <1>2 DEF Doubtful
<1>4. AgreesWithTables(e, a)
  BY <1>1, <1>3 DEF EntryCoherent, a
<1>5. CASE BatHits(s, priv, e.page) # {}
  <2>1. ~ByPage(a) /\ ~ByPage(a)'
    BY <1>1, <1>2, <1>5 DEF ByPage
  <2>2. TranslatedWalk(a)' = BatWalk(a)' /\ TranslatedWalk(a) = BatWalk(a)
    <3>1. BatHits(a.side, a.priv, a.page) # {} /\ BatHits(a.side, a.priv, a.page)' # {}
      BY <1>1, <1>2, <1>5
    <3>2. QED
      BY <3>1, <2>1 DEF TranslatedWalk
  <2>3. QED
    BY <1>2, <1>4, <2>1, <2>2 DEF AgreesWithTables, a
<1>6. CASE BatHits(s, priv, e.page) = {}
  <2>1. ~(s = "I" /\ SegOf(e.page).n)
    <3>1. CASE ByPage(a)
      BY <1>1, <3>1 DEF ByPage
    <3>2. CASE ~ByPage(a)
      BY <1>1, <1>4, <1>6, <3>2 DEF AgreesWithTables, TranslatedWalk, NoWalk
    <3>3. QED
      BY <3>1, <3>2
  <2>2. e.page \notin edited'[s]
    BY <1>2, <1>6, <2>1 DEF Doubtful
  <2>3. PteOf(e.page)' = PteOf(e.page)
    BY <1>1, <2>2
  <2>4. ByPage(a)
    BY <1>1, <1>4, <1>6 DEF AgreesWithTables, TranslatedWalk, NoWalk
  <2>5. HasPte(e.page) /\ HasPte(e.page)' /\ pteh'[PteFor(e.page)'] = pteh[PteFor(e.page)]
    BY <1>1, <2>3, <2>4 DEF PteOf, ByPage
  <2>6. ByPage(a)'
    BY <1>1, <1>2, <1>6, <2>1, <2>5 DEF ByPage
  <2>7. TranslatedWalk(a)' = TranslatedWalk(a)
    BY <1>1, <1>2, <2>4, <2>5, <2>6 DEF TranslatedWalk, ByPage, PageWalk, ReferencedChanged, Key
  <2>8. QED
    BY <1>1, <1>4, <2>4, <2>5, <2>6, <2>7 DEF AgreesWithTables, a
<1>7. QED
  BY <1>5, <1>6 DEF a

\* Recording R and C for one access keeps every entry in agreement.
LEMMA RecordingKeepsAgreement ==
  ASSUME TypeOK, NEW a \in Access, pteh' = WalkedPteh(a),
         UNCHANGED <<bat, segreg, sdr1, ptel>>,
         NEW e, NEW b \in Access, AgreesWithTables(e, b)
  PROVE  AgreesWithTables(e, b)'
<1>1. ASSUME ByPage(b)
      PROVE  /\ pteh'[PteFor(b.page)].rpn = pteh[PteFor(b.page)].rpn
             /\ pteh'[PteFor(b.page)].pp = pteh[PteFor(b.page)].pp
             /\ pteh[PteFor(b.page)].r => pteh'[PteFor(b.page)].r
             /\ pteh[PteFor(b.page)].c => pteh'[PteFor(b.page)].c
  <2>1. PteFor(b.page) \in PteAddr /\ pteh[PteFor(b.page)] \in PteH
    BY <1>1, PteForIsMatching DEF ByPage, Access, TypeOK
  <2>2. \/ pteh'[PteFor(b.page)] = pteh[PteFor(b.page)]
        \/ pteh'[PteFor(b.page)] = ReferencedChanged(pteh[PteFor(b.page)], a)
    BY <2>1 DEF WalkedPteh, TypeOK, ContextTypeOK
  <2>3. QED
    BY <2>1, <2>2, ReferencedChangedType
<1>2. bat'[b.side] = bat[b.side]
  OBVIOUS
<1>3. QED
  BY <1>1, <1>2, SameAgreement

\* The entry made by a walk agrees with the tables the walk leaves behind.
LEMMA InsertedAgrees ==
  ASSUME TypeOK, NEW a \in Access, enabled[a.side], Walk(a).fault = "NONE",
         pteh' = WalkedPteh(a), UNCHANGED <<bat, segreg, sdr1, ptel>>,
         NEW e, e.frame = Walk(a).frame, e.perms = Walk(a).perms
  PROVE  AgreesWithTables(e, LoadOf(a.side, a.priv, a.page))'
<1> DEFINE b == LoadOf(a.side, a.priv, a.page)
<1>1. /\ b.side = a.side /\ b.priv = a.priv /\ b.page = a.page /\ b \in Access
      /\ a.page \in Page /\ Walk(a) = TranslatedWalk(a)
  BY DEF LoadOf, Access, Walk
<1> HIDE DEF b
<1>2. /\ bat'[a.side] = bat[a.side] /\ bat'[b.side] = bat[b.side]
      /\ ByPage(b)' = ByPage(a) /\ PteFor(b.page)' = PteFor(a.page)
  BY <1>1, WalkContext DEF ByPage
<1>3. CASE BatHits(a.side, a.priv, a.page) # {}
  <2>1. ~ByPage(a) /\ TranslatedWalk(a) = BatWalk(a)
    BY <1>3 DEF ByPage, TranslatedWalk
  <2>2. BatWalk(b) = BatWalk(a) /\ BatWalk(b)' = BatWalk(b)
    <3>1. BatWalk(b) = BatWalk(a)
      BY <1>1 DEF BatWalk
    <3>2. BatWalk(b)' = BatWalk(b)
      BY <1>2, WalkContext
    <3>3. QED
      BY <3>1, <3>2
  <2>3. TranslatedWalk(b)' = BatWalk(b)'
    <3>1. BatHits(b.side, b.priv, b.page)' # {}
      BY <1>1, <1>2, <1>3, WalkContext
    <3>2. QED
      BY <3>1 DEF TranslatedWalk, ByPage
  <2>4. ~BatWalk(a).perms.clean
    BY DEF BatWalk, NoWalk
  <2>5. QED
    BY <1>1, <1>2, <2>1, <2>2, <2>3, <2>4 DEF AgreesWithTables, b
<1>4. CASE BatHits(a.side, a.priv, a.page) = {}
  <2> DEFINE P == PteFor(a.page)
             key == Key(a.page, a.priv)
  <2>1. ByPage(a)
    BY <1>1, <1>4 DEF TranslatedWalk, NoWalk
  <2>2. P \in PteAddr /\ pteh[P] \in PteH
    BY <1>1, <2>1, PteForIsMatching DEF ByPage, TypeOK
  <2>3. pteh'[P] = ReferencedChanged(pteh[P], a)
    BY <2>1, <2>2 DEF WalkedPteh, TypeOK, ContextTypeOK
  <2>4. pteh'[P].r /\ pteh'[P].rpn = pteh[P].rpn /\ pteh'[P].pp = pteh[P].pp
    BY <2>2, <2>3, ReferencedChangedType
  <2>5. TranslatedWalk(a) = PageWalk(a, pteh[P])
    BY <2>1 DEF TranslatedWalk, ByPage
  <2>6. /\ e.frame = pteh'[P].rpn
        /\ e.perms.r = PageReadable(key, pteh'[P].pp)
        /\ e.perms.w = PageWritable(key, pteh'[P].pp)
        /\ e.perms.clean = ~pteh'[P].c
    BY <1>1, <2>3, <2>4, <2>5 DEF PageWalk
  <2>7. key' = key /\ Key(b.page, b.priv)' = key /\ PteFor(b.page)' = P /\ ByPage(b)'
    BY <1>1, <1>2, <2>1, WalkContext
  <2>8. TranslatedWalk(b)' = PageWalk(b, pteh[PteFor(b.page)])'
    BY <2>7 DEF TranslatedWalk, ByPage
  <2>9. /\ TranslatedWalk(b)'.fault = "NONE"
        /\ TranslatedWalk(b)'.frame = pteh'[P].rpn
        /\ TranslatedWalk(b)'.perms.r = PageReadable(key, pteh'[P].pp)
        /\ TranslatedWalk(b)'.perms.w = PageWritable(key, pteh'[P].pp)
    BY <2>7, <2>8 DEF PageWalk
  <2> HIDE DEF P, key
  <2>10. QED
    BY <2>4, <2>6, <2>7, <2>9 DEF AgreesWithTables, b
<1>5. QED
  BY <1>3, <1>4 DEF b

\* An access that walks, inserts and records R and C keeps the micro-TLBs
\* coherent.
LEMMA WalkCoherent ==
  ASSUME TypeOK, UtlbCoherent, NEW a \in Access, AccessWalks(a)
  PROVE  UtlbCoherent'
<1> DEFINE w == Walk(a)
           inserted == UtlbInsert(utlb, a, w)
<1>0. /\ pteh' = WalkedPteh(a) /\ UNCHANGED <<enabled, bat, segreg, sdr1, ptel, edited>>
      /\ utlb' = IF w.fault = "NONE" THEN inserted ELSE utlb
  BY DEF AccessWalks
<1>1. w \in [fault : Fault, frame : Page, perms : Perms]
  BY WalkType DEF TypeOK
<1>2. SUFFICES ASSUME NEW s \in Side, NEW priv \in BOOLEAN, NEW i \in Index,
                      NEW e \in {utlb'[s][priv][i]}
               PROVE  EntryCoherent(e, s, priv, i)'
  BY DEF UtlbCoherent
<1>3. CASE e = utlb[s][priv][i]
  <2>1. EntryCoherent(e, s, priv, i) /\ e \in Entry
    BY <1>3 DEF UtlbCoherent, TypeOK
  <2> DEFINE b == LoadOf(s, priv, e.page)
  <2>2. b \in Access /\ b.side = s /\ b.priv = priv /\ b.page = e.page
    BY <2>1 DEF LoadOf, Access, Entry
  <2> HIDE DEF b
  <2>3. Doubtful(s, priv, e.page)' = Doubtful(s, priv, e.page)
    BY <1>0 DEF Doubtful, BatHits, SegOf
  <2>4. AgreesWithTables(e, b) => AgreesWithTables(e, b)'
    BY <1>0, <2>2, RecordingKeepsAgreement
  <2>5. QED
    BY <2>1, <2>3, <2>4 DEF EntryCoherent, b
<1>4. CASE e # utlb[s][priv][i]
  <2>1. w.fault = "NONE" /\ utlb' = inserted
    BY <1>0, <1>4
  <2> HIDE DEF w, inserted
  <2> DEFINE new == [valid |-> TRUE, tr |-> enabled[a.side], page |-> a.page,
                     frame |-> w.frame, perms |-> w.perms]
  <2>2. /\ inserted[a.side][a.priv][IndexOf(a.page)] = new
        /\ \A t \in Side, q \in BOOLEAN, j \in Index :
             <<t, q, j>> # <<a.side, a.priv, IndexOf(a.page)>>
               => inserted[t][q][j] = utlb[t][q][j]
    BY <1>1, InsertEntries DEF EntryFor, inserted
  <2>3. e = inserted[s][priv][i]
    BY <2>1
  <2>4. s = a.side /\ priv = a.priv /\ i = IndexOf(a.page)
    BY <1>4, <2>2, <2>3
  <2>5. e = new
    BY <2>2, <2>3, <2>4
  <2>6. CASE enabled[a.side]
    <3>1. AgreesWithTables(e, LoadOf(a.side, a.priv, a.page))'
      BY <1>0, <2>1, <2>5, <2>6, InsertedAgrees DEF w
    <3>2. QED
      BY <2>4, <2>5, <2>6, <3>1 DEF EntryCoherent
  <2>7. CASE ~enabled[a.side]
    <3>1. enabled[a.side] = FALSE /\ w = RealWalk(a)
      BY <2>7 DEF w, Walk, TypeOK, ContextTypeOK, Access
    <3>2. e.page = a.page /\ e.frame = a.page /\ ~e.tr
          /\ e.perms = [r |-> TRUE, w |-> TRUE, clean |-> FALSE]
      BY <2>5, <3>1 DEF RealWalk
    <3>3. QED
      BY <2>4, <3>2 DEF EntryCoherent
  <2>8. QED
    BY <2>6, <2>7
<1>5. QED
  BY <1>3, <1>4

\* Empty micro-TLBs are coherent.
LEMMA InitCoherent == Init => UtlbCoherent
<1> SUFFICES ASSUME Init, NEW s \in Side, NEW priv \in BOOLEAN, NEW i \in Index,
                    NEW e \in {utlb[s][priv][i]}
             PROVE  EntryCoherent(e, s, priv, i)
  BY DEF UtlbCoherent
<1>1. e = Empty
  BY DEF Init, EmptyUtlb
<1>2. QED
  BY <1>1 DEF EntryCoherent, Empty

\* Every setter, access and guest store keeps the micro-TLBs coherent.
LEMMA NextCoherent == TypeOK /\ UtlbCoherent /\ [Next]_vars => UtlbCoherent'
<1> SUFFICES ASSUME TypeOK, UtlbCoherent, [Next]_vars
             PROVE  UtlbCoherent'
  OBVIOUS
<1>1. ASSUME NEW v \in Sdr1Values, SetSDR1(v)
      PROVE  UtlbCoherent'
  BY <1>1, InvalidateCoherent DEF SetSDR1
<1>2. ASSUME NEW s \in Side, NEW i \in BatIx, NEW u, SetBatUpper(s, i, u) \/ SetBatLower(s, i, u)
      PROVE  UtlbCoherent'
  <2>1. \A t \in Side \ {s} : bat'[t] = bat[t]
    BY <1>2 DEF SetBatUpper, SetBatLower, TypeOK, ContextTypeOK
  <2>2. Invalidate({s}) /\ UNCHANGED <<segreg, sdr1, ptel, pteh>>
    BY <1>2 DEF SetBatUpper, SetBatLower
  <2>3. QED
    BY <2>1, <2>2, InvalidateCoherent
<1>3. ASSUME NEW n \in Seg, NEW v \in SegValues, SetSegmentReg(n, v)
      PROVE  UtlbCoherent'
  BY <1>3, InvalidateCoherent DEF SetSegmentReg
<1>4. CASE Tlbie
  BY <1>4, InvalidateCoherent DEF Tlbie
<1>5. ASSUME UNCHANGED <<bat, segreg, sdr1, ptel, pteh, utlb, edited>>
      PROVE  UtlbCoherent'
  <2> SUFFICES ASSUME NEW s \in Side, NEW priv \in BOOLEAN, NEW i \in Index,
                      NEW e \in {utlb[s][priv][i]}
               PROVE  EntryCoherent(e, s, priv, i)'
    BY <1>5 DEF UtlbCoherent
  <2>1. Doubtful(s, priv, e.page)' = Doubtful(s, priv, e.page)
    BY <1>5 DEF Doubtful, BatHits, SegOf
  <2>2. AgreesWithTables(e, LoadOf(s, priv, e.page)) => AgreesWithTables(e, LoadOf(s, priv, e.page))'
    BY <1>5, SameAgreement
  <2>3. QED
    BY <2>1, <2>2 DEF UtlbCoherent, EntryCoherent
<1>6. ASSUME NEW v \in IrDrValues, SetIRDR(v[1], v[2])
      PROVE  UtlbCoherent'
  BY <1>5, <1>6 DEF SetIRDR
<1>7. ASSUME NEW p, NEW x, GuestWritesPtel(p, x) \/ GuestWritesPteh(p, x)
      PROVE  UtlbCoherent'
  BY <1>7, EditCoherent DEF GuestWritesPtel, GuestWritesPteh
<1>8. ASSUME NEW a \in Requests, AccessHits(a)
      PROVE  UtlbCoherent'
  BY <1>5, <1>8 DEF AccessHits, contextVars
<1>9. ASSUME NEW a \in Requests, AccessWalks(a)
      PROVE  UtlbCoherent'
  BY <1>9, WalkCoherent, RequestsAssumption
<1>10. CASE UNCHANGED vars
  BY <1>5, <1>10 DEF vars, contextVars
<1>11. QED
  BY <1>1, <1>2, <1>3, <1>4, <1>6, <1>7, <1>8, <1>9, <1>10
     DEF Next, MoveToSpr, MoveToBat, MoveToSr

(* The micro-TLBs never hold a translation that the current registers and  *)
(* page table would not give, whatever the guest writes and in whatever    *)
(* order, save for pages whose PTE it edited and did not invalidate.       *)
THEOREM UtlbsStayCoherent == Spec => []UtlbCoherent
<1>1. Init => TypeOK /\ UtlbCoherent
  BY InitType, InitCoherent
<1>2. TypeOK /\ UtlbCoherent /\ [Next]_vars => TypeOK' /\ UtlbCoherent'
  BY NextType, NextCoherent
<1>3. QED
  BY <1>1, <1>2, PTL DEF Spec
-----------------------------------------------------------------------------
(* What an access returns *)

\* ArchMMU's copy of PPCWalk, over the same constants and variables, is PPCWalk.
LEMMA ArchTypes ==
  /\ Arch!Side = Side /\ Arch!Page = Page /\ Arch!Seg = Seg /\ Arch!BatIx = BatIx
  /\ Arch!Fault = Fault /\ Arch!PteAddr = PteAddr /\ Arch!Sdr1 = Sdr1 /\ Arch!SegReg = SegReg
  /\ Arch!BatUpper = BatUpper /\ Arch!BatLower = BatLower
BY DEF Arch!Side, Side, Arch!Page, Page, Arch!Seg, Seg, Arch!BatIx, BatIx, Arch!Fault, Fault,
   Arch!PteAddr, PteAddr, Arch!Pteg, Pteg, Arch!Slot, Slot, Arch!Sdr1, Sdr1, Arch!SegReg, SegReg,
   Arch!Vsid, Vsid, Arch!BatUpper, BatUpper, Arch!BatLower, BatLower, Arch!PP, PP

LEMMA ArchMin == \A S : Arch!Min(S) = Min(S)
BY DEF Arch!Min, Min

LEMMA ArchTables ==
  /\ \A page : Arch!HasPte(page) = HasPte(page) /\ Arch!PteFor(page) = PteFor(page)
               /\ Arch!SegOf(page) = SegOf(page)
  /\ \A side, priv, page : Arch!BatHits(side, priv, page) = BatHits(side, priv, page)
  /\ \A page, priv : Arch!Key(page, priv) = Key(page, priv)
<1>1. \A page : Arch!SegOf(page) = SegOf(page) /\ Arch!PageIndex(page) = PageIndex(page)
  BY DEF Arch!SegOf, SegOf, Arch!PageIndex, PageIndex
<1>2. \A s : Arch!TableMask(s) = TableMask(s)
  BY DEF Arch!TableMask, TableMask
<1>3. \A page, h : Arch!PtegOf(page, h) = PtegOf(page, h)
  BY <1>1, <1>2 DEF Arch!PtegOf, PtegOf
<1>4. \A page, h : Arch!Matching(page, h) = Matching(page, h)
  <2> SUFFICES ASSUME NEW page, NEW h PROVE Arch!Matching(page, h) = Matching(page, h)
    OBVIOUS
  <2>1. /\ Arch!SegOf(page) = SegOf(page) /\ Arch!PageIndex(page) = PageIndex(page)
        /\ Arch!PtegOf(page, h) = PtegOf(page, h) /\ Arch!Slot = Slot
    BY <1>1, <1>3 DEF Arch!Slot, Slot
  <2>2. \A p : Arch!PteMatches(p, page, h) = PteMatches(p, page, h)
    BY <2>1, Zenon DEF Arch!PteMatches, PteMatches
  <2>3. QED
    BY <2>1, <2>2, Zenon DEF Arch!Matching, Matching
<1>5. \A page : Arch!HasPte(page) = HasPte(page) /\ Arch!PteFor(page) = PteFor(page)
  BY <1>3, <1>4, ArchMin DEF Arch!HasPte, HasPte, Arch!PteFor, PteFor
<1>6. \A side, priv, page : Arch!BatHits(side, priv, page) = BatHits(side, priv, page)
  BY DEF Arch!BatHits, BatHits, Arch!BatHit, BatHit, Arch!BlockSize, BlockSize, Arch!BatIx, BatIx
<1>7. \A page, priv : Arch!Key(page, priv) = Key(page, priv)
  BY <1>1 DEF Arch!Key, Key
<1>8. QED
  BY <1>1, <1>5, <1>6, <1>7

\* The same of the next state.
LEMMA ArchTablesNext == \A page : Arch!HasPte(page)' = HasPte(page)' /\ Arch!PteFor(page)' = PteFor(page)'
<1>1. \A page : Arch!HasPte(page) = HasPte(page) /\ Arch!PteFor(page) = PteFor(page)
  BY ArchTables
<1>2. (\A page : Arch!HasPte(page) = HasPte(page) /\ Arch!PteFor(page) = PteFor(page))'
  BY <1>1, PTL
<1>3. QED
  BY <1>2

LEMMA ArchWalk ==
  /\ \A a : Arch!Walk(a) = Walk(a) /\ Arch!WalkedPteh(a) = WalkedPteh(a)
  /\ \A perms, a : Arch!Permits(perms, a) = Permits(perms, a)
<1>1. \A a : Arch!BatWalk(a) = BatWalk(a)
  <2>1. \A f : Arch!NoWalk(f) = NoWalk(f)
    BY DEF Arch!NoWalk, NoWalk
  <2>2. \A b, page : Arch!BatPage(b, page) = BatPage(b, page)
    BY DEF Arch!BatPage, BatPage, Arch!BlockSize, BlockSize
  <2>3. \A a : Arch!Min(Arch!BatHits(a.side, a.priv, a.page)) = Min(BatHits(a.side, a.priv, a.page))
    BY ArchTables, ArchMin
  <2>4. SUFFICES ASSUME NEW a PROVE Arch!BatWalk(a) = BatWalk(a)
    OBVIOUS
  <2> DEFINE from(b, nothing, frame) ==
               IF b.lo.pp = 0 THEN nothing
               ELSE [fault |-> "NONE", frame |-> frame,
                     perms |-> [r |-> TRUE, w |-> b.lo.pp = 2, clean |-> FALSE]]
             arch(i) == from(bat[a.side][i], Arch!NoWalk("PERMS"), Arch!BatPage(bat[a.side][i], a.page))
             own(i) == from(bat[a.side][i], NoWalk("PERMS"), BatPage(bat[a.side][i], a.page))
  <2>5. /\ Arch!BatWalk(a) = arch(Arch!Min(Arch!BatHits(a.side, a.priv, a.page)))
        /\ BatWalk(a) = own(Min(BatHits(a.side, a.priv, a.page)))
    BY Zenon DEF Arch!BatWalk, BatWalk
  <2>6. \A i : arch(i) = own(i)
    BY <2>1, <2>2
  <2> HIDE DEF arch, own
  <2>7. QED
    BY <2>3, <2>5, <2>6, Zenon
<1>2. \A a : Arch!ByPage(a) = ByPage(a)
  BY ArchTables DEF Arch!ByPage, ByPage
<1>3. \A word, a : Arch!ReferencedChanged(word, a) = ReferencedChanged(word, a)
  BY ArchTables DEF Arch!ReferencedChanged, ReferencedChanged, Arch!PageWritable, PageWritable
<1>4. \A word, a : Arch!PageWalk(a, word) = PageWalk(a, word)
  BY ArchTables, <1>3 DEF Arch!PageWalk, PageWalk, Arch!PageReadable, PageReadable, Arch!PageWritable, PageWritable
<1>5. \A a : Arch!TranslatedWalk(a) = TranslatedWalk(a)
  BY ArchTables, <1>1, <1>2, <1>4 DEF Arch!TranslatedWalk, TranslatedWalk, Arch!NoWalk, NoWalk
<1>6. \A a : Arch!Walk(a) = Walk(a)
  BY <1>5 DEF Arch!Walk, Walk, Arch!RealWalk, RealWalk
<1>7. \A a : Arch!WalkedPteh(a) = WalkedPteh(a)
  BY ArchTables, <1>2, <1>3 DEF Arch!WalkedPteh, WalkedPteh
<1>8. \A perms, a : Arch!Permits(perms, a) = Permits(perms, a)
  BY DEF Arch!Permits, Permits
<1>9. QED
  BY <1>6, <1>7, <1>8

\* A failed walk names no frame, and a store that may write finds its page
\* dirty after its own walk.
LEMMA WalkOutcome ==
  ASSUME ContextTypeOK, NEW a \in Access
  PROVE  /\ Walk(a).fault # "NONE" => Walk(a).frame = 0
         /\ ~a.rnw /\ Walk(a).perms.w => ~Walk(a).perms.clean
<1>1. CASE enabled[a.side] /\ BatHits(a.side, a.priv, a.page) # {}
  <2>1. Walk(a) = BatWalk(a)
    BY <1>1 DEF Walk, TranslatedWalk, ByPage
  <2>2. QED
    BY <2>1 DEF BatWalk, NoWalk
<1>2. CASE enabled[a.side] /\ ByPage(a)
  <2>1. Walk(a) = PageWalk(a, pteh[PteFor(a.page)])
    BY <1>2 DEF Walk, TranslatedWalk, ByPage
  <2> DEFINE word == pteh[PteFor(a.page)]
             key == Key(a.page, a.priv)
  <2>2. /\ Walk(a).fault = "NONE"
        /\ Walk(a).perms.w = PageWritable(key, word.pp)
        /\ Walk(a).perms.clean = ~ReferencedChanged(word, a).c
    BY <2>1 DEF PageWalk
  <2>3. word \in PteH
    BY <1>2, PteForIsMatching DEF ByPage, Access
  <2>4. ~a.rnw /\ PageWritable(key, word.pp) => ReferencedChanged(word, a).c
    <3> HIDE DEF word
    <3>1. QED
      BY <2>3 DEF ReferencedChanged, PteH
  <2>5. QED
    BY <2>2, <2>4
<1>3. CASE enabled[a.side] /\ BatHits(a.side, a.priv, a.page) = {} /\ ~ByPage(a)
  <2>1. PICK f \in {"PERMS_NX", "NO_PAGE"} : Walk(a) = NoWalk(f)
    BY <1>3 DEF Walk, TranslatedWalk
  <2>2. QED
    BY <2>1 DEF NoWalk
<1>4. CASE ~enabled[a.side]
  <2>1. Walk(a) = RealWalk(a)
    BY <1>4 DEF Walk
  <2>2. QED
    BY <2>1 DEF RealWalk
<1>5. QED
  BY <1>1, <1>2, <1>3, <1>4

\* Unless a store meets a clean page it may write, an entry answers by its
\* permissions alone.
LEMMA AnswerFacts ==
  ASSUME NEW e, NEW a, a.side = "I" => a.rnw, ~FaultWasCleanliness(e.perms, a), a.side \in Side
  PROVE  Answer(e, a) = IF Permits(e.perms, a) THEN [fault |-> "NONE", frame |-> e.frame]
                        ELSE [fault |-> "PERMS", frame |-> 0]
<1>1. CheckPerms(e.perms, a) <=> Permits(e.perms, a)
  BY DEF CheckPerms, Permits, FaultWasCleanliness, Side
<1>2. QED
  BY <1>1 DEF Answer, Failed

\* An access that walks is answered as the architecture promises.
LEMMA WalkAnswers ==
  ASSUME TypeOK, NEW a \in Requests, AccessWalks(a)
  PROVE  out' = Arch!Promised(a) /\ out' \in Arch!Outcome
<1> DEFINE w == Walk(a)
           inserted == UtlbInsert(utlb, a, w)
           new == [valid |-> TRUE, tr |-> enabled[a.side], page |-> a.page,
                   frame |-> w.frame, perms |-> w.perms]
<1>1. a \in Access /\ (a.side = "I" => a.rnw) /\ a.side \in Side
  BY RequestsAssumption DEF Access
<1>2. w \in [fault : Fault, frame : Page, perms : Perms]
  BY <1>1, WalkType DEF TypeOK
<1>3. EntryFor(inserted, a) = new
  BY <1>1, <1>2, InsertEntries
<1>4. UtlbLookup(inserted, a)
  BY <1>3 DEF UtlbLookup
<1>5. ~FaultWasCleanliness(new.perms, a)
  BY <1>1, WalkOutcome DEF FaultWasCleanliness, TypeOK
<1>6. out' = IF w.fault # "NONE" THEN Failed(w.fault) ELSE Answer(new, a)
  BY <1>3, <1>4, <1>5 DEF AccessWalks
<1>7. Answer(new, a) = IF Permits(w.perms, a) THEN [fault |-> "NONE", frame |-> w.frame]
                       ELSE [fault |-> "PERMS", frame |-> 0]
  BY <1>1, <1>5, AnswerFacts
<1>8. out' = Arch!Promised(a)
  <2>1. Arch!Walk(a) = w /\ Arch!Permits(w.perms, a) = Permits(w.perms, a)
    BY ArchWalk
  <2>2. w = [fault |-> w.fault, frame |-> w.frame, perms |-> w.perms] /\ (w.fault # "NONE" => w.frame = 0)
    BY <1>1, <1>2, WalkOutcome DEF TypeOK
  <2> HIDE DEF w
  <2>3. QED
    BY <1>6, <1>7, <2>1, <2>2 DEF Arch!Promised, Failed
<1>9. out' \in Arch!Outcome
  BY <1>2, <1>6, <1>7, FrameZero, ArchTypes DEF Arch!Outcome, Failed, Fault
<1>10. QED
  BY <1>8, <1>9

(* Every access finds the entry its walk inserted and never asks for a     *)
(* second walk, at every size (translateAddr's FATAL and its goto).        *)
THEOREM AccessesComplete == Spec => []AccessCompletes
<1>1. Init => AccessCompletes
  BY DEF Init, Done, AccessCompletes, Broken
<1>2. TypeOK /\ AccessCompletes /\ [Next]_vars => AccessCompletes'
  <2> SUFFICES ASSUME TypeOK, AccessCompletes, [Next]_vars PROVE AccessCompletes'
    OBVIOUS
  <2>1. CASE out' = Done
    BY <2>1 DEF Done, AccessCompletes, Broken
  <2>2. ASSUME NEW a \in Requests, AccessHits(a) PROVE AccessCompletes'
    <3>1. out'.fault \in {"NONE", "PERMS"}
      BY <2>2 DEF AccessHits, Answer, Failed
    <3>2. QED
      BY <3>1 DEF AccessCompletes, Broken
  <2>3. ASSUME NEW a \in Requests, AccessWalks(a) PROVE AccessCompletes'
    <3>1. out'.fault \in Fault
      BY <2>3, WalkAnswers, ArchTypes DEF Arch!Outcome
    <3>2. QED
      BY <3>1 DEF AccessCompletes, Broken, Fault
  <2>4. CASE UNCHANGED vars
    BY <2>4 DEF vars, AccessCompletes
  <2>5. QED
    BY <2>1, <2>2, <2>3, <2>4 DEF Next, MoveToSpr, MoveToBat, MoveToSr, SetSDR1, SetBatUpper, SetBatLower,
       SetSegmentReg, Tlbie, Invalidate, SetIRDR, GuestWritesPtel, GuestWritesPteh, NoteEdits
<1>3. QED
  BY <1>1, <1>2, TypeCorrect, PTL DEF Spec

\* What a walk changes in guest memory: at most the second word of its PTE.
LEMMA WalkedWord ==
  ASSUME TypeOK, NEW a \in Access, NEW p \in PteAddr, WalkedPteh(a)[p] # pteh[p]
  PROVE  /\ enabled[a.side] /\ ByPage(a) /\ p = PteFor(a.page)
         /\ WalkedPteh(a)[p] = ReferencedChanged(pteh[p], a)
<1>1. pteh \in [PteAddr -> PteH]
  BY DEF TypeOK, ContextTypeOK
<1>2. enabled[a.side] /\ ByPage(a)
  BY DEF WalkedPteh
<1>3. WalkedPteh(a) = [pteh EXCEPT ![PteFor(a.page)] = ReferencedChanged(pteh[PteFor(a.page)], a)]
  BY <1>2 DEF WalkedPteh
<1>4. QED
  BY <1>1, <1>2, <1>3

\* An access that changes C is a store that the walk lets through.
LEMMA ChangedIsAllowed ==
  ASSUME TypeOK, NEW a \in Requests, AccessWalks(a), NEW p \in PteAddr, pteh'[p].c # pteh[p].c
  PROVE  ~a.rnw /\ out'.fault = "NONE" /\ pteh'[p] = [pteh[p] EXCEPT !.r = TRUE, !.c = TRUE]
<1> DEFINE word == pteh[p]
           key == Key(a.page, a.priv)
<1>1. a \in Access /\ (a.side = "I" => a.rnw) /\ pteh' = WalkedPteh(a) /\ word \in PteH
  BY RequestsAssumption DEF AccessWalks, TypeOK, ContextTypeOK
<1>2. /\ enabled[a.side] /\ ByPage(a) /\ p = PteFor(a.page)
      /\ pteh'[p] = ReferencedChanged(word, a)
  BY <1>1, WalkedWord
<1>3. ReferencedChanged(word, a)
        = [word EXCEPT !.r = TRUE, !.c = @ \/ (~a.rnw /\ PageWritable(key, word.pp))]
  BY DEF ReferencedChanged
<1> HIDE DEF word, key
<1>0. ReferencedChanged(word, a).c = (word.c \/ (~a.rnw /\ PageWritable(key, word.pp)))
  BY <1>1, <1>3 DEF PteH
<1>4. ~a.rnw /\ PageWritable(key, word.pp) /\ ~word.c
  <2>2. ReferencedChanged(word, a).c # word.c /\ word.c \in BOOLEAN
    BY <1>1, <1>2 DEF word, PteH
  <2>3. QED
    BY <1>0, <2>2
<1>5. pteh'[p] = [word EXCEPT !.r = TRUE, !.c = TRUE]
  <2>2. pteh'[p] \in PteH /\ pteh'[p].rpn = word.rpn /\ pteh'[p].pp = word.pp /\ pteh'[p].r
    BY <1>1, <1>2, ReferencedChangedType
  <2>3. pteh'[p].c
    BY <1>0, <1>2, <1>4
  <2>4. pteh'[p].r = TRUE /\ pteh'[p].c = TRUE
    BY <2>2, <2>3 DEF PteH
  <2>5. QED
    BY <1>1, <2>2, <2>4 DEF PteH
<1>6. Walk(a) = PageWalk(a, word)
  BY <1>2 DEF Walk, TranslatedWalk, ByPage, word
<1>7. Walk(a).fault = "NONE" /\ Walk(a).perms.w = PageWritable(key, word.pp)
  BY <1>6 DEF PageWalk, key
<1>8. Permits(Walk(a).perms, a)
  BY <1>1, <1>4, <1>7 DEF Permits
<1>9. Arch!Promised(a).fault = "NONE"
  BY <1>7, <1>8, ArchWalk DEF Arch!Promised
<1>10. QED
  BY <1>4, <1>5, <1>9, WalkAnswers DEF word

(* Only a store that is let through sets Changed, and it changes nothing   *)
(* else (update_c in translateEA), for every table and request set.        *)
THEOREM OnlyStoresSetChanged == Spec => ChangedOnlyByStores
<1> DEFINE Only ==
      \A a \in Requests : AccessHits(a) \/ AccessWalks(a) =>
        \A p \in PteAddr : pteh'[p].c # pteh[p].c =>
          ~a.rnw /\ out'.fault = "NONE" /\ pteh'[p] = [pteh[p] EXCEPT !.r = TRUE, !.c = TRUE]
<1>1. TypeOK /\ [Next]_vars => [Only]_vars
  <2> SUFFICES ASSUME TypeOK PROVE Only
    OBVIOUS
  <2>1. ASSUME NEW a \in Requests, AccessHits(a) PROVE pteh' = pteh
    BY <2>1 DEF AccessHits, contextVars
  <2>2. QED
    BY <2>1, ChangedIsAllowed
<1>2. QED
  BY <1>1, TypeCorrect, PTL DEF Spec, ChangedOnlyByStores
-----------------------------------------------------------------------------
(* The generation counter *)

(* Whatever changes a mapping advances generation_count, save for edits of *)
(* the page table and MSR[IR,DR] (setSDR1 and the like), provided the      *)
(* counter has more than one value: the code has 2^32.                     *)
THEOREM MappingsHaveGenerations ==
  ASSUME GenWrap > 1
  PROVE  Spec => GenerationCoversMappings
<1> DEFINE Covers == UNCHANGED <<generation_count, enabled, ptel, pteh>>
                       => \A a \in Requests : Mapping(a)' = Mapping(a)
<1>1. ASSUME TypeOK, [Next]_vars PROVE [Covers]_vars
  <2> SUFFICES ASSUME UNCHANGED <<generation_count, enabled, ptel, pteh>>,
                      NEW a \in Requests
               PROVE  Mapping(a)' = Mapping(a)
    OBVIOUS
  <2>1. ASSUME NEW sides, Invalidate(sides) PROVE FALSE
    <3>1. generation_count \in 0 .. GenWrap - 1 /\ GenWrap \in Nat
      BY <1>1, MMUAssumption DEF TypeOK
    <3>2. generation_count' = (generation_count + 1) % GenWrap
      BY <2>1 DEF Invalidate
    <3>3. CASE generation_count + 1 < GenWrap
      BY <3>1, <3>2, <3>3
    <3>4. CASE generation_count + 1 = GenWrap
      <4>1. (generation_count + 1) % GenWrap = 0
        BY <3>1, <3>4
      <4>2. QED
        BY <3>1, <3>2, <3>4, <4>1
    <3>5. QED
      BY <3>1, <3>3, <3>4
  <2>2. UNCHANGED <<bat, segreg, sdr1>>
    BY <1>1, <2>1 DEF Next, MoveToSpr, MoveToBat, MoveToSr, SetSDR1, SetBatUpper, SetBatLower,
       SetSegmentReg, Tlbie, SetIRDR, GuestWritesPtel, GuestWritesPteh, NoteEdits, AccessHits,
       AccessWalks, contextVars, vars
  <2>3. TranslatedWalk(a)'.fault = TranslatedWalk(a).fault /\ TranslatedWalk(a)'.frame = TranslatedWalk(a).frame
    BY <2>2, SameWalk
  <2>4. CASE enabled[a.side]
    <3>1. Walk(a) = TranslatedWalk(a) /\ Walk(a)' = TranslatedWalk(a)'
      BY <2>4 DEF Walk
    <3>2. QED
      BY <2>3, <3>1 DEF Mapping
  <2>5. CASE ~enabled[a.side]
    <3>1. Walk(a) = RealWalk(a) /\ Walk(a)' = RealWalk(a)
      BY <2>5 DEF Walk, RealWalk
    <3>2. QED
      BY <3>1 DEF Mapping
  <2>6. QED
    BY <2>4, <2>5
<1>2. QED
  BY <1>1, TypeCorrect, PTL DEF Spec, GenerationCoversMappings
-----------------------------------------------------------------------------
(* The tags of a PTE *)

\* The PTE a walk stops at matches, in the PTEG of the hash it was found by.
LEMMA PteForMatches ==
  ASSUME ContextTypeOK, NEW p \in Page, HasPte(p)
  PROVE  \E h \in BOOLEAN : /\ PteFor(p)[1] = PtegOf(p, h)
                            /\ PteMatches(ptel[PteFor(p)], p, h)
<1> DEFINE h == Matching(p, FALSE) = {}
<1>1. h \in BOOLEAN /\ Matching(p, h) # {}
  BY DEF HasPte
<1>2. Matching(p, h) \in SUBSET Nat
  <2>1. Slot \subseteq Nat
    BY SizesAssumption DEF Slot
  <2>2. Matching(p, h) \subseteq Slot
    BY DEF Matching
  <2>3. QED
    BY <2>1, <2>2
<1>3. Min(Matching(p, h)) \in Matching(p, h)
  BY <1>1, <1>2, MinIsMember
<1>4. PteFor(p) = <<PtegOf(p, h), Min(Matching(p, h))>>
  BY DEF PteFor
<1> HIDE DEF h
<1>5. PteMatches(ptel[PteFor(p)], p, h)
  BY <1>3, <1>4 DEF Matching
<1>6. QED
  BY <1>1, <1>4, <1>5

\* Quotient and remainder determine a number.
LEMMA DivMod ==
  ASSUME NEW i \in Nat, NEW j \in Nat, NEW k \in Nat \ {0}, i \div k = j \div k, i % k = j % k
  PROVE  i = j
<1>1. i = k * (i \div k) + (i % k) /\ j = k * (j \div k) + (j % k)
  OBVIOUS
<1>2. QED
  BY <1>1

(* The tag that translateEA compares and the PTEG it was found in determine*)
(* the virtual page, for every table, given a table aligned to its mask.   *)
THEOREM OnePagePerPte == Spec => []WalkIsInjective
<1>1. TypeOK => WalkIsInjective
  <2> SUFFICES ASSUME ContextTypeOK, Sdr1Aligned, NEW p \in Page, NEW q \in Page,
                      HasPte(p), HasPte(q), PteFor(p) = PteFor(q)
               PROVE  VirtualPage(p) = VirtualPage(q)
    BY DEF TypeOK, WalkIsInjective
  <2>1. PICK h \in BOOLEAN : PteFor(p)[1] = PtegOf(p, h) /\ PteMatches(ptel[PteFor(p)], p, h)
    BY PteForMatches
  <2>2. PICK g \in BOOLEAN : PteFor(q)[1] = PtegOf(q, g) /\ PteMatches(ptel[PteFor(q)], q, g)
    BY PteForMatches
  <2>3. /\ h = g /\ SegOf(p).vsid = SegOf(q).vsid
        /\ PageIndex(p) \div ApiPages = PageIndex(q) \div ApiPages
    BY <2>1, <2>2 DEF PteMatches
  <2> DEFINE hashed(i) == BitAnd(Hash(SegOf(p).vsid, i), TableMask(sdr1))
             M == TableMask(sdr1)
  <2>4. SegOf(p).vsid \in Vsid /\ sdr1 \in Sdr1 /\ PageIndex(p) \in Api /\ PageIndex(q) \in Api
    BY PageArithmetic DEF SegOf, ContextTypeOK, SegReg, Api
  <2>5. \/ BitOr(sdr1.phys, hashed(PageIndex(p))) = BitOr(sdr1.phys, hashed(PageIndex(q)))
        \/ BitOr(sdr1.phys, M - hashed(PageIndex(p))) = BitOr(sdr1.phys, M - hashed(PageIndex(q)))
    BY <2>1, <2>2, <2>3 DEF PtegOf
  <2>6. hashed(PageIndex(p)) = hashed(PageIndex(q))
    BY <2>4, <2>5, HashAssumption DEF Sdr1Aligned
  <2>7. PageIndex(p) % ApiPages = PageIndex(q) % ApiPages
    BY <2>4, <2>6, HashAssumption
  <2>8. PageIndex(p) \in Nat /\ PageIndex(q) \in Nat /\ ApiPages \in Nat \ {0}
    BY <2>4, SizesAssumption DEF Api
  <2>9. PageIndex(p) = PageIndex(q)
    BY <2>3, <2>7, <2>8, DivMod
  <2>10. QED
    BY <2>3, <2>9 DEF VirtualPage
<1>2. QED
  BY <1>1, TypeCorrect, PTL
-----------------------------------------------------------------------------
(* The refinement of ArchMMU *)

\* A load's walk and a store's of one page differ in cleanliness alone.
LEMMA WalkOfLoad ==
  ASSUME NEW a, NEW b, b.side = a.side, b.priv = a.priv, b.page = a.page
  PROVE  /\ ByPage(b) = ByPage(a)
         /\ TranslatedWalk(b).fault = TranslatedWalk(a).fault
         /\ TranslatedWalk(b).frame = TranslatedWalk(a).frame
         /\ TranslatedWalk(b).perms.r = TranslatedWalk(a).perms.r
         /\ TranslatedWalk(b).perms.w = TranslatedWalk(a).perms.w
<1>1. ByPage(b) = ByPage(a)
  BY DEF ByPage
<1>2. CASE BatHits(a.side, a.priv, a.page) # {}
  <2>1. BatWalk(b) = BatWalk(a)
    BY DEF BatWalk
  <2>2. TranslatedWalk(b) = BatWalk(b) /\ TranslatedWalk(a) = BatWalk(a)
    BY <1>2 DEF TranslatedWalk, ByPage
  <2>3. QED
    BY <1>1, <2>1, <2>2
<1>3. CASE ByPage(a)
  <2> DEFINE word == pteh[PteFor(a.page)]
  <2>1. TranslatedWalk(b) = PageWalk(b, word) /\ TranslatedWalk(a) = PageWalk(a, word)
    BY <1>1, <1>3 DEF TranslatedWalk, ByPage
  <2> HIDE DEF word
  <2>2. QED
    BY <1>1, <2>1 DEF PageWalk
<1>4. CASE BatHits(a.side, a.priv, a.page) = {} /\ ~ByPage(a)
  <2>1. TranslatedWalk(b) = TranslatedWalk(a)
    BY <1>1, <1>4 DEF TranslatedWalk
  <2>2. QED
    BY <1>1, <2>1
<1>5. QED
  BY <1>2, <1>3, <1>4

\* A coherent entry that is not in doubt answers as a fresh walk, which would
\* record nothing new.
LEMMA HitIsFresh ==
  ASSUME TypeOK, UtlbCoherent, NEW a \in Requests, AccessHits(a), ~Arch!InDoubt(a)
  PROVE  out' = Arch!Promised(a) /\ pteh = WalkedPteh(a)
<1> DEFINE e == EntryFor(utlb, a)
           b == LoadOf(a.side, a.priv, a.page)
<1>1. a \in Access /\ (a.side = "I" => a.rnw) /\ a.side \in Side /\ a.priv \in BOOLEAN /\ a.page \in Page
  BY RequestsAssumption DEF Access
<1>2. IndexOf(a.page) \in Index
  BY <1>1, PageArithmetic
<1>3. EntryCoherent(e, a.side, a.priv, IndexOf(a.page))
  BY <1>1, <1>2 DEF UtlbCoherent, EntryFor
<1>4. e.valid /\ e.page = a.page /\ e.tr = enabled[a.side] /\ ~FaultWasCleanliness(e.perms, a)
  BY DEF AccessHits, NeedsWalk, UtlbLookup
<1>5. out' = IF Permits(e.perms, a) THEN [fault |-> "NONE", frame |-> e.frame]
             ELSE [fault |-> "PERMS", frame |-> 0]
  BY <1>1, <1>4, AnswerFacts DEF AccessHits
<1> HIDE DEF e
<1>6. ASSUME Walk(a).fault = "NONE", Walk(a).frame = e.frame, Walk(a).perms.r = e.perms.r,
             Walk(a).perms.w = e.perms.w
      PROVE  out' = Arch!Promised(a)
  <2>1. Permits(Walk(a).perms, a) = Permits(e.perms, a)
    BY <1>6 DEF Permits
  <2>2. Arch!Promised(a) = IF ~Permits(Walk(a).perms, a) THEN [fault |-> "PERMS", frame |-> 0]
                           ELSE [fault |-> "NONE", frame |-> e.frame]
    BY <1>6, ArchWalk DEF Arch!Promised
  <2>3. QED
    BY <1>5, <2>1, <2>2
<1>7. CASE ~enabled[a.side]
  <2>1. e.frame = a.page /\ e.perms = [r |-> TRUE, w |-> TRUE, clean |-> FALSE]
    BY <1>3, <1>4, <1>7 DEF EntryCoherent
  <2>2. Walk(a) = RealWalk(a)
    BY <1>7 DEF Walk
  <2>3. Walk(a).fault = "NONE" /\ Walk(a).frame = e.frame /\ Walk(a).perms = e.perms
    BY <2>1, <2>2 DEF RealWalk
  <2>4. out' = Arch!Promised(a)
    BY <1>6, <2>3
  <2>5. QED
    BY <1>7, <2>4 DEF WalkedPteh
<1>8. CASE enabled[a.side]
  <2>1. ~Doubtful(a.side, a.priv, e.page)
    BY <1>4, <1>8, ArchTables DEF Arch!InDoubt, Doubtful
  <2>2. AgreesWithTables(e, b)
    BY <1>3, <1>4, <1>8, <2>1 DEF EntryCoherent
  <2>3. b.side = a.side /\ b.priv = a.priv /\ b.page = a.page
    BY DEF LoadOf
  <2> HIDE DEF b
  <2>4. Walk(a) = TranslatedWalk(a)
    BY <1>8 DEF Walk
  <2>5. out' = Arch!Promised(a)
    BY <1>6, <2>2, <2>3, <2>4, WalkOfLoad DEF AgreesWithTables
  <2>6. CASE ~ByPage(a)
    BY <2>5, <2>6 DEF WalkedPteh
  <2>7. CASE ByPage(a)
    <3> DEFINE P == PteFor(a.page)
               key == Key(a.page, a.priv)
    <3>1. P \in PteAddr /\ pteh[P] \in PteH
      BY <1>1, <2>7, PteForIsMatching DEF ByPage, TypeOK
    <3>2. pteh[P].r /\ (e.perms.clean \/ pteh[P].c)
      BY <2>2, <2>3, <2>7, WalkOfLoad DEF AgreesWithTables
    <3>3. TranslatedWalk(a).perms.w = PageWritable(key, pteh[P].pp)
      BY <2>7 DEF TranslatedWalk, ByPage, PageWalk
    <3>4. e.perms.w = PageWritable(key, pteh[P].pp)
      BY <2>2, <2>3, <3>3, WalkOfLoad DEF AgreesWithTables
    <3> HIDE DEF P, key
    <3>5. ~a.rnw /\ PageWritable(key, pteh[P].pp) => pteh[P].c
      BY <1>1, <1>4, <3>2, <3>4 DEF FaultWasCleanliness, Side
    <3>6. ReferencedChanged(pteh[P], a) = pteh[P]
      <4>1. ReferencedChanged(pteh[P], a)
              = [pteh[P] EXCEPT !.r = TRUE, !.c = @ \/ (~a.rnw /\ PageWritable(key, pteh[P].pp))]
        BY DEF ReferencedChanged, key
      <4>2. /\ ReferencedChanged(pteh[P], a) \in PteH
            /\ ReferencedChanged(pteh[P], a).rpn = pteh[P].rpn
            /\ ReferencedChanged(pteh[P], a).pp = pteh[P].pp
            /\ ReferencedChanged(pteh[P], a).r
        BY <3>1, ReferencedChangedType
      <4>3. ReferencedChanged(pteh[P], a).c = (pteh[P].c \/ (~a.rnw /\ PageWritable(key, pteh[P].pp)))
        BY <3>1, <4>1 DEF PteH
      <4>4. ReferencedChanged(pteh[P], a).c = pteh[P].c /\ ReferencedChanged(pteh[P], a).r = pteh[P].r
        BY <3>1, <3>2, <3>5, <4>2, <4>3 DEF PteH
      <4>5. QED
        BY <3>1, <4>2, <4>4 DEF PteH
    <3>7. WalkedPteh(a) = [pteh EXCEPT ![P] = pteh[P]]
      BY <1>8, <2>7, <3>6 DEF WalkedPteh, P
    <3>8. WalkedPteh(a) = pteh
      BY <3>1, <3>7 DEF TypeOK, ContextTypeOK
    <3>9. QED
      BY <2>5, <3>8
  <2>8. QED
    BY <2>6, <2>7
<1>9. QED
  BY <1>7, <1>8

\* The outcome of a lookup is one the promise could have.
LEMMA HitOutcome ==
  ASSUME TypeOK, NEW a \in Requests, AccessHits(a)
  PROVE  out' \in Arch!Outcome
<1>1. EntryFor(utlb, a) \in Entry
  BY RequestsAssumption, PageArithmetic DEF EntryFor, TypeOK, Access
<1>2. QED
  BY <1>1, AnswerType, ArchTypes DEF AccessHits, Arch!Outcome, Fault

\* A setter's invalidation, as the architecture sees it.
LEMMA InvalidateRefines ==
  ASSUME NEW sides, Invalidate(sides)
  PROVE  Arch!SetContext(sides)
BY ArchTypes DEF Invalidate, Arch!SetContext, Arch!Silent, Done

\* One action per disjunct of Next.
LEMMA NextRefines ==
  ASSUME TypeOK, TypeOK', UtlbCoherent, [Next]_vars
  PROVE  [Arch!Next]_(Arch!archVars)
<1>1. ASSUME NEW v \in Sdr1Values, SetSDR1(v)
      PROVE  Arch!SetSDR1
  <2>1. sdr1' \in Sdr1
    BY DEF TypeOK, ContextTypeOK
  <2>2. QED
    BY <1>1, <2>1, InvalidateRefines, ArchTypes DEF SetSDR1, Arch!SetSDR1
<1>2. ASSUME NEW s \in Side, NEW i \in BatIx, NEW u, SetBatUpper(s, i, u) \/ SetBatLower(s, i, u)
      PROVE  Arch!SetBat(s)
  <2>1. bat' \in [Side -> [BatIx -> [up : BatUpper, lo : BatLower]]]
    BY DEF TypeOK, ContextTypeOK
  <2>2. \A t \in Side \ {s} : bat'[t] = bat[t]
    BY <1>2 DEF SetBatUpper, SetBatLower, TypeOK, ContextTypeOK
  <2>3. Invalidate({s}) /\ UNCHANGED <<enabled, segreg, sdr1, ptel, pteh>>
    BY <1>2 DEF SetBatUpper, SetBatLower
  <2>4. QED
    BY <2>1, <2>2, <2>3, InvalidateRefines, ArchTypes DEF Arch!SetBat
<1>3. ASSUME NEW n \in Seg, NEW v \in SegValues, SetSegmentReg(n, v)
      PROVE  Arch!SetSegmentReg
  <2>1. v \in SegReg
    BY MMUAssumption
  <2>2. QED
    BY <1>3, <2>1, InvalidateRefines, ArchTypes DEF SetSegmentReg, Arch!SetSegmentReg
<1>4. CASE Tlbie
  <2>1. Arch!Invalidate
    BY <1>4, InvalidateRefines, ArchTypes DEF Tlbie, Arch!Invalidate, contextVars, Arch!contextVars
  <2>2. QED
    BY <2>1 DEF Arch!Next
<1>5. ASSUME NEW v \in IrDrValues, SetIRDR(v[1], v[2])
      PROVE  Arch!SetIRDR
  <2>1. enabled' \in [Side -> BOOLEAN]
    BY DEF TypeOK, ContextTypeOK
  <2>2. edited' = [s \in Side |-> IF s \in {} THEN {} ELSE edited[s]]
    BY <1>5 DEF SetIRDR, TypeOK
  <2>3. QED
    BY <1>5, <2>1, <2>2, ArchTypes DEF SetIRDR, Arch!SetIRDR, Arch!SetContext, Arch!Silent, Done
<1>6. ASSUME NEW p \in PteAddr, NEW w, GuestWritesPtel(p, w) \/ GuestWritesPteh(p, w)
      PROVE  Arch!EditPte
  <2>1. \/ ptel' = [ptel EXCEPT ![p] = ptel'[p]] /\ UNCHANGED pteh
        \/ pteh' = [pteh EXCEPT ![p] = pteh'[p]] /\ UNCHANGED ptel
    BY <1>6 DEF GuestWritesPtel, GuestWritesPteh, TypeOK, ContextTypeOK
  <2>2. \A pg : Arch!PteOf(pg) = PteOf(pg)
    BY ArchTables DEF Arch!PteOf, PteOf
  <2>3. \A pg : Arch!PteOf(pg)' = PteOf(pg)'
    BY ArchTablesNext DEF Arch!PteOf, PteOf
  <2>4. edited' = [s \in Side |-> edited[s] \cup {pg \in Page : Arch!PteOf(pg)' # Arch!PteOf(pg)}]
    BY <1>6, <2>2, <2>3 DEF GuestWritesPtel, GuestWritesPteh, NoteEdits
  <2>5. QED
    BY <1>6, <2>1, <2>4, ArchTypes DEF GuestWritesPtel, GuestWritesPteh, NoteEdits, Arch!EditPte,
       Arch!Silent, Done
<1>7. ASSUME NEW a \in Requests, AccessHits(a)
      PROVE  Arch!Translate(a)
  <2>1. UNCHANGED <<enabled, bat, segreg, sdr1, ptel, pteh, edited>>
    BY <1>7 DEF AccessHits, contextVars
  <2>2. out' \in Arch!Outcome
    BY <1>7, HitOutcome
  <2>3. ~Arch!InDoubt(a) => out' = Arch!Promised(a) /\ pteh' = WalkedPteh(a)
    BY <1>7, <2>1, HitIsFresh
  <2>4. QED
    BY <2>1, <2>2, <2>3, ArchWalk DEF Arch!Translate
<1>8. ASSUME NEW a \in Requests, AccessWalks(a)
      PROVE  Arch!Translate(a)
  <2>1. out' = Arch!Promised(a) /\ out' \in Arch!Outcome
    BY <1>8, WalkAnswers
  <2>2. QED
    BY <1>8, <2>1, ArchWalk DEF AccessWalks, Arch!Translate
<1>9. CASE UNCHANGED vars
  BY <1>9 DEF vars, contextVars, Arch!archVars, Arch!contextVars
<1>10. QED
  BY <1>1, <1>2, <1>3, <1>4, <1>5, <1>6, <1>7, <1>8, <1>9, ArchTypes
     DEF Next, MoveToSpr, MoveToBat, MoveToSr, Arch!Next

(* PPCMMU implements the MMU without micro-TLBs, for every size and request*)
(* set: every access faults, lands and records as a fresh walk would, but  *)
(* for pages whose PTE was edited without a tlbie.                         *)
THEOREM MmuIsImplemented == Spec => ImplementsArch
<1>1. Init => Arch!Init([up : Arch!BatUpper, lo : Arch!BatLower])
  BY MMUAssumption, ArchTypes DEF Init, Arch!Init, Done, Arch!Silent
<1>2. TypeOK /\ TypeOK' /\ UtlbCoherent /\ [Next]_vars => [Arch!Next]_(Arch!archVars)
  BY NextRefines
<1>3. QED
  BY <1>1, <1>2, TypeCorrect, UtlbsStayCoherent, PTL DEF Spec, ImplementsArch, Arch!Spec
=============================================================================
