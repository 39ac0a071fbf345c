------------------------------ MODULE ArchMMU ------------------------------
(***************************************************************************)
(* The MMU the guest is promised: every access is translated by a fresh    *)
(* walk of the registers and the page table, and records R and C.  The one *)
(* licence is the PowerPC architecture's: after the guest has edited a PTE *)
(* and until it invalidates the TLB, the pages the edit concerns may still *)
(* be translated by an older PTE.                                          *)
(***************************************************************************)
EXTENDS PPCWalk

VARIABLES
  edited,  \* by side, the pages whose PTE was edited since the invalidation
  out      \* what the last operation returned: a fault, or a page frame

archVars == <<contextVars, edited, out>>

Outcome == [fault : Fault, frame : Page]
Silent  == [fault |-> "NONE", frame |-> 0]   \* of an operation that is no access

PteOf(page) == IF HasPte(page)
                 THEN <<ptel[PteFor(page)], pteh[PteFor(page)]>> ELSE <<>>

\* Accesses whose translation the guest has left unsynchronised.
InDoubt(a) ==
  /\ enabled[a.side]
  /\ a.page \in edited[a.side]
  /\ BatHits(a.side, a.priv, a.page) = {}
  /\ ~(a.side = "I" /\ SegOf(a.page).n)

Promised(a) ==
  LET w == Walk(a) IN
  IF w.fault = "NONE" /\ ~Permits(w.perms, a)
    THEN [fault |-> "PERMS", frame |-> 0]
    ELSE [fault |-> w.fault, frame |-> w.frame]

Init(bats) ==
  /\ enabled = [s \in Side |-> FALSE]
  /\ bat \in [Side -> [BatIx -> bats]]
  /\ edited = [s \in Side |-> {}]
  /\ out = Silent

SetContext(sides) ==
  /\ edited' = [s \in Side |-> IF s \in sides THEN {} ELSE edited[s]]
  /\ out' = Silent

SetSDR1 ==
  /\ sdr1' \in Sdr1
  /\ SetContext(Side)
  /\ UNCHANGED <<enabled, bat, segreg, ptel, pteh>>

SetBat(s) ==
  /\ bat'[s] \in [BatIx -> [up : BatUpper, lo : BatLower]]
  /\ \A t \in Side \ {s} : bat'[t] = bat[t]
  /\ DOMAIN bat' = Side
  /\ SetContext({s})
  /\ UNCHANGED <<enabled, segreg, sdr1, ptel, pteh>>

SetSegmentReg ==
  /\ \E n \in Seg : \E v \in SegReg : segreg' = [segreg EXCEPT ![n] = v]
  /\ SetContext(Side)
  /\ UNCHANGED <<enabled, bat, sdr1, ptel, pteh>>

Invalidate ==
  /\ SetContext(Side)
  /\ UNCHANGED contextVars

SetIRDR ==
  /\ enabled' \in [Side -> BOOLEAN]
  /\ SetContext({})
  /\ UNCHANGED <<bat, segreg, sdr1, ptel, pteh>>

EditPte ==
  /\ \E p \in PteAddr :
       \/ /\ ptel' = [ptel EXCEPT ![p] = ptel'[p]]
          /\ UNCHANGED pteh
       \/ /\ pteh' = [pteh EXCEPT ![p] = pteh'[p]]
          /\ UNCHANGED ptel
  /\ edited' = [s \in Side |-> edited[s] \cup {pg \in Page : PteOf(pg)' # PteOf(pg)}]
  /\ out' = Silent
  /\ UNCHANGED <<enabled, bat, segreg, sdr1>>

Translate(a) ==
  /\ \/ /\ ~InDoubt(a)
        /\ out' = Promised(a)
        /\ pteh' = WalkedPteh(a)
     \/ /\ InDoubt(a)
        /\ out' \in Outcome
        /\ pteh' \in {pteh, WalkedPteh(a)}
  /\ UNCHANGED <<enabled, bat, segreg, sdr1, ptel, edited>>

Next ==
  \/ SetSDR1 \/ SetSegmentReg \/ Invalidate \/ SetIRDR \/ EditPte
  \/ \E s \in Side : SetBat(s)
  \/ \E a \in Requests : Translate(a)

Spec == Init([up : BatUpper, lo : BatLower]) /\ [][Next]_archVars
=============================================================================
