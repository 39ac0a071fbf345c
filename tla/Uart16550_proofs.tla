-------------------------- MODULE Uart16550_proofs --------------------------
(* Proofs about Uart16550, for any number of bytes typed and queued.       *)
EXTENDS Uart16550, TLAPS

Reasons == {"RXDA", "THRE"}
Handling == dpc \in {"iir", "lsr", "rx", "tx"}
Printing == dpc \in {"print", "printed"}

\* The shape of the state.
UartTypeOK ==
  /\ dr \in BOOLEAN /\ dlab \in BOOLEAN /\ irqActive \in BOOLEAN
  /\ threReported \in BOOLEAN /\ latched \in BOOLEAN
  /\ ier \subseteq Reasons /\ saved \subseteq Reasons
  /\ iir \in {"rx", "thre", "none"}
  /\ txq \in Nat
  /\ dpc \in {"idle", "kick", "print", "printed", "divisor", "iir", "lsr", "rx", "tx"}

\* IIR shows a reason exactly while irq_active, and if it shows none there is none.
ReasonShown ==
  /\ iir = "none" <=> ~irqActive
  /\ ~irqActive => ~(dr /\ "RXDA" \in ier) /\ ("THRE" \in ier => threReported)

\* Outside its handler, the driver has an edge latched while irq_active is set.
EdgeWaits == irqActive /\ ~Handling => latched

\* The enabled interrupts, or while the driver prints the ones to be enabled
\* again: THRE as long as bytes are queued, and then RXDA too.
Enabled == IF Printing THEN saved ELSE ier

EnabledForQueue ==
  /\ txq > 0 => Reasons \subseteq Enabled
  /\ txq = 0 /\ dpc \notin {"tx", "kick"} => "THRE" \notin Enabled
  /\ Printing => ier = {} /\ ~irqActive
  /\ dpc = "printed" => ~threReported
  /\ dlab <=> dpc = "divisor"
  /\ dpc = "divisor" => txq = 0
  /\ ~Printing => saved = {}

\* With bytes queued, the driver has not looked for the last time.
QueueIsServed == txq > 0 /\ dpc \in {"idle", "iir"} => irqActive

UartInv == UartTypeOK /\ ReasonShown /\ EdgeWaits /\ EnabledForQueue /\ QueueIsServed
-----------------------------------------------------------------------------
\* What assessIRQstatus leaves behind, for the DR, IER and thre_reported it is given.
LEMMA AssessFacts ==
  ASSUME NEW d \in BOOLEAN, NEW e, NEW rep \in BOOLEAN,
         UartTypeOK, Assess(d, e, rep)
  PROVE  /\ iir' \in {"rx", "thre", "none"}
         /\ irqActive' \in BOOLEAN /\ latched' \in BOOLEAN /\ threReported' \in BOOLEAN
         /\ iir' = "none" <=> ~irqActive'
         /\ ~irqActive' => ~(d /\ "RXDA" \in e) /\ ("THRE" \in e => threReported')
         /\ d /\ "RXDA" \in e => irqActive'
         /\ "THRE" \in e /\ ~rep => irqActive'
         /\ e = {} => ~irqActive' /\ threReported' = rep
         /\ latched => latched'
         /\ irqActive' /\ ~irqActive => latched'
BY DEF Assess, UartTypeOK

\* What an access gives assessIRQstatus, and where it leaves the driver: not
\* outside its handler with irq_active set and no edge latched.
Gives(d, e, rep) ==
  /\ d \in BOOLEAN /\ e \subseteq Reasons /\ rep \in BOOLEAN
  /\ dr' = d /\ ier' = e
  /\ saved' \subseteq Reasons /\ txq' \in Nat /\ dlab' \in BOOLEAN
  /\ dpc' \in {"idle", "kick", "print", "printed", "divisor", "iir", "lsr", "rx", "tx"}
  /\ irqActive => latched \/ Handling'

(* An access that ends in assessIRQstatus keeps the parts of the invariant *)
(* that do not depend on where the driver is.                              *)
LEMMA AccessFacts ==
  ASSUME UartInv, NEW d, NEW e, NEW rep, Assess(d, e, rep), Gives(d, e, rep)
  PROVE  /\ UartTypeOK' /\ ReasonShown' /\ EdgeWaits'
         /\ d /\ "RXDA" \in e => irqActive'
         /\ "THRE" \in e /\ ~rep => irqActive'
         /\ e = {} => ~irqActive' /\ threReported' = rep
<1> USE DEF UartInv
<1>1. /\ iir' \in {"rx", "thre", "none"}
      /\ irqActive' \in BOOLEAN /\ latched' \in BOOLEAN /\ threReported' \in BOOLEAN
      /\ iir' = "none" <=> ~irqActive'
      /\ ~irqActive' => ~(d /\ "RXDA" \in e) /\ ("THRE" \in e => threReported')
      /\ d /\ "RXDA" \in e => irqActive'
      /\ "THRE" \in e /\ ~rep => irqActive'
      /\ e = {} => ~irqActive' /\ threReported' = rep
      /\ latched => latched'
      /\ irqActive' /\ ~irqActive => latched'
  BY AssessFacts DEF Gives
<1>2. UartTypeOK'   BY <1>1 DEF UartTypeOK, Gives
<1>3. ReasonShown'  BY <1>1 DEF ReasonShown, Gives
<1>4. EdgeWaits'    BY <1>1 DEF EdgeWaits, Gives
<1> QED BY <1>1, <1>2, <1>3, <1>4

\* The first state: nothing enabled, nothing queued.
LEMMA UartInitInv == UartInit => UartInv
<1> SUFFICES ASSUME UartInit PROVE UartInv
  OBVIOUS
<1>1. ~dr /\ ~dlab /\ ~irqActive /\ ~threReported /\ ~latched
  BY DEF UartInit
<1>2. UartTypeOK
  BY DEF UartInit, UartTypeOK
<1>3. ReasonShown /\ EdgeWaits /\ QueueIsServed
  BY <1>1 DEF UartInit, ReasonShown, EdgeWaits, QueueIsServed
<1>4. EnabledForQueue
  BY <1>1 DEF UartInit, EnabledForQueue, Enabled, Printing
<1> QED BY <1>2, <1>3, <1>4 DEF UartInv

\* The listener thread and the far end.
LEMMA BackEndInv == UartInv /\ (Type \/ Listener) => UartInv'
<1> SUFFICES ASSUME UartInv, Type \/ Listener PROVE UartInv'
  OBVIOUS
<1> USE DEF UartInv
<1>1. CASE Type \/ Poll \/ Claim
  BY <1>1 DEF Type, Poll, Claim, uart, UartTypeOK, ReasonShown, EdgeWaits, Handling, Printing,
              Enabled, EnabledForQueue, QueueIsServed
<1>2. CASE AsyncRxCB
  <2>1. /\ Assess(TRUE, ier, threReported) /\ dr' = TRUE
        /\ UNCHANGED <<ier, dlab, txq, dpc, saved>>
    BY <1>2 DEF AsyncRxCB
  <2>2. irqActive => latched \/ Handling'
    BY <2>1 DEF EdgeWaits, Handling
  <2>3. /\ UartTypeOK' /\ ReasonShown' /\ EdgeWaits'
        /\ "RXDA" \in ier => irqActive'
        /\ ier = {} => ~irqActive' /\ threReported' = threReported
    <3>1. Gives(TRUE, ier, threReported)
      BY <2>1, <2>2 DEF Gives, UartTypeOK
    <3> QED BY <2>1, <2>2, <3>1, AccessFacts
  <2>4. EnabledForQueue'
    BY <2>1, <2>3 DEF EnabledForQueue, Printing, Enabled
  <2>5. QueueIsServed'
    BY <2>1, <2>3 DEF EnabledForQueue, Printing, Enabled, QueueIsServed, Reasons
  <2> QED BY <2>3, <2>4, <2>5
<1> QED BY <1>1, <1>2 DEF Listener

(* A driver that rests has stopped sending: the facts from which its next  *)
(* operation starts, and the property itself.                              *)
LEMMA RestingFacts ==
  ASSUME UartInv, Resting
  PROVE  /\ ~irqActive /\ ~latched /\ dpc = "idle" /\ txq = 0
         /\ ~(dr /\ "RXDA" \in ier) /\ "THRE" \notin ier /\ ~dlab /\ saved = {}
<1> USE DEF UartInv
<1>1. dpc = "idle" /\ ~latched /\ ~Handling /\ ~Printing
  BY DEF Resting, Handling, Printing
<1>2. ~irqActive  BY <1>1 DEF EdgeWaits
<1>3. txq = 0  BY <1>1, <1>2 DEF QueueIsServed, UartTypeOK
<1> QED BY <1>1, <1>2, <1>3 DEF ReasonShown, EnabledForQueue, Enabled

\* What the driver does on its own account.
LEMMA DriverInv ==
  UartInv /\ (Open \/ StartTx \/ PrintMasks \/ SelectDivisor \/ WriteDivisor) => UartInv'
<1> SUFFICES ASSUME UartInv, Open \/ StartTx \/ PrintMasks \/ SelectDivisor \/ WriteDivisor
             PROVE  UartInv'
  OBVIOUS
<1> USE DEF UartInv
<1>0. UartTypeOK  OBVIOUS
<1>1. CASE Open
  <2>1. /\ ~irqActive /\ dpc = "idle" /\ txq = 0 /\ "THRE" \notin ier /\ ~dlab /\ saved = {}
    BY <1>1, RestingFacts DEF Open
  <2>2. /\ ier' = ier \cup {"RXDA"} /\ Assess(dr, ier', threReported)
        /\ UNCHANGED <<dr, dlab, txq, dpc, saved>>
    BY <1>1, <2>1 DEF Open, WriteIER
  <2>3. UartTypeOK' /\ ReasonShown' /\ EdgeWaits'
    <3>1. Gives(dr, ier', threReported)
      BY <2>1, <2>2, <1>0 DEF Gives, UartTypeOK, Reasons
    <3> QED BY <2>1, <2>2, <3>1, AccessFacts DEF Reasons
  <2>4. EnabledForQueue'
    BY <2>1, <2>2 DEF EnabledForQueue, Printing, Enabled
  <2>5. QueueIsServed'
    BY <2>1, <2>2 DEF QueueIsServed
  <2> QED BY <2>3, <2>4, <2>5
<1>2. CASE StartTx
  <2>1. /\ ~irqActive /\ dpc = "idle" /\ txq = 0 /\ "THRE" \notin ier /\ ~dlab /\ saved = {}
        /\ "RXDA" \in ier
    BY <1>2, RestingFacts DEF StartTx
  <2>2. /\ ier' = ier \cup {"THRE"} /\ Assess(dr, ier', threReported)
        /\ UNCHANGED <<dr, dlab, saved>> /\ dpc' = "kick"
    BY <1>2, <2>1 DEF StartTx, WriteIER
  <2>3. txq' \in Nat /\ txq' > 0
    BY <1>2, <2>1, UartAssumption DEF StartTx
  <2>4. UartTypeOK' /\ ReasonShown' /\ EdgeWaits'
    <3>1. Gives(dr, ier', threReported)
      BY <2>1, <2>2, <2>3, <1>0 DEF Gives, UartTypeOK, Reasons
    <3> QED BY <2>1, <2>2, <2>3, <3>1, AccessFacts DEF Reasons
  <2>5. EnabledForQueue'
    BY <2>1, <2>2, <2>3 DEF EnabledForQueue, Printing, Enabled, Reasons
  <2>6. QueueIsServed'
    BY <2>2 DEF QueueIsServed
  <2> QED BY <2>4, <2>5, <2>6
<1>3. CASE PrintMasks
  <2>1. dpc = "idle" /\ ~dlab /\ (irqActive => latched) /\ ~Printing
    BY <1>3 DEF PrintMasks, EnabledForQueue, EdgeWaits, Handling, Printing
  <2>2. /\ ier' = {} /\ Assess(dr, ier', threReported)
        /\ UNCHANGED <<dr, dlab, txq>> /\ dpc' = "print" /\ saved' = ier
    BY <1>3, <2>1 DEF PrintMasks, WriteIER
  <2>3. UartTypeOK' /\ ReasonShown' /\ EdgeWaits' /\ ~irqActive'
    <3>1. Gives(dr, ier', threReported)
      BY <2>1, <2>2, <1>0 DEF Gives, UartTypeOK, Reasons
    <3> QED BY <2>1, <2>2, <3>1, AccessFacts DEF Reasons
  <2>4. EnabledForQueue'
    BY <2>1, <2>2, <2>3 DEF EnabledForQueue, Printing, Enabled
  <2>5. QueueIsServed'
    BY <2>2 DEF QueueIsServed
  <2> QED BY <2>3, <2>4, <2>5
<1>4. CASE SelectDivisor
  <2>1. /\ ~irqActive /\ dpc = "idle" /\ txq = 0 /\ "THRE" \notin ier /\ ~dlab /\ saved = {}
    BY <1>4, RestingFacts DEF SelectDivisor
  <2>2. /\ Assess(dr, ier, threReported) /\ dlab' = TRUE
        /\ UNCHANGED <<dr, ier, txq, saved>> /\ dpc' = "divisor"
    BY <1>4 DEF SelectDivisor, WriteLCR
  <2>3. UartTypeOK' /\ ReasonShown' /\ EdgeWaits'
    <3>1. Gives(dr, ier, threReported)
      BY <2>1, <2>2, <1>0 DEF Gives, UartTypeOK
    <3> QED BY <2>1, <2>2, <3>1, AccessFacts
  <2>4. EnabledForQueue'
    BY <2>1, <2>2 DEF EnabledForQueue, Printing, Enabled
  <2>5. QueueIsServed'
    BY <2>2 DEF QueueIsServed
  <2> QED BY <2>3, <2>4, <2>5
<1>5. CASE WriteDivisor
  <2>1. /\ dpc = "divisor" /\ dlab /\ txq = 0 /\ saved = {} /\ "THRE" \notin ier
        /\ (irqActive => latched)
    BY <1>5 DEF WriteDivisor, EnabledForQueue, EdgeWaits, Handling, Printing, Enabled
  <2>2. /\ Assess(dr, ier, threReported) /\ UNCHANGED <<dr, ier, dlab, txq, dpc, saved>>
    BY <1>0, <1>5, <2>1 DEF WriteDivisor, WriteTHR, WriteIER, UartTypeOK
  <2>3. UartTypeOK' /\ ReasonShown' /\ EdgeWaits'
    <3>1. Gives(dr, ier, threReported)
      BY <2>1, <2>2, <1>0 DEF Gives, UartTypeOK
    <3> QED BY <2>1, <2>2, <3>1, AccessFacts
  <2>4. EnabledForQueue'
    BY <2>1, <2>2 DEF EnabledForQueue, Printing, Enabled
  <2>5. QueueIsServed'
    BY <2>1, <2>2 DEF QueueIsServed
  <2> QED BY <2>3, <2>4, <2>5
<1> QED BY <1>1, <1>2, <1>3, <1>4, <1>5

\* The interrupt handler, and the ends of printing and of setting the divisor.
LEMMA ServeInv == UartInv /\ Serve => UartInv'
<1> SUFFICES ASSUME UartInv, Serve PROVE UartInv'
  OBVIOUS
<1> USE DEF UartInv
<1>0. UartTypeOK  OBVIOUS
<1>1. CASE Acknowledge
  <2>1. /\ dpc = "idle" /\ dpc' = "iir" /\ latched' = FALSE
        /\ UNCHANGED <<dr, ier, iir, dlab, irqActive, threReported, txq, saved>>
    BY <1>1 DEF Acknowledge, uart
  <2>2. UartTypeOK' /\ ReasonShown' /\ EdgeWaits'
    BY <1>0, <2>1 DEF UartTypeOK, ReasonShown, EdgeWaits, Handling
  <2>3. EnabledForQueue' /\ QueueIsServed'
    BY <2>1 DEF EnabledForQueue, Printing, Enabled, QueueIsServed
  <2> QED BY <2>2, <2>3
<1>2. CASE ReadIIR
  <2>1. /\ dpc = "iir" /\ ~dlab /\ saved = {} /\ (dpc' = "lsr" \/ (dpc' = "idle" /\ ~irqActive))
    BY <1>2 DEF ReadIIR, EnabledForQueue, Printing, ReasonShown
  <2>2. Assess(dr, ier, threReported) /\ UNCHANGED <<dr, ier, dlab, txq, saved>>
    BY <1>0, <1>2, <2>1 DEF ReadIIR, ReadOther
  <2>3. UartTypeOK' /\ ReasonShown' /\ EdgeWaits'
    <3>1. Gives(dr, ier, threReported)
      BY <1>0, <2>1, <2>2 DEF Gives, UartTypeOK, Handling
    <3> QED BY <1>0, <2>1, <2>2, <3>1, AccessFacts
  <2>4. EnabledForQueue'
    BY <1>0, <2>1, <2>2, <2>3 DEF EnabledForQueue, Printing, Enabled, Reasons, UartTypeOK
  <2>5. QueueIsServed'
    BY <1>0, <2>1, <2>2, <2>3 DEF QueueIsServed
  <2> QED BY <2>3, <2>4, <2>5
<1>3. CASE ReadLSR
  <2>1. /\ dpc = "lsr" /\ ~dlab /\ saved = {}
        /\ dpc' \in {"rx", "tx", "iir"} /\ (dpc' = "iir" => "THRE" \notin ier)
    BY <1>3 DEF ReadLSR, EnabledForQueue, Printing
  <2>2. Assess(dr, ier, threReported) /\ UNCHANGED <<dr, ier, dlab, txq, saved>>
    BY <1>0, <1>3, <2>1 DEF ReadLSR, ReadOther
  <2>3. UartTypeOK' /\ ReasonShown' /\ EdgeWaits'
    <3>1. Gives(dr, ier, threReported)
      BY <1>0, <2>1, <2>2 DEF Gives, UartTypeOK, Handling
    <3> QED BY <1>0, <2>1, <2>2, <3>1, AccessFacts
  <2>4. EnabledForQueue'
    BY <1>0, <2>1, <2>2, <2>3 DEF EnabledForQueue, Printing, Enabled, Reasons, UartTypeOK
  <2>5. QueueIsServed'
    BY <1>0, <2>1, <2>2, <2>3 DEF EnabledForQueue, Printing, Enabled, Reasons, UartTypeOK, QueueIsServed
  <2> QED BY <2>3, <2>4, <2>5
<1>4. CASE Receive
  <2>1. dpc = "rx" /\ ~dlab /\ saved = {} /\ dpc' = "lsr"
    BY <1>4 DEF Receive, EnabledForQueue, Printing
  <2>2. Assess(FALSE, ier, threReported) /\ dr' = FALSE /\ UNCHANGED <<ier, dlab, txq, saved>>
    BY <1>0, <1>4, <2>1 DEF Receive, ReadRBR
  <2>3. UartTypeOK' /\ ReasonShown' /\ EdgeWaits'
    <3>1. Gives(FALSE, ier, threReported)
      BY <1>0, <2>1, <2>2 DEF Gives, UartTypeOK, Handling
    <3> QED BY <1>0, <2>1, <2>2, <3>1, AccessFacts
  <2>4. EnabledForQueue'
    BY <1>0, <2>1, <2>2, <2>3 DEF EnabledForQueue, Printing, Enabled, Reasons, UartTypeOK
  <2>5. QueueIsServed'
    BY <1>0, <2>1, <2>2, <2>3 DEF QueueIsServed
  <2> QED BY <2>3, <2>4, <2>5
<1>5. CASE Transmit
  <2>1. /\ dpc \in {"tx", "kick"} /\ txq > 0 /\ ~dlab /\ saved = {} /\ Reasons \subseteq ier
        /\ (dpc = "kick" => (irqActive => latched))
    BY <1>5 DEF Transmit, EnabledForQueue, Printing, Enabled, EdgeWaits, Handling
  <2>2. /\ Assess(dr, ier, FALSE) /\ UNCHANGED <<dr, ier, dlab, saved>>
        /\ txq' \in Nat /\ txq' = txq - 1
        /\ dpc' = IF txq' = 0 THEN dpc ELSE IF dpc = "kick" THEN "idle" ELSE "iir"
    <3>1. WriteTHR /\ UNCHANGED <<dr, ier, dlab, saved>>
      BY <1>5, <2>1 DEF Transmit, WriteTHR
    <3>2. Assess(dr, ier, FALSE)
      BY <1>0, <2>1, <3>1 DEF WriteTHR, UartTypeOK
    <3>3. txq' = txq - 1 /\ txq' \in Nat
      BY <1>0, <1>5, <2>1 DEF Transmit, UartTypeOK
    <3>4. dpc' = IF txq' = 0 THEN dpc ELSE IF dpc = "kick" THEN "idle" ELSE "iir"
      BY <1>5 DEF Transmit, Back
    <3> QED BY <3>1, <3>2, <3>3, <3>4
  <2>3. UartTypeOK' /\ ReasonShown' /\ EdgeWaits' /\ irqActive'
    <3>1. Gives(dr, ier, FALSE)
      BY <1>0, <2>1, <2>2 DEF Gives, UartTypeOK, Handling, Reasons
    <3> QED BY <1>0, <2>1, <2>2, <3>1, AccessFacts DEF Reasons
  <2>4. EnabledForQueue'
    BY <1>0, <2>1, <2>2, <2>3 DEF EnabledForQueue, Printing, Enabled, Reasons, UartTypeOK
  <2>5. QueueIsServed'
    BY <1>0, <2>1, <2>2, <2>3 DEF QueueIsServed
  <2> QED BY <2>3, <2>4, <2>5
<1>6. CASE StopTx
  <2>1. /\ dpc \in {"tx", "kick"} /\ txq = 0 /\ ~dlab /\ saved = {}
        /\ (dpc = "kick" => (irqActive => latched))
    BY <1>6 DEF StopTx, EnabledForQueue, Printing, Enabled, EdgeWaits, Handling
  <2>2. /\ ier' = ier \ {"THRE"} /\ Assess(dr, ier', threReported) /\ UNCHANGED <<dr, dlab, saved, txq>>
        /\ dpc' = IF dpc = "kick" THEN "idle" ELSE "iir"
    BY <1>0, <1>6, <2>1 DEF StopTx, WriteIER, Back
  <2>3. UartTypeOK' /\ ReasonShown' /\ EdgeWaits'
    <3>1. Gives(dr, ier', threReported)
      BY <1>0, <2>1, <2>2 DEF Gives, UartTypeOK, Handling, Reasons
    <3> QED BY <1>0, <2>1, <2>2, <3>1, AccessFacts DEF Reasons
  <2>4. EnabledForQueue'
    BY <1>0, <2>1, <2>2, <2>3 DEF EnabledForQueue, Printing, Enabled, Reasons, UartTypeOK
  <2>5. QueueIsServed'
    BY <1>0, <2>1, <2>2, <2>3 DEF QueueIsServed
  <2> QED BY <2>3, <2>4, <2>5
<1>7. CASE DivisorDone
  <2>1. /\ dpc = "divisor" /\ txq = 0 /\ saved = {} /\ "THRE" \notin ier /\ (irqActive => latched)
    BY <1>7 DEF DivisorDone, EnabledForQueue, Printing, Enabled, EdgeWaits, Handling
  <2>2. /\ Assess(dr, ier, threReported) /\ dlab' = FALSE /\ UNCHANGED <<dr, ier, saved, txq>>
        /\ dpc' = "idle"
    BY <1>0, <1>7, <2>1 DEF DivisorDone, WriteLCR
  <2>3. UartTypeOK' /\ ReasonShown' /\ EdgeWaits'
    <3>1. Gives(dr, ier, threReported)
      BY <1>0, <2>1, <2>2 DEF Gives, UartTypeOK
    <3> QED BY <1>0, <2>1, <2>2, <3>1, AccessFacts
  <2>4. EnabledForQueue'
    BY <1>0, <2>1, <2>2, <2>3 DEF EnabledForQueue, Printing, Enabled, Reasons, UartTypeOK
  <2>5. QueueIsServed'
    BY <1>0, <2>1, <2>2, <2>3 DEF QueueIsServed
  <2> QED BY <2>3, <2>4, <2>5
<1>8. CASE PrintByte
  <2>1. /\ dpc = "print" /\ ~dlab /\ ier = {} /\ ~irqActive /\ Printing
    BY <1>8 DEF PrintByte, EnabledForQueue, Printing
  <2>2. /\ Assess(dr, ier, FALSE) /\ UNCHANGED <<dr, ier, dlab, saved, txq>> /\ dpc' = "printed"
    BY <1>0, <1>8, <2>1 DEF PrintByte, WriteTHR, UartTypeOK
  <2>3. UartTypeOK' /\ ReasonShown' /\ EdgeWaits' /\ ~irqActive' /\ ~threReported'
    <3>1. Gives(dr, ier, FALSE)
      BY <1>0, <2>1, <2>2 DEF Gives, UartTypeOK
    <3> QED BY <1>0, <2>1, <2>2, <3>1, AccessFacts
  <2>4. EnabledForQueue'
    BY <1>0, <2>1, <2>2, <2>3 DEF EnabledForQueue, Printing, Enabled, Reasons, UartTypeOK
  <2>5. QueueIsServed'
    BY <1>0, <2>1, <2>2, <2>3 DEF QueueIsServed
  <2> QED BY <2>3, <2>4, <2>5
<1>9. CASE PrintUnmasks
  <2>1. /\ dpc = "printed" /\ ~dlab /\ ier = {} /\ ~irqActive /\ Printing /\ ~threReported
        /\ (txq > 0 => Reasons \subseteq saved) /\ (txq = 0 => "THRE" \notin saved)
    BY <1>9 DEF PrintUnmasks, EnabledForQueue, Printing, Enabled
  <2>2. /\ ier' = saved /\ Assess(dr, ier', threReported) /\ UNCHANGED <<dr, dlab, txq>>
        /\ dpc' = "idle" /\ saved' = {}
    BY <1>0, <1>9, <2>1 DEF PrintUnmasks, WriteIER
  <2>3. UartTypeOK' /\ ReasonShown' /\ EdgeWaits' /\ ("THRE" \in saved => irqActive')
    <3>1. Gives(dr, ier', threReported)
      BY <1>0, <2>1, <2>2 DEF Gives, UartTypeOK
    <3> QED BY <1>0, <2>1, <2>2, <3>1, AccessFacts
  <2>4. EnabledForQueue'
    BY <1>0, <2>1, <2>2, <2>3 DEF EnabledForQueue, Printing, Enabled, Reasons, UartTypeOK
  <2>5. QueueIsServed'
    BY <1>0, <2>1, <2>2, <2>3 DEF QueueIsServed, Reasons, UartTypeOK
  <2> QED BY <2>3, <2>4, <2>5
<1> QED BY <1>1, <1>2, <1>3, <1>4, <1>5, <1>6, <1>7, <1>8, <1>9 DEF Serve

\* UartInv is an invariant.
THEOREM UartInvariant == UartSpec => []UartInv
<1>1. UartInv /\ [UartNext]_uartVars => UartInv'
  <2> SUFFICES ASSUME UartInv, [UartNext]_uartVars PROVE UartInv'
    OBVIOUS
  <2>1. CASE UartNext
    BY <2>1, BackEndInv, DriverInv, ServeInv DEF UartNext
  <2>2. CASE UNCHANGED uartVars
    BY <2>2 DEF uartVars, uart, UartInv, UartTypeOK, ReasonShown, EdgeWaits, Handling, Printing,
                Enabled, EnabledForQueue, QueueIsServed
  <2> QED BY <2>1, <2>2
<1> QED BY <1>1, UartInitInv, PTL DEF UartSpec

(* A driver that rests has sent all it queued, and no byte it asked for is *)
(* waiting, for any number of bytes typed and queued: the edges that       *)
(* assessIRQstatus sends are enough, whatever was read, sent, masked or    *)
(* reported before.                                                        *)
THEOREM DriverRestsOnlyWhenDone == UartSpec => []RestsOnlyWhenDone
<1>1. UartInv => RestsOnlyWhenDone
  BY RestingFacts DEF RestsOnlyWhenDone
<1> QED BY <1>1, UartInvariant, PTL
=============================================================================
