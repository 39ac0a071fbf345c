------------------------------ MODULE Uart16550 ------------------------------
(***************************************************************************)
(* DevUart, the 16550-like console of platform 1, between its back end and *)
(* an interrupt-driven driver such as Linux's.  The UART sends edges to the*)
(* interrupt controller, which latches them; the driver acknowledges the   *)
(* latch and then serves the UART until IIR says that nothing is left.     *)
(* Every register access, and asyncRxCB, holds the UART's mutex from end to*)
(* end and is one action.  LSR.THRE is always set: no driver writes LSR.   *)
(***************************************************************************)
EXTENDS Naturals

CONSTANTS
  MaxPending,  \* bound on the bytes typed ahead
  MaxTx        \* bound on the bytes the driver has queued

ASSUME UartAssumption == MaxPending \in Nat \ {0} /\ MaxTx \in Nat \ {0}

VARIABLES
  pending, reportRX, lpc,   \* the back end, as in ConsoleInput
  dr,                       \* LSR.DR
  ier,                      \* the interrupts enabled
  iir,                      \* the reason shown in IIR
  dlab,                     \* LCR.DLAB: registers 0 and 1 are DLL and DLM
  irqActive, threReported,
  latched,                  \* the UART's line in the interrupt controller
  txq,                      \* the driver's bytes still to be sent
  dpc,                      \* where the driver is
  saved                     \* the IER to be restored after printing

backEnd == <<pending, reportRX, lpc>>
uart == <<dr, ier, iir, dlab, irqActive, threReported>>
uartVars == <<backEnd, uart, latched, txq, dpc, saved>>

\* assessIRQstatus, with the new DR, IER and thre_reported
Assess(d, e, reported) ==
  LET rx == d /\ "RXDA" \in e
      thre == "THRE" \in e /\ ~reported
      rising == ~irqActive /\ (rx \/ thre)
  IN /\ iir' = IF rx THEN "rx" ELSE IF thre THEN "thre" ELSE "none"
     /\ irqActive' = (rx \/ thre)
     /\ latched' = (latched \/ rising)
     /\ threReported' = (reported \/ (rising /\ thre))
-----------------------------------------------------------------------------
(* Register accesses *)

\* Mutant of ReadRBR: the back end reports again only if it had more already.
ReadRBRRearmIfMore ==
  /\ pending' = IF pending > 0 THEN pending - 1 ELSE 0
  /\ reportRX' = (reportRX \/ pending > 1)
  /\ dr' = FALSE
  /\ Assess(FALSE, ier, threReported)
  /\ UNCHANGED <<lpc, ier, dlab>>

\* A byte, if there is one (SerialTCP; SerialPTY would wait for one, see
\* ConsoleInput); the back end may report again.
ReadRBR ==
  /\ pending' = IF pending > 0 THEN pending - 1 ELSE 0
  /\ reportRX' = TRUE
  /\ dr' = FALSE
  /\ Assess(FALSE, ier, threReported)
  /\ UNCHANGED <<lpc, ier, dlab>>

\* IIR, LSR and what else is only read
ReadOther ==
  /\ Assess(dr, ier, threReported)
  /\ UNCHANGED <<backEnd, dr, ier, dlab>>

\* Mutant of WriteTHR: sending a byte does not count as THRE going down and up.
WriteTHRStillReported ==
  /\ Assess(dr, ier, threReported)
  /\ UNCHANGED <<backEnd, dr, ier, dlab>>

\* sendByte, or DLL
WriteTHR ==
  /\ Assess(dr, ier, threReported /\ dlab)
  /\ UNCHANGED <<backEnd, dr, ier, dlab>>

\* IER, or DLM
WriteIER(e) ==
  /\ ier' = IF dlab THEN ier ELSE e
  /\ Assess(dr, ier', threReported)
  /\ UNCHANGED <<backEnd, dr, dlab>>

WriteLCR(d) ==
  /\ dlab' = d
  /\ Assess(dr, ier, threReported)
  /\ UNCHANGED <<backEnd, dr, ier>>
-----------------------------------------------------------------------------
(* The back end *)

Type ==
  /\ pending < MaxPending
  /\ pending' = pending + 1
  /\ UNCHANGED <<reportRX, lpc, uart, latched, txq, dpc, saved>>

Poll ==
  /\ lpc = "poll" /\ pending > 0
  /\ lpc' = "check"
  /\ UNCHANGED <<pending, reportRX, uart, latched, txq, dpc, saved>>

\* Nobody else clears reportRX: the test and the clearing are one step.
Claim ==
  /\ lpc = "check"
  /\ lpc' = IF reportRX THEN "callback" ELSE "poll"
  /\ reportRX' = FALSE
  /\ UNCHANGED <<pending, uart, latched, txq, dpc, saved>>

AsyncRxCB ==
  /\ lpc = "callback"
  /\ lpc' = "poll"
  /\ dr' = TRUE
  /\ Assess(TRUE, ier, threReported)
  /\ UNCHANGED <<pending, reportRX, ier, dlab, txq, dpc, saved>>
-----------------------------------------------------------------------------
(* The driver *)

\* With interrupts on, a latched line is served before anything else is done.
Resting == dpc = "idle" /\ ~latched

Open ==
  /\ Resting
  /\ WriteIER(ier \cup {"RXDA"})
  /\ UNCHANGED <<txq, dpc, saved>>

\* Only an open port sends.  With RXDA off, a byte that arrives before the
\* driver has read IIR would wipe the THRE reason, which is already reported.
\* Enabling THRE again raises nothing while threReported, so the driver, which
\* has found that out at startup, sends the first byte without waiting.
StartTx ==
  /\ Resting /\ "RXDA" \in ier
  /\ \E queued \in 1..MaxTx - txq : txq' = txq + queued
  /\ WriteIER(ier \cup {"THRE"})
  /\ dpc' = IF "THRE" \in ier THEN "idle" ELSE "kick"
  /\ UNCHANGED saved

\* Printing by polling, with interrupts off, also while the line is latched
PrintMasks ==
  /\ dpc = "idle"
  /\ WriteIER({})
  /\ saved' = ier
  /\ dpc' = "print"
  /\ UNCHANGED txq

PrintByte ==
  /\ dpc = "print"
  /\ WriteTHR
  /\ dpc' = "printed"
  /\ UNCHANGED <<txq, saved>>

PrintUnmasks ==
  /\ dpc = "printed"
  /\ WriteIER(saved)
  /\ saved' = {}
  /\ dpc' = "idle"
  /\ UNCHANGED txq

\* The divisor, with interrupts off
SelectDivisor ==
  /\ Resting
  /\ WriteLCR(TRUE)
  /\ dpc' = "divisor"
  /\ UNCHANGED <<txq, saved>>

WriteDivisor ==
  /\ dpc = "divisor"
  /\ WriteTHR \/ \E e \in SUBSET {"RXDA", "THRE"} : WriteIER(e)
  /\ UNCHANGED <<txq, dpc, saved>>

DivisorDone ==
  /\ dpc = "divisor"
  /\ WriteLCR(FALSE)
  /\ dpc' = "idle"
  /\ UNCHANGED <<txq, saved>>

Acknowledge ==
  /\ dpc = "idle" /\ latched
  /\ latched' = FALSE
  /\ dpc' = "iir"
  /\ UNCHANGED <<backEnd, uart, txq, saved>>

ReadIIR ==
  /\ dpc = "iir"
  /\ dpc' = IF iir = "none" THEN "idle" ELSE "lsr"
  /\ ReadOther
  /\ UNCHANGED <<txq, saved>>

ReadLSR ==
  /\ dpc = "lsr"
  /\ dpc' = IF dr THEN "rx" ELSE IF "THRE" \in ier THEN "tx" ELSE "iir"
  /\ ReadOther
  /\ UNCHANGED <<txq, saved>>

Receive ==
  /\ dpc = "rx"
  /\ ReadRBR
  /\ dpc' = "lsr"
  /\ UNCHANGED <<txq, saved>>

\* One byte, from the interrupt handler or from StartTx.
Back == IF dpc = "kick" THEN "idle" ELSE "iir"

Transmit ==
  /\ dpc \in {"tx", "kick"} /\ txq > 0
  /\ WriteTHR
  /\ txq' = txq - 1
  /\ dpc' = IF txq' = 0 THEN dpc ELSE Back
  /\ UNCHANGED saved

StopTx ==
  /\ dpc \in {"tx", "kick"} /\ txq = 0
  /\ WriteIER(ier \ {"THRE"})
  /\ dpc' = Back
  /\ UNCHANGED <<txq, saved>>

Listener == Poll \/ Claim \/ AsyncRxCB
Serve ==
  \/ Acknowledge \/ ReadIIR \/ ReadLSR \/ Receive \/ Transmit \/ StopTx \/ DivisorDone
  \/ PrintByte \/ PrintUnmasks
-----------------------------------------------------------------------------
UartInit ==
  /\ pending = 0 /\ reportRX = TRUE /\ lpc = "poll"
  /\ dr = FALSE /\ ier = {} /\ iir = "none" /\ dlab = FALSE
  /\ irqActive = FALSE /\ threReported = FALSE /\ latched = FALSE
  /\ txq = 0 /\ dpc = "idle" /\ saved = {}

UartNext ==
  \/ Type \/ Listener
  \/ Open \/ StartTx \/ PrintMasks \/ SelectDivisor \/ WriteDivisor
  \/ Serve

\* Both threads run: the listener polls and gets the mutex in the end, and the
\* processor executes the driver it has entered.  It does not print or set
\* divisors for ever while an interrupt waits.
UartSpec ==
  /\ UartInit /\ [][UartNext]_uartVars
  /\ WF_uartVars(Listener) /\ WF_uartVars(Serve)
  /\ SF_uartVars(Acknowledge) /\ SF_uartVars(DivisorDone)
-----------------------------------------------------------------------------
(* A driver that rests with no interrupt pending has nothing left to send, *)
(* and no byte it asked for is waiting: every edge it was owed has come,   *)
(* whatever was read, sent, masked or reported before (assessIRQstatus,    *)
(* irq_active and thre_reported).                                          *)
RestsOnlyWhenDone ==
  Resting => txq = 0 /\ ~(dr /\ "RXDA" \in ier)

(* While the driver has receive interrupts on, what is typed is read       *)
(* ("the rx thread will trigger the async CB anyway").                     *)
InputIsRead ==
  (pending = MaxPending /\ "RXDA" \in ier) ~> (pending < MaxPending \/ "RXDA" \notin ier)
=============================================================================
