---------------------------- MODULE ConsoleInput ----------------------------
(***************************************************************************)
(* Console input: a terminal (SerialPTY) or a socket (SerialTCP) whose     *)
(* listener thread tells DevSimpleUart of input, while the CPU thread reads*)
(* and writes the UART's registers.  The UART's mutex covers its registers *)
(* and is held through getByte; the fd and reportRX are under no lock.  A  *)
(* section that holds the mutex and touches nothing else is one action.    *)
(***************************************************************************)
EXTENDS Naturals

CONSTANTS
  Backends,    \* the classes a platform may be built with: "PTY", "TCP"
  MaxPending,  \* bound on the bytes typed ahead
  Polite       \* whether the guest reads RX only when it has seen RXNE

ASSUME ConsoleAssumption ==
  Backends \subseteq {"PTY", "TCP"} /\ MaxPending \in Nat \ {0} /\ Polite \in BOOLEAN

VARIABLES
  backend,     \* the AbstractSerial in use; never changes
  pending,     \* bytes to be read from tty_fd or skt_fd
  conn,        \* what poll would say of that fd
  caller,      \* TCP: a connection waits to be accepted
  reportRX,
  rxne,        \* STATUS.RXNE
  rxIrq,       \* IRQ_STATUS.RX
  rxEnable,    \* IRQ_ENABLE.RX
  irqActive,
  latched,     \* the UART's line in the interrupt controller
  lpc,         \* where the listener thread is
  cpc          \* where the CPU thread is; not "idle": it holds the mutex

far == <<backend, caller>>
wire == <<far, pending, conn>>
uart == <<rxne, rxIrq, rxEnable, irqActive, latched>>
consoleVars == <<wire, reportRX, uart, lpc, cpc>>

\* "none": skt_fd is -1.  "eof": the peer has closed.
Conn == IF backend = "PTY" THEN {"hup", "open"} ELSE {"none", "open", "eof", "reset"}

\* poll answers POLLIN, and neither POLLERR nor POLLHUP
Ready == (conn = "open" /\ pending > 0) \/ conn = "eof"

\* getByte does not wait: the fd is set non-blocking, EAGAIN alone is retried
Answers == backend = "TCP" \/ conn = "hup" \/ pending > 0

(* assessIRQstatus; the rising edge calls triggerIRQ *)
Assess(status, enable) ==
  /\ irqActive' = (status /\ enable)
  /\ latched' = (latched \/ (irqActive' /\ ~irqActive))
-----------------------------------------------------------------------------
(* The far end *)

Type ==
  /\ conn = "open"
  /\ pending < MaxPending
  /\ pending' = pending + 1
  /\ UNCHANGED <<far, conn, reportRX, uart, lpc, cpc>>

TerminalOpens ==
  /\ conn = "hup"
  /\ conn' = "open"
  /\ UNCHANGED <<far, pending, reportRX, uart, lpc, cpc>>

TerminalCloses ==
  /\ backend = "PTY"
  /\ conn = "open"
  /\ conn' = "hup"
  /\ UNCHANGED <<far, pending, reportRX, uart, lpc, cpc>>

Connect ==
  /\ backend = "TCP"
  /\ ~caller
  /\ caller' = TRUE
  /\ UNCHANGED <<backend, pending, conn, reportRX, uart, lpc, cpc>>

PeerCloses ==
  /\ backend = "TCP"
  /\ conn = "open"
  /\ conn' = "eof"
  /\ UNCHANGED <<far, pending, reportRX, uart, lpc, cpc>>

PeerResets ==
  /\ backend = "TCP"
  /\ conn \in {"open", "eof"}
  /\ conn' = "reset"
  /\ pending' = 0
  /\ UNCHANGED <<far, reportRX, uart, lpc, cpc>>
-----------------------------------------------------------------------------
(* The listener thread *)

\* The handling of POLLHUP comes second: it also drops what accept returned.
Poll ==
  /\ lpc = "poll"
  /\ Ready \/ caller \/ conn = "reset"
  /\ lpc' = IF Ready THEN "check" ELSE "poll"
  /\ caller' = FALSE
  /\ IF conn = "reset" THEN conn' = "none" /\ pending' = 0
     ELSE IF caller THEN conn' = "open" /\ pending' \in 0..MaxPending
     ELSE UNCHANGED <<conn, pending>>
  /\ UNCHANGED <<backend, reportRX, uart, cpc>>

Check ==
  /\ lpc = "check"
  /\ lpc' = IF reportRX THEN "claim" ELSE "poll"
  /\ UNCHANGED <<wire, reportRX, uart, cpc>>

Claim ==
  /\ lpc = "claim"
  /\ reportRX' = FALSE
  /\ lpc' = "callback"
  /\ UNCHANGED <<wire, uart, cpc>>

\* Mutant of AsyncRxCB: gives up when the mutex is taken.
AsyncRxCBUnlessBusy ==
  /\ lpc = "callback"
  /\ lpc' = "poll"
  /\ IF cpc = "idle"
       THEN rxne' = TRUE /\ rxIrq' = TRUE /\ Assess(TRUE, rxEnable)
       ELSE UNCHANGED <<rxne, rxIrq, irqActive, latched>>
  /\ UNCHANGED <<wire, reportRX, rxEnable, cpc>>

AsyncRxCB ==
  /\ lpc = "callback"
  /\ cpc = "idle"
  /\ rxne' = TRUE
  /\ rxIrq' = TRUE
  /\ Assess(TRUE, rxEnable)
  /\ lpc' = "poll"
  /\ UNCHANGED <<wire, reportRX, rxEnable, cpc>>
-----------------------------------------------------------------------------
(* The CPU thread *)

ReadRX ==
  /\ cpc = "idle"
  /\ Polite => rxne
  /\ cpc' = "getByte"
  /\ UNCHANGED <<wire, reportRX, uart, lpc>>

\* Mutant of GetByte: does not look whether there was a byte.
GetByteUnchecked ==
  /\ cpc = "getByte"
  /\ Answers
  /\ pending' = pending - 1
  /\ cpc' = "rearm"
  /\ UNCHANGED <<far, conn, reportRX, uart, lpc>>

GetByte ==
  /\ cpc = "getByte"
  /\ Answers
  /\ pending' = IF pending > 0 THEN pending - 1 ELSE 0
  /\ cpc' = "rearm"
  /\ UNCHANGED <<far, conn, reportRX, uart, lpc>>

\* Mutant of Rearm: reports again only if there is more to read.
RearmIfMore ==
  /\ cpc = "rearm"
  /\ reportRX' = (pending > 0)
  /\ cpc' = "finish"
  /\ UNCHANGED <<wire, uart, lpc>>

Rearm ==
  /\ cpc = "rearm"
  /\ reportRX' = TRUE
  /\ cpc' = "finish"
  /\ UNCHANGED <<wire, uart, lpc>>

FinishRX ==
  /\ cpc = "finish"
  /\ rxne' = FALSE
  /\ Assess(rxIrq, rxEnable)
  /\ cpc' = "idle"
  /\ UNCHANGED <<wire, reportRX, rxIrq, rxEnable, lpc>>

\* the other registers read, and TX written
AccessOther ==
  /\ cpc = "idle"
  /\ Assess(rxIrq, rxEnable)
  /\ UNCHANGED <<wire, reportRX, rxne, rxIrq, rxEnable, lpc, cpc>>

\* Mutant of WriteIrqStatus: the interrupt is not reassessed.
WriteIrqStatusOnly(rx) ==
  /\ cpc = "idle"
  /\ rxIrq' = (rxIrq /\ ~rx)
  /\ UNCHANGED <<wire, reportRX, rxne, rxEnable, irqActive, latched, lpc, cpc>>

WriteIrqStatus(rx) ==
  /\ cpc = "idle"
  /\ rxIrq' = (rxIrq /\ ~rx)
  /\ Assess(rxIrq', rxEnable)
  /\ UNCHANGED <<wire, reportRX, rxne, rxEnable, lpc, cpc>>

WriteIrqEnable(rx) ==
  /\ cpc = "idle"
  /\ rxEnable' = rx
  /\ Assess(rxIrq, rx)
  /\ UNCHANGED <<wire, reportRX, rxne, rxIrq, lpc, cpc>>

\* the guest acknowledges the line at the interrupt controller
Acknowledge ==
  /\ cpc = "idle"
  /\ latched' = FALSE
  /\ UNCHANGED <<wire, reportRX, rxne, rxIrq, rxEnable, irqActive, lpc, cpc>>
-----------------------------------------------------------------------------
ConsoleInit ==
  /\ backend \in Backends
  /\ pending = 0
  /\ conn = IF backend = "PTY" THEN "hup" ELSE "none"
  /\ caller = FALSE
  /\ reportRX = TRUE
  /\ rxne = FALSE /\ rxIrq = FALSE /\ rxEnable = FALSE
  /\ irqActive = FALSE /\ latched = FALSE
  /\ lpc = "poll"
  /\ cpc = "idle"

FarEnd == Type \/ TerminalOpens \/ TerminalCloses \/ Connect \/ PeerCloses \/ PeerResets

Listener == Poll \/ Check \/ Claim \/ AsyncRxCB

InRead == GetByte \/ Rearm \/ FinishRX

Guest ==
  \/ ReadRX \/ InRead \/ AccessOther \/ Acknowledge
  \/ \E rx \in BOOLEAN : WriteIrqStatus(rx) \/ WriteIrqEnable(rx)

ConsoleNext == FarEnd \/ Listener \/ Guest

\* Both threads run.  A listener that waits for the mutex gets it in the end,
\* however often the guest takes it.  Nothing makes anyone type or connect, and
\* nothing makes the guest start an access.
ConsoleSpec ==
  /\ ConsoleInit /\ [][ConsoleNext]_consoleVars
  /\ WF_consoleVars(Poll \/ Check \/ Claim) /\ SF_consoleVars(AsyncRxCB)
  /\ WF_consoleVars(InRead)
-----------------------------------------------------------------------------
(* Type correctness; the queue of typed bytes stays within its bound.      *)
ConsoleTypeOK ==
  /\ backend \in Backends
  /\ pending \in 0..MaxPending
  /\ conn \in Conn
  /\ lpc \in {"poll", "check", "claim", "callback"}
  /\ cpc \in {"idle", "getByte", "rearm", "finish"}
  /\ caller \in BOOLEAN /\ reportRX \in BOOLEAN
  /\ rxne \in BOOLEAN /\ rxIrq \in BOOLEAN /\ rxEnable \in BOOLEAN
  /\ irqActive \in BOOLEAN /\ latched \in BOOLEAN

(* Input never sits there with nobody to report it: either the UART says   *)
(* RXNE, or the listener may still report, or is about to ("It isn't called*)
(* again until getByte() is called").                                      *)
NoStrandedInput ==
  reportRX \/ rxne \/ lpc = "callback" \/ (cpc = "rearm")

(* Each time the UART gains an enabled reason to interrupt, the interrupt  *)
(* controller receives an edge, whatever was read, cleared or masked before*)
(* (assessIRQstatus and irq_active).                                       *)
RisingReasonTriggers ==
  [][~(rxIrq /\ rxEnable) /\ (rxIrq /\ rxEnable)' => latched']_consoleVars

(* Input that can be read is shown to the guest, without it reading RX     *)
(* first (listenThread and asyncRxCB).                                     *)
InputReported == Ready ~> (rxne \/ ~Ready)

(* A guest that reads RX because it saw RXNE gets its byte while the       *)
(* terminal stays ("RX fifo non-empty (can read)").                        *)
RxneReadReturns == (cpc = "getByte" /\ rxne) ~> (cpc = "idle" \/ conn = "hup")
=============================================================================
