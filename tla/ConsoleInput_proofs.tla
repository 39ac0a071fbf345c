------------------------- MODULE ConsoleInput_proofs -------------------------
(* Proofs about ConsoleInput, for both back ends and any bound.            *)
EXTENDS ConsoleInput, TLAPS

(* What holds of the protocol at every step: between getByte and the       *)
(* clearing of RXNE reportRX stays set, unless the listener has taken it;  *)
(* and irq_active is the level of the interrupt.                           *)
ReportPending == cpc = "finish" => reportRX \/ lpc = "callback"
EdgeTracked == irqActive = (rxIrq /\ rxEnable)

ConsoleInv == ConsoleTypeOK /\ NoStrandedInput /\ ReportPending /\ EdgeTracked

(* The constants' assumption in the form the provers use.                  *)
LEMMA BoundFacts == /\ MaxPending \in Nat /\ MaxPending > 0
                    /\ \A b \in Backends : b = "PTY" \/ b = "TCP"
BY ConsoleAssumption DEF ConsoleAssumption

(* The initial state satisfies the invariant.                              *)
LEMMA ConsoleInitInv == ConsoleInit => ConsoleInv
<1> SUFFICES ASSUME ConsoleInit PROVE ConsoleInv
  OBVIOUS
<1>1. ConsoleTypeOK
  <2>1. conn \in Conn
    BY BoundFacts DEF ConsoleInit, Conn
  <2>2. pending \in 0..MaxPending
    BY BoundFacts DEF ConsoleInit
  <2> QED BY <2>1, <2>2 DEF ConsoleInit, ConsoleTypeOK
<1>2. NoStrandedInput /\ ReportPending
  BY DEF ConsoleInit, NoStrandedInput, ReportPending
<1>3. EdgeTracked
  BY DEF ConsoleInit, EdgeTracked
<1> QED BY <1>1, <1>2, <1>3 DEF ConsoleInv

(* The far end's moves keep it.                                            *)
LEMMA FarEndInv == ConsoleInv /\ FarEnd => ConsoleInv'
<1> SUFFICES ASSUME ConsoleInv, FarEnd PROVE ConsoleInv'
  OBVIOUS
<1> USE BoundFacts DEF ConsoleInv, ConsoleTypeOK, Conn, NoStrandedInput, ReportPending, EdgeTracked, uart, far
<1>1. CASE Type           BY <1>1 DEF Type
<1>2. CASE TerminalOpens  BY <1>2 DEF TerminalOpens
<1>3. CASE TerminalCloses BY <1>3 DEF TerminalCloses
<1>4. CASE Connect        BY <1>4 DEF Connect
<1>5. CASE PeerCloses     BY <1>5 DEF PeerCloses
<1>6. CASE PeerResets     BY <1>6 DEF PeerResets
<1> QED BY <1>1, <1>2, <1>3, <1>4, <1>5, <1>6 DEF FarEnd

(* The listener thread's steps keep it.                                    *)
LEMMA ListenerInv == ConsoleInv /\ Listener => ConsoleInv'
<1> SUFFICES ASSUME ConsoleInv, Listener PROVE ConsoleInv'
  OBVIOUS
<1> USE BoundFacts DEF ConsoleInv, ConsoleTypeOK, Conn, NoStrandedInput, ReportPending, EdgeTracked, uart, wire, far
<1>1. CASE Poll
  <2>1. conn' \in Conn /\ pending' \in 0..MaxPending
    BY <1>1 DEF Poll
  <2>2. NoStrandedInput' /\ ReportPending' /\ EdgeTracked'
    BY <1>1 DEF Poll
  <2> QED BY <1>1, <2>1, <2>2 DEF Poll
<1>2. CASE Check     BY <1>2 DEF Check
<1>3. CASE Claim     BY <1>3 DEF Claim
<1>4. CASE AsyncRxCB BY <1>4 DEF AsyncRxCB, Assess
<1> QED BY <1>1, <1>2, <1>3, <1>4 DEF Listener

(* The CPU thread's steps keep it.                                         *)
LEMMA GuestInv == ConsoleInv /\ Guest => ConsoleInv'
<1> SUFFICES ASSUME ConsoleInv, Guest PROVE ConsoleInv'
  OBVIOUS
<1> USE BoundFacts DEF ConsoleInv, ConsoleTypeOK, Conn, NoStrandedInput, ReportPending, EdgeTracked, uart, wire, far
<1>1. CASE ReadRX      BY <1>1 DEF ReadRX
<1>2. CASE GetByte     BY <1>2 DEF GetByte
<1>3. CASE Rearm       BY <1>3 DEF Rearm
<1>4. CASE FinishRX    BY <1>4 DEF FinishRX, Assess
<1>5. CASE AccessOther BY <1>5 DEF AccessOther, Assess
<1>6. CASE Acknowledge BY <1>6 DEF Acknowledge
<1>7. ASSUME NEW rx \in BOOLEAN, WriteIrqStatus(rx) PROVE ConsoleInv'
  BY <1>7 DEF WriteIrqStatus, Assess
<1>8. ASSUME NEW rx \in BOOLEAN, WriteIrqEnable(rx) PROVE ConsoleInv'
  BY <1>8 DEF WriteIrqEnable, Assess
<1> QED BY <1>1, <1>2, <1>3, <1>4, <1>5, <1>6, <1>7, <1>8 DEF Guest, InRead

(* ConsoleInv is an invariant.                                             *)
THEOREM ConsoleInvariant == ConsoleSpec => []ConsoleInv
<1>1. ConsoleInv /\ [ConsoleNext]_consoleVars => ConsoleInv'
  <2> SUFFICES ASSUME ConsoleInv, [ConsoleNext]_consoleVars PROVE ConsoleInv'
    OBVIOUS
  <2>1. CASE ConsoleNext
    BY <2>1, FarEndInv, ListenerInv, GuestInv DEF ConsoleNext
  <2>2. CASE UNCHANGED consoleVars
    BY <2>2 DEF consoleVars, uart, wire, far, ConsoleInv, ConsoleTypeOK, Conn, NoStrandedInput, ReportPending, EdgeTracked
  <2> QED BY <2>1, <2>2
<1> QED BY <1>1, ConsoleInitInv, PTL DEF ConsoleSpec

(* Type correctness, for both back ends and any bound on the queue.        *)
THEOREM ConsoleTypeCorrect == ConsoleSpec => []ConsoleTypeOK
BY ConsoleInvariant, PTL DEF ConsoleInv

(* No input is ever left that neither the UART shows nor the listener will *)
(* report, however the two threads interleave.                             *)
THEOREM InputIsNeverStranded == ConsoleSpec => []NoStrandedInput
BY ConsoleInvariant, PTL DEF ConsoleInv

(* A new enabled reason to interrupt always sends an edge.                 *)
THEOREM EdgesAreSent == ConsoleSpec => RisingReasonTriggers
<1>1. EdgeTracked /\ EdgeTracked' /\ [ConsoleNext]_consoleVars
        => [~(rxIrq /\ rxEnable) /\ (rxIrq /\ rxEnable)' => latched']_consoleVars
  <2> SUFFICES ASSUME EdgeTracked, EdgeTracked', ConsoleNext,
                      ~(rxIrq /\ rxEnable), (rxIrq /\ rxEnable)'
               PROVE latched'
    BY DEF consoleVars
  <2>1. rxIrq' # rxIrq \/ rxEnable' # rxEnable
    OBVIOUS
  <2>2. CASE AsyncRxCB BY <2>2 DEF AsyncRxCB, Assess, EdgeTracked
  <2>3. ASSUME NEW rx \in BOOLEAN, WriteIrqStatus(rx) PROVE latched'
    BY <2>3 DEF WriteIrqStatus, Assess, EdgeTracked
  <2>4. ASSUME NEW rx \in BOOLEAN, WriteIrqEnable(rx) PROVE latched'
    BY <2>4 DEF WriteIrqEnable, Assess, EdgeTracked
  <2> QED
    BY <2>1, <2>2, <2>3, <2>4
    DEF ConsoleNext, FarEnd, Type, TerminalOpens, TerminalCloses, Connect, PeerCloses, PeerResets,
        Listener, Poll, Check, Claim, Guest, ReadRX, InRead, GetByte, Rearm, FinishRX,
        AccessOther, Acknowledge, uart, wire, far
<1> QED BY <1>1, ConsoleInvariant, PTL DEF ConsoleSpec, ConsoleInv, RisingReasonTriggers
=============================================================================
