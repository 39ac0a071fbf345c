------------------------------- MODULE SdHost --------------------------------
(***************************************************************************)
(* The SD host controller (DevSD) and the card behind it (DevSDCard).      *)
(*                                                                         *)
(* A driver asks for a command, a reception or a transmission by inverting *)
(* a request bit of CTRL; the host answers by inverting an acknowledgement *)
(* bit.  Only their difference, "pending", matters to either.  Every write *)
(* of a register ends in checkForWork, whose stages are the actions below; *)
(* "stage" is "idle" between register writes.  The registers that give the *)
(* command, its argument and the count are read when the stages need them. *)
(***************************************************************************)
EXTENDS Integers, Sequences

CONSTANTS
  Value,       \* what a block may hold
  Zero, Info,  \* two of them: a hole of the image, and a register of the card
  Cmd,         \* the command numbers a driver uses
  MaxLba,      \* bound on the blocks a driver addresses
  MaxCount,    \* bound on the blocks of a transfer
  MaxBlocks,   \* bound on the image file: the host's disk is full
  Masks,       \* the enable and clear masks a driver writes to IRQ
  Wrap         \* 2^23: a byte offset has 32 bits, a block 2^9 bytes

ASSUME SdAssumption ==
  /\ Zero \in Value /\ Info \in Value
  /\ Cmd \subseteq 0..63
  /\ Masks \subseteq SUBSET {"rx", "tx"}
  /\ MaxLba \in Nat /\ MaxBlocks \in Nat /\ MaxLba <= MaxBlocks
  /\ MaxCount \in Nat \ {0} /\ Wrap \in Nat \ {0}

VARIABLES
  stage, pending,
  status,      \* cmd_status, rx_status and tx_status: whether OK
  triggered, enabled,    \* irq_rx_*, irq_tx_*
  latched,     \* the host's line in the interrupt controller
  present,     \* fd # -1; never changes
  card,
  image,       \* the image file: block l is image[l + 1]
  buffer       \* the blocks at DMA_ADDR

Way == {"rx", "tx"}

irq == <<triggered, enabled, latched>>
sdVars == <<stage, pending, status, irq, present, card, image, buffer>>

CardState == {"IDLE", "READY", "IDENT", "STBY", "TRAN", "DATA"}
Card == [state : CardState, acmdPending : BOOLEAN, lastCmd : 0..63, lastAcmd : BOOLEAN,
         lastArg : 0..MaxLba, offset : 0..MaxLba]
Buffers == [1..MaxCount -> Value]
-----------------------------------------------------------------------------
(* DevSDCard::command *)

Known == {2, 3, 6, 7, 8, 9, 12, 13, 17, 18, 23, 24, 25, 55}
KnownAcmd == {6, 13, 41, 51}

\* CMD0 is obeyed, and answers nothing.
Accepts(cmd) == present /\ cmd \in (IF card.acmdPending THEN KnownAcmd ELSE Known)

StateAfter(cmd) ==
  IF card.acmdPending
    THEN CASE cmd = 41         -> "READY"
           [] cmd \in {13, 51} -> "DATA"
           [] OTHER            -> card.state
    ELSE CASE cmd = 0                      -> "IDLE"
           [] cmd = 2                      -> "IDENT"
           [] cmd = 3                      -> "STBY"
           [] cmd \in {7, 12}              -> "TRAN"
           [] cmd \in {6, 17, 18, 24, 25}  -> "DATA"
           [] OTHER                        -> card.state

\* Mutant of Commanded: the last command is not replaced by an unknown one.
CommandedKeepingLast(cmd, arg) ==
  [state       |-> StateAfter(cmd),
   acmdPending |-> ~card.acmdPending /\ cmd = 55,
   lastCmd     |-> IF Accepts(cmd) THEN cmd ELSE card.lastCmd,
   lastAcmd    |-> card.acmdPending,
   lastArg     |-> arg,
   offset      |-> IF ~card.acmdPending /\ cmd \in {17, 18, 24, 25} THEN arg % Wrap ELSE card.offset]

Commanded(cmd, arg) ==
  [state       |-> StateAfter(cmd),
   acmdPending |-> ~card.acmdPending /\ cmd = 55,
   lastCmd     |-> cmd,
   lastAcmd    |-> card.acmdPending,
   lastArg     |-> arg,
   offset      |-> IF ~card.acmdPending /\ cmd \in {17, 18, 24, 25} THEN arg % Wrap ELSE card.offset]
-----------------------------------------------------------------------------
(* DevSDCard::read and write *)

InData == card.state = "DATA"
Last(cmds) == ~card.lastAcmd /\ card.lastCmd \in cmds
LastAcmd(cmds) == card.lastAcmd /\ card.lastCmd \in cmds

\* Mutant of CountFor: the host's count is always used.
CountAsAsked(n) == n

\* Single-block commands move one block whatever the host asks.
CountFor(n) == IF Last({17, 24}) THEN 1 ELSE n

\* pread and pwrite move k of n blocks; fewer at the end of the file, or when
\* the operating system fails.
Pread(k) ==
  /\ k = 0 \/ card.offset + k <= Len(image)
  /\ buffer' = [i \in 1..MaxCount |-> IF i <= k THEN image[card.offset + i] ELSE buffer[i]]

Pwrite(k) ==
  /\ k = 0 \/ card.offset + k <= MaxBlocks
  /\ image' = [j \in 1..(IF k > 0 /\ card.offset + k > Len(image) THEN card.offset + k ELSE Len(image)) |->
                 IF j \in card.offset + 1..card.offset + k THEN buffer[j - card.offset]
                 ELSE IF j <= Len(image) THEN image[j]
                 ELSE Zero]

\* SCR, SD status and switch status: their contents do not matter.
SendInfo == buffer' = [buffer EXCEPT ![1] = Info]

Report(way, ok) ==
  /\ status' = [status EXCEPT ![way] = ok]
  /\ pending' = pending \ {way}
  /\ triggered' = triggered \cup {way}

BackToTran == card' = [card EXCEPT !.state = "TRAN"]
-----------------------------------------------------------------------------
(* DevSD::write32 *)

\* A write of CTRL: "bits" are the request bits that it inverts.
WriteCtrl(bits) ==
  /\ stage = "idle"
  /\ pending' = (pending \ bits) \cup (bits \ pending)
  /\ stage' = "command"
  /\ UNCHANGED <<status, irq, present, card, image, buffer>>

\* Mutant of WriteIrq: returns without checkForWork.
WriteIrqOnly(enable, clear) ==
  /\ stage = "idle"
  /\ enabled' = enable
  /\ triggered' = triggered \ clear
  /\ UNCHANGED <<stage, pending, status, latched, present, card, image, buffer>>

WriteIrq(enable, clear) ==
  /\ stage = "idle"
  /\ enabled' = enable
  /\ triggered' = triggered \ clear
  /\ stage' = "command"
  /\ UNCHANGED <<pending, status, latched, present, card, image, buffer>>

\* DevSD::checkForWork
NoCommand ==
  /\ stage = "command"
  /\ "cmd" \notin pending
  /\ stage' = "tx"
  /\ UNCHANGED <<pending, status, irq, present, card, image, buffer>>

DoCommand(cmd, arg) ==
  /\ stage = "command"
  /\ "cmd" \in pending
  /\ status' = [status EXCEPT !["cmd"] = Accepts(cmd)]
  /\ pending' = pending \ {"cmd"}
  /\ card' = IF present THEN Commanded(cmd, arg) ELSE card
  /\ stage' = "rx"
  /\ UNCHANGED <<irq, present, image, buffer>>

\* A reception waits for a command that leads to one.
NoReceive ==
  /\ stage = "rx"
  /\ "rx" \notin pending \/ ~InData
  /\ stage' = "tx"
  /\ UNCHANGED <<pending, status, irq, present, card, image, buffer>>

Receive(n) ==
  /\ stage = "rx"
  /\ "rx" \in pending /\ InData
  /\ \/ /\ Last({17, 18})
        /\ \E k \in 0..CountFor(n) : Pread(k) /\ Report("rx", k = CountFor(n))
     \/ /\ LastAcmd({13, 51}) \/ Last({6})
        /\ SendInfo
        /\ Report("rx", TRUE)
     \/ /\ ~Last({6, 17, 18}) /\ ~LastAcmd({13, 51})
        /\ Report("rx", FALSE) /\ UNCHANGED buffer
  /\ BackToTran
  /\ stage' = "tx"
  /\ UNCHANGED <<enabled, latched, present, image>>

\* checkForWork's last stage: the host's line is an edge, sent again each time.
TriggerIRQ ==
  /\ latched' = (latched \/ (triggered \cap enabled)' # {})
  /\ stage' = "idle"

NoTransmit ==
  /\ stage = "tx"
  /\ "tx" \notin pending
  /\ UNCHANGED <<pending, status, triggered, enabled, present, card, image, buffer>>
  /\ TriggerIRQ

\* Mutant of Transmit: a refused one is not acknowledged, as in Receive.
TransmitWhenReady(n) ==
  /\ stage = "tx"
  /\ "tx" \in pending
  /\ IF InData /\ Last({24, 25})
       THEN \E k \in 0..CountFor(n) : Pwrite(k) /\ Report("tx", k = CountFor(n))
       ELSE UNCHANGED <<image, status, pending, triggered>>
  /\ IF InData THEN BackToTran ELSE UNCHANGED card
  /\ UNCHANGED <<enabled, present, buffer>>
  /\ TriggerIRQ

Transmit(n) ==
  /\ stage = "tx"
  /\ "tx" \in pending
  /\ IF InData /\ Last({24, 25})
       THEN \E k \in 0..CountFor(n) : Pwrite(k) /\ Report("tx", k = CountFor(n))
       ELSE Report("tx", FALSE) /\ UNCHANGED image
  /\ IF InData THEN BackToTran ELSE UNCHANGED card
  /\ UNCHANGED <<enabled, present, buffer>>
  /\ TriggerIRQ
-----------------------------------------------------------------------------
(* The rest of the guest *)

FillBuffer(b) ==
  /\ stage = "idle"
  /\ buffer' = b
  /\ UNCHANGED <<stage, pending, status, irq, present, card, image>>

AcknowledgeLine ==
  /\ stage = "idle"
  /\ latched' = FALSE
  /\ UNCHANGED <<stage, pending, status, triggered, enabled, present, card, image, buffer>>
-----------------------------------------------------------------------------
SdInit ==
  /\ stage = "idle" /\ pending = {}
  /\ status = [kind \in {"cmd", "rx", "tx"} |-> TRUE]
  /\ triggered = {} /\ enabled = {} /\ latched = FALSE
  /\ present \in BOOLEAN
  /\ card = [state |-> "IDLE", acmdPending |-> FALSE, lastCmd |-> 0, lastAcmd |-> FALSE,
             lastArg |-> 0, offset |-> 0]
  /\ image \in [1..MaxLba -> {Info}]
  /\ buffer \in [1..MaxCount -> {Zero}]

CheckForWork ==
  \/ NoCommand \/ NoReceive \/ NoTransmit
  \/ \E cmd \in Cmd, arg \in 0..MaxLba : DoCommand(cmd, arg)
  \/ \E n \in 1..MaxCount : Receive(n) \/ Transmit(n)

SdNext ==
  \/ CheckForWork
  \/ \E bits \in SUBSET {"cmd", "rx", "tx"} : WriteCtrl(bits)
  \/ \E enable, clear \in Masks : WriteIrq(enable, clear)
  \/ \E b \in Buffers : FillBuffer(b)
  \/ AcknowledgeLine

SdSpec == SdInit /\ [][SdNext]_sdVars
-----------------------------------------------------------------------------
(* Type correctness. *)
SdTypeOK ==
  /\ stage \in {"idle", "command", "rx", "tx"}
  /\ pending \subseteq {"cmd", "rx", "tx"}
  /\ status \in [{"cmd", "rx", "tx"} -> BOOLEAN]
  /\ triggered \subseteq Way /\ enabled \subseteq Way
  /\ latched \in BOOLEAN /\ present \in BOOLEAN
  /\ card \in Card
  /\ image \in Seq(Value)
  /\ buffer \in Buffers

OrderInForce ==
  LET by(op, single) == [op |-> op, lba |-> card.lastArg, single |-> single]
  IN CASE InData /\ Last({17}) -> by("read", TRUE)
       [] InData /\ Last({18}) -> by("read", FALSE)
       [] InData /\ Last({24}) -> by("write", TRUE)
       [] InData /\ Last({25}) -> by("write", FALSE)
       [] InData /\ (Last({6}) \/ LastAcmd({13, 51})) -> by("info", FALSE)
       [] OTHER -> [op |-> "none", lba |-> 0, single |-> TRUE]

Store == INSTANCE SdStore WITH order <- OrderInForce, good <- [way \in Way |-> status[way]]

(* Whatever the sequence of commands, prefixes, requests and failures, data*)
(* moves only as last ordered, between the blocks named and the buffer, and*)
(* is reported good only if all of it moved (read, write, checkForWork).   *)
ImplementsStore == Store!StoreSpec

(* A driver whose command timed out knows that nothing will be transferred: *)
(* the order in force is always one the card answered (command's last_cmd,  *)
(* last_acmd and state together).                                           *)
OrderWasAccepted == OrderInForce.op # "none" => status["cmd"]

(* When a register write is over, no command and no transmission is left   *)
(* waiting: "a write that sets something pending will immediately complete *)
(* the work and set it non-pending".                                       *)
RequestsAnswered == stage = "idle" => pending \subseteq {"rx"}

(* No completion is lost to the interrupt controller: its line is down with *)
(* an enabled completion only if the guest acknowledged the line after both *)
(* (checkForWork runs after every register write, of IRQ too).              *)
CompletionInterrupts ==
  [][stage' = "idle" /\ (triggered \cap enabled)' # {} /\ ~latched'
       => AcknowledgeLine \/ UNCHANGED irq]_sdVars
=============================================================================
