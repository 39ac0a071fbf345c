---------------------------- MODULE SdHost_proofs ----------------------------
(* The SD host answers every request before a register write is over, lets *)
(* only an accepted command order a transfer, and implements the store of  *)
(* SdStore, for every image, buffer, command set and bound.                *)
EXTENDS SdHost, TLAPS

\* A register write works its requests off stage by stage.
Served ==
  /\ stage \in {"rx", "tx"} => "cmd" \notin pending
  /\ stage = "idle" => pending \subseteq {"rx"}

\* The commands after which data moves.
Orders == Last({6, 17, 18, 24, 25}) \/ LastAcmd({13, 51})

\* Only a card that is there and answered enters the data state with an order.
DataIsOrdered ==
  /\ InData => present
  /\ InData /\ Orders => status["cmd"]

\* The byte offset is that of the command that last set it.
Addressed == Last({17, 18, 24, 25}) => card.offset = card.lastArg % Wrap

\* The image never shrinks below the blocks it started with.
ImageHolds == Len(image) >= MaxLba

SdInv ==
  /\ SdTypeOK
  /\ Served
  /\ DataIsOrdered
  /\ Addressed
  /\ ImageHolds
-----------------------------------------------------------------------------
\* A remainder is no larger than what was divided.
LEMMA ModAtMost == ASSUME NEW x \in Nat, NEW w \in Nat \ {0} PROVE x % w \in 0 .. x
<1>1. CASE x < w
  BY <1>1
<1>2. CASE x >= w
  BY <1>2
<1> QED BY <1>1, <1>2

\* The card after a command.
LEMMA CommandedType ==
  ASSUME card \in Card, NEW cmd \in Cmd, NEW arg \in 0 .. MaxLba
  PROVE  Commanded(cmd, arg) \in Card
<1>1. arg % Wrap \in 0 .. MaxLba
  BY ModAtMost, SdAssumption
<1>2. StateAfter(cmd) \in CardState
  BY DEF StateAfter, Card, CardState
<1>3. cmd \in 0 .. 63
  BY SdAssumption
<1> QED BY <1>1, <1>2, <1>3 DEF Commanded, Card

\* Only the commands that order a transfer lead into the data state with an
\* order, and they are answered.
LEMMA CommandedOrders ==
  ASSUME card \in Card, present, NEW cmd \in Cmd, NEW arg \in 0 .. MaxLba,
         card' = Commanded(cmd, arg)
  PROVE  /\ Orders' => Accepts(cmd)
         /\ Addressed'
<1>1. /\ card'.lastCmd = cmd /\ card'.lastAcmd = card.acmdPending /\ card'.lastArg = arg
      /\ card'.offset = IF ~card.acmdPending /\ cmd \in {17, 18, 24, 25} THEN arg % Wrap ELSE card.offset
  BY DEF Commanded
<1>2. Orders' => Accepts(cmd)
  BY <1>1 DEF Orders, Last, LastAcmd, Accepts, Known, KnownAcmd
<1>3. Addressed'
  BY <1>1 DEF Addressed, Last
<1> QED BY <1>2, <1>3

\* Leaving the data state keeps everything else of the card.
LEMMA BackFacts ==
  ASSUME card \in Card, BackToTran
  PROVE  /\ card' \in Card /\ card'.state = "TRAN" /\ ~InData'
         /\ card'.lastCmd = card.lastCmd /\ card'.lastAcmd = card.lastAcmd
         /\ card'.lastArg = card.lastArg /\ card'.offset = card.offset
  BY DEF BackToTran, Card, CardState, InData

\* A transfer's report.
LEMMA ReportFacts ==
  ASSUME SdTypeOK, NEW way \in Way, NEW ok \in BOOLEAN, Report(way, ok)
  PROVE  /\ status' \in [{"cmd", "rx", "tx"} -> BOOLEAN] /\ status'["cmd"] = status["cmd"]
         /\ pending' = pending \ {way} /\ triggered' \subseteq Way
         /\ [w \in Way |-> status'[w]] = [[w \in Way |-> status[w]] EXCEPT ![way] = ok]
  BY DEF SdTypeOK, Report, Way

\* A transfer is never longer than the host asks.
LEMMA CountFacts ==
  ASSUME NEW n \in 1 .. MaxCount
  PROVE  /\ CountFor(n) \in 1 .. MaxCount
         /\ Last({17}) \/ Last({24}) => CountFor(n) = 1
  BY SdAssumption DEF CountFor, Last

\* Reading puts blocks of the image into the buffer.
LEMMA PreadType ==
  ASSUME SdTypeOK, NEW k \in 0 .. MaxCount, Pread(k)
  PROVE  buffer' \in Buffers
<1>1. card.offset \in Nat /\ image \in Seq(Value) /\ buffer \in [1 .. MaxCount -> Value]
  BY SdAssumption DEF SdTypeOK, Card, Buffers
<1>2. \A i \in 1 .. MaxCount : i <= k => image[card.offset + i] \in Value
  <2> SUFFICES ASSUME NEW i \in 1 .. MaxCount, i <= k PROVE image[card.offset + i] \in Value
    OBVIOUS
  <2>1. card.offset + k <= Len(image) /\ card.offset + i \in 1 .. Len(image)
    BY <1>1, SdAssumption DEF Pread
  <2> QED BY <1>1, <2>1
<1> QED BY <1>1, <1>2 DEF Pread, Buffers

\* Writing changes the blocks it names and may extend the image.
LEMMA PwriteFacts ==
  ASSUME SdTypeOK, NEW k \in 0 .. MaxCount, Pwrite(k)
  PROVE  /\ image' \in Seq(Value)
         /\ Len(image') >= Len(image)
         /\ Len(image') \in {Len(image), card.offset + k}
         /\ \A i \in 1 .. k : card.offset + i <= Len(image') /\ image'[card.offset + i] = buffer[i]
         /\ \A j \in 1 .. Len(image) :
              j \notin card.offset + 1 .. card.offset + k => image'[j] = image[j]
<1> DEFINE size == IF k > 0 /\ card.offset + k > Len(image) THEN card.offset + k ELSE Len(image)
           at(j) == IF j \in card.offset + 1 .. card.offset + k THEN buffer[j - card.offset]
                    ELSE IF j <= Len(image) THEN image[j] ELSE Zero
<1>1. card.offset \in Nat /\ image \in Seq(Value) /\ buffer \in [1 .. MaxCount -> Value]
  BY SdAssumption DEF SdTypeOK, Card, Buffers
<1>2. image' = [j \in 1 .. size |-> at(j)]
  BY DEF Pwrite
<1>3. size \in Nat /\ size >= Len(image) /\ size \in {Len(image), card.offset + k}
  BY <1>1, SdAssumption
<1>4. \A j \in 1 .. size : at(j) \in Value
  <2> SUFFICES ASSUME NEW j \in 1 .. size PROVE at(j) \in Value
    OBVIOUS
  <2>1. CASE j \in card.offset + 1 .. card.offset + k
    <3>1. j - card.offset \in 1 .. MaxCount
      BY <1>1, <2>1, SdAssumption
    <3> QED BY <1>1, <2>1, <3>1
  <2>2. CASE j \notin card.offset + 1 .. card.offset + k /\ j <= Len(image)
    <3>1. j \in 1 .. Len(image)
      BY <1>1, <1>3, <2>2
    <3> QED BY <1>1, <2>2, <3>1
  <2>3. CASE j \notin card.offset + 1 .. card.offset + k /\ ~(j <= Len(image))
    BY <2>3, SdAssumption
  <2> QED BY <2>1, <2>2, <2>3
<1>5. [j \in 1 .. size |-> at(j)] \in Seq(Value) /\ Len([j \in 1 .. size |-> at(j)]) = size
  <2> HIDE DEF size, at
  <2> QED BY <1>3, <1>4
<1>6. image' \in Seq(Value) /\ Len(image') = size
  BY <1>2, <1>5
<1>7. \A i \in 1 .. k : card.offset + i <= Len(image') /\ image'[card.offset + i] = buffer[i]
  <2> SUFFICES ASSUME NEW i \in 1 .. k
               PROVE  card.offset + i <= Len(image') /\ image'[card.offset + i] = buffer[i]
    OBVIOUS
  <2>1. /\ card.offset + i \in 1 .. size /\ card.offset + i \in card.offset + 1 .. card.offset + k
        /\ (card.offset + i) - card.offset = i
    <3>1. i \in Nat /\ i >= 1 /\ i <= k /\ k \in Nat /\ Len(image) \in Nat
      BY <1>1, SdAssumption
    <3> QED BY <1>1, <3>1
  <2>2. card.offset + i <= Len(image')
    BY <1>3, <1>6, <2>1
  <2>3. at(card.offset + i) = buffer[i]
    BY <2>1, Zenon
  <2> HIDE DEF at, size
  <2>4. image'[card.offset + i] = at(card.offset + i)
    BY <1>2, <2>1, Zenon
  <2> QED BY <2>2, <2>3, <2>4, Zenon
<1>8. \A j \in 1 .. Len(image) :
        j \notin card.offset + 1 .. card.offset + k => image'[j] = image[j]
  BY <1>1, <1>2, <1>3
<1> QED BY <1>3, <1>6, <1>7, <1>8
-----------------------------------------------------------------------------
LEMMA SdInitInv == SdInit => SdInv
<1> SUFFICES ASSUME SdInit PROVE SdInv
  OBVIOUS
<1>1. card \in Card /\ card.state = "IDLE" /\ card.lastCmd = 0 /\ ~card.lastAcmd
  BY SdAssumption DEF SdInit, Card, CardState
<1>2. image \in Seq(Value) /\ Len(image) = MaxLba
  <2>1. image \in [1 .. MaxLba -> Value] /\ MaxLba \in Nat
    BY SdAssumption DEF SdInit
  <2> QED BY <2>1
<1>3. SdTypeOK
  <2>1. status \in [{"cmd", "rx", "tx"} -> BOOLEAN] /\ latched \in BOOLEAN /\ present \in BOOLEAN
    BY DEF SdInit
  <2>2. buffer \in Buffers
    BY SdAssumption DEF SdInit, Buffers
  <2> QED BY <1>1, <1>2, <2>1, <2>2 DEF SdInit, SdTypeOK, Way
<1>4. Served
  BY DEF SdInit, Served
<1>5. DataIsOrdered /\ Addressed
  BY <1>1 DEF DataIsOrdered, Addressed, InData, Last
<1> QED BY <1>2, <1>3, <1>4, <1>5, SdAssumption DEF SdInv, ImageHolds

\* The actions that leave the card, the image and the buffer's type alone:
\* register writes, stages with nothing to do, and the rest of the guest.
Passing ==
  \/ NoCommand \/ NoReceive \/ NoTransmit \/ AcknowledgeLine
  \/ \E bits \in SUBSET {"cmd", "rx", "tx"} : WriteCtrl(bits)
  \/ \E enable, clear \in Masks : WriteIrq(enable, clear)
  \/ \E b \in Buffers : FillBuffer(b)

LEMMA PassingInv == SdInv /\ Passing => SdInv'
<1> SUFFICES ASSUME SdInv, Passing PROVE SdInv'
  OBVIOUS
<1>0. SdTypeOK /\ Served /\ DataIsOrdered /\ Addressed /\ ImageHolds
  BY DEF SdInv
<1>1. UNCHANGED <<status, present, card, image>>
  BY DEF Passing, NoCommand, NoReceive, NoTransmit, AcknowledgeLine, WriteCtrl, WriteIrq, FillBuffer, irq
<1>2. DataIsOrdered' /\ Addressed' /\ ImageHolds'
  BY <1>0, <1>1 DEF DataIsOrdered, Orders, Addressed, ImageHolds, InData, Last, LastAcmd
<1>3. SdTypeOK'
  <2>1. /\ stage' \in {"idle", "command", "rx", "tx"} /\ pending' \subseteq {"cmd", "rx", "tx"}
        /\ buffer' \in Buffers
    BY <1>0 DEF SdTypeOK, Passing, NoCommand, NoReceive, NoTransmit, TriggerIRQ,
       AcknowledgeLine, WriteCtrl, WriteIrq, FillBuffer
  <2>2. triggered' \subseteq Way /\ enabled' \subseteq Way
    <3>1. triggered \subseteq Way /\ enabled \subseteq Way
      BY <1>0 DEF SdTypeOK
    <3>2. CASE UNCHANGED <<triggered, enabled>>
      BY <3>1, <3>2
    <3>3. ASSUME NEW enable \in Masks, NEW clear \in Masks, WriteIrq(enable, clear)
          PROVE  triggered' \subseteq Way /\ enabled' \subseteq Way
      <4>1. enable \subseteq Way
        BY <3>3, SdAssumption, Zenon DEF Way
      <4> QED BY <3>1, <3>3, <4>1 DEF WriteIrq
    <3> QED BY <3>2, <3>3 DEF Passing, NoCommand, NoReceive, NoTransmit,
               AcknowledgeLine, WriteCtrl, FillBuffer, irq
  <2>3. latched' \in BOOLEAN
    BY <1>0 DEF SdTypeOK, Passing, NoCommand, NoReceive, NoTransmit, TriggerIRQ,
       AcknowledgeLine, WriteCtrl, WriteIrq, FillBuffer, irq
  <2> QED BY <1>0, <1>1, <2>1, <2>2, <2>3 DEF SdTypeOK
<1>4. Served'
  BY <1>0 DEF SdTypeOK, Served, Passing, NoCommand, NoReceive, NoTransmit, TriggerIRQ,
     AcknowledgeLine, WriteCtrl, WriteIrq, FillBuffer
<1> QED BY <1>2, <1>3, <1>4 DEF SdInv

LEMMA DoCommandInv ==
  ASSUME SdInv, NEW cmd \in Cmd, NEW arg \in 0 .. MaxLba, DoCommand(cmd, arg)
  PROVE  SdInv'
<1>0. SdTypeOK /\ Served /\ DataIsOrdered /\ Addressed /\ ImageHolds
  BY DEF SdInv
<1>1. /\ status' = [status EXCEPT !["cmd"] = Accepts(cmd)] /\ pending' = pending \ {"cmd"}
      /\ stage' = "rx" /\ UNCHANGED <<triggered, enabled, latched, present, image, buffer>>
  BY DEF DoCommand, irq
<1>2. Accepts(cmd) \in BOOLEAN
  BY <1>0 DEF Accepts, SdTypeOK
<1>3. CASE ~present
  <2>1. UNCHANGED card
    BY <1>3 DEF DoCommand
  <2>2. SdTypeOK' /\ Served' /\ ImageHolds'
    BY <1>0, <1>1, <1>2, <2>1 DEF SdTypeOK, Served, ImageHolds
  <2>3. DataIsOrdered' /\ Addressed'
    BY <1>0, <1>1, <1>3, <2>1 DEF DataIsOrdered, Addressed, InData, Last
  <2> QED BY <2>2, <2>3 DEF SdInv
<1>4. CASE present
  <2>1. card' = Commanded(cmd, arg)
    BY <1>4 DEF DoCommand
  <2>2. card' \in Card /\ (Orders' => Accepts(cmd)) /\ Addressed'
    BY <1>0, <1>4, <2>1, CommandedType, CommandedOrders DEF SdTypeOK
  <2>3. SdTypeOK' /\ Served' /\ ImageHolds'
    BY <1>0, <1>1, <1>2, <2>2 DEF SdTypeOK, Served, ImageHolds
  <2>4. status'["cmd"] = Accepts(cmd)
    BY <1>0, <1>1 DEF SdTypeOK
  <2>5. DataIsOrdered'
    BY <1>1, <1>4, <2>2, <2>4 DEF DataIsOrdered
  <2> QED BY <2>2, <2>3, <2>5 DEF SdInv
<1> QED BY <1>0, <1>3, <1>4 DEF SdTypeOK

\* What a reception does, whichever its order.
LEMMA ReceiveFacts ==
  ASSUME SdInv, NEW n \in 1 .. MaxCount, Receive(n)
  PROVE  /\ \E ok \in BOOLEAN : Report("rx", ok)
         /\ buffer' \in Buffers
         /\ BackToTran /\ stage = "rx" /\ stage' = "tx" /\ InData
         /\ UNCHANGED <<enabled, latched, present, image>>
<1>0. SdTypeOK
  BY DEF SdInv
<1>1. CASE /\ Last({17, 18})
           /\ \E k \in 0 .. CountFor(n) : Pread(k) /\ Report("rx", k = CountFor(n))
  <2>1. PICK k \in 0 .. CountFor(n) : Pread(k) /\ Report("rx", k = CountFor(n))
    BY <1>1
  <2>2. k \in 0 .. MaxCount
    BY CountFacts, SdAssumption
  <2> QED BY <1>0, <2>1, <2>2, PreadType DEF Receive
<1>2. CASE SendInfo /\ Report("rx", TRUE)
  <2>1. buffer' \in Buffers
    BY <1>0, <1>2, SdAssumption DEF SdTypeOK, SendInfo, Buffers
  <2> QED BY <1>2, <2>1 DEF Receive
<1>3. CASE Report("rx", FALSE) /\ UNCHANGED buffer
  BY <1>0, <1>3 DEF Receive, SdTypeOK
<1> QED BY <1>1, <1>2, <1>3 DEF Receive

LEMMA ReceiveInv ==
  ASSUME SdInv, NEW n \in 1 .. MaxCount, Receive(n)
  PROVE  SdInv'
<1>0. SdTypeOK /\ Served /\ DataIsOrdered /\ Addressed /\ ImageHolds
  BY DEF SdInv
<1>1. PICK ok \in BOOLEAN : Report("rx", ok)
  BY ReceiveFacts
<1>2. /\ buffer' \in Buffers /\ BackToTran /\ stage = "rx" /\ stage' = "tx"
      /\ UNCHANGED <<enabled, latched, present, image>>
  BY ReceiveFacts
<1>3. /\ status' \in [{"cmd", "rx", "tx"} -> BOOLEAN] /\ pending' = pending \ {"rx"}
      /\ triggered' \subseteq Way
  BY <1>0, <1>1, ReportFacts DEF Way
<1>4. /\ card' \in Card /\ ~InData'
      /\ card'.lastCmd = card.lastCmd /\ card'.lastAcmd = card.lastAcmd
      /\ card'.lastArg = card.lastArg /\ card'.offset = card.offset
  BY <1>0, <1>2, BackFacts DEF SdTypeOK
<1>5. SdTypeOK'
  BY <1>0, <1>2, <1>3, <1>4 DEF SdTypeOK
<1>6. Served' /\ DataIsOrdered' /\ ImageHolds'
  BY <1>0, <1>2, <1>3, <1>4 DEF Served, DataIsOrdered, ImageHolds
<1>7. Addressed'
  BY <1>0, <1>4 DEF Addressed, Last
<1> QED BY <1>5, <1>6, <1>7 DEF SdInv

\* What a transmission does, whether it is in order or not.
LEMMA TransmitFacts ==
  ASSUME SdInv, NEW n \in 1 .. MaxCount, Transmit(n)
  PROVE  /\ \E ok \in BOOLEAN : Report("tx", ok)
         /\ image' \in Seq(Value) /\ Len(image') >= Len(image)
         /\ BackToTran \/ (~InData /\ UNCHANGED card)
         /\ stage = "tx" /\ TriggerIRQ
         /\ UNCHANGED <<enabled, present, buffer>>
<1>0. SdTypeOK
  BY DEF SdInv
<1>1. CASE \E k \in 0 .. CountFor(n) : Pwrite(k) /\ Report("tx", k = CountFor(n))
  <2>1. PICK k \in 0 .. CountFor(n) : Pwrite(k) /\ Report("tx", k = CountFor(n))
    BY <1>1
  <2>2. k \in 0 .. MaxCount
    BY CountFacts, SdAssumption
  <2>3. image' \in Seq(Value) /\ Len(image') >= Len(image)
    BY <1>0, <2>1, <2>2, PwriteFacts
  <2> QED BY <2>1, <2>3 DEF Transmit
<1>2. CASE Report("tx", FALSE) /\ UNCHANGED image
  <2>1. image' \in Seq(Value) /\ Len(image') >= Len(image)
    BY <1>0, <1>2 DEF SdTypeOK
  <2> QED BY <1>2, <2>1 DEF Transmit
<1> QED BY <1>1, <1>2 DEF Transmit

LEMMA TransmitInv ==
  ASSUME SdInv, NEW n \in 1 .. MaxCount, Transmit(n)
  PROVE  SdInv'
<1>0. SdTypeOK /\ Served /\ DataIsOrdered /\ Addressed /\ ImageHolds
  BY DEF SdInv
<1>1. PICK ok \in BOOLEAN : Report("tx", ok)
  BY TransmitFacts
<1>2. /\ image' \in Seq(Value) /\ Len(image') >= Len(image)
      /\ BackToTran \/ (~InData /\ UNCHANGED card)
      /\ stage = "tx" /\ stage' = "idle" /\ latched' \in BOOLEAN
      /\ UNCHANGED <<enabled, present, buffer>>
  BY <1>0, TransmitFacts DEF TriggerIRQ, SdTypeOK
<1>3. /\ status' \in [{"cmd", "rx", "tx"} -> BOOLEAN] /\ pending' = pending \ {"tx"}
      /\ triggered' \subseteq Way
  BY <1>0, <1>1, ReportFacts DEF Way
<1>4. /\ card' \in Card /\ ~InData'
      /\ card'.lastCmd = card.lastCmd /\ card'.lastAcmd = card.lastAcmd
      /\ card'.lastArg = card.lastArg /\ card'.offset = card.offset
  BY <1>0, <1>2, BackFacts DEF SdTypeOK, InData
<1>5. SdTypeOK'
  BY <1>0, <1>2, <1>3, <1>4 DEF SdTypeOK
<1>6. Served' /\ DataIsOrdered'
  BY <1>0, <1>2, <1>3, <1>4 DEF Served, DataIsOrdered, SdTypeOK
<1>7. ImageHolds'
  BY <1>0, <1>2, SdAssumption DEF ImageHolds, SdTypeOK
<1>8. Addressed'
  BY <1>0, <1>4 DEF Addressed, Last
<1> QED BY <1>5, <1>6, <1>7, <1>8 DEF SdInv

(* The inductive invariant: types, requests worked off by stage, data only *)
(* after an answered order, the offset of that order, and an image that    *)
(* never shrinks (DevSD::checkForWork, DevSDCard::command).                *)
THEOREM SdInvariant == SdSpec => []SdInv
<1>1. SdInit => SdInv
  BY SdInitInv
<1>2. SdInv /\ [SdNext]_sdVars => SdInv'
  <2> SUFFICES ASSUME SdInv, [SdNext]_sdVars PROVE SdInv'
    OBVIOUS
  <2>1. CASE Passing
    BY <2>1, PassingInv
  <2>2. CASE \E cmd \in Cmd, arg \in 0 .. MaxLba : DoCommand(cmd, arg)
    BY <2>2, DoCommandInv
  <2>3. CASE \E n \in 1 .. MaxCount : Receive(n)
    BY <2>3, ReceiveInv
  <2>4. CASE \E n \in 1 .. MaxCount : Transmit(n)
    BY <2>4, TransmitInv
  <2>5. CASE UNCHANGED sdVars
    BY <2>5 DEF sdVars, irq, SdInv, SdTypeOK, Served, DataIsOrdered, Orders, Addressed, ImageHolds,
       InData, Last, LastAcmd
  <2> QED BY <2>1, <2>2, <2>3, <2>4, <2>5 DEF SdNext, CheckForWork, Passing
<1> QED BY <1>1, <1>2, PTL DEF SdSpec

(* The transfer in force is always one the card accepted (DevSDCard's      *)
(* command, read and write).                                               *)
THEOREM OrdersWereAccepted == SdSpec => []OrderWasAccepted
<1>1. SdInv => OrderWasAccepted
  <2> SUFFICES ASSUME SdInv, OrderInForce.op # "none" PROVE status["cmd"]
    BY DEF OrderWasAccepted
  <2>1. InData /\ Orders
    BY DEF OrderInForce, Orders, Last, LastAcmd
  <2> QED BY <2>1 DEF SdInv, DataIsOrdered
<1> QED BY <1>1, SdInvariant, PTL

(* When a register write is over, no command and no transmission is left   *)
(* waiting (DevSD::checkForWork).                                          *)
THEOREM AllRequestsAnswered == SdSpec => []RequestsAnswered
<1>1. SdInv => RequestsAnswered
  BY DEF SdInv, Served, RequestsAnswered
<1> QED BY <1>1, SdInvariant, PTL

(* An enabled completion is never left with the line down, except by the   *)
(* guest's own acknowledgement (DevSD::checkForWork, triggerIRQ).          *)
THEOREM CompletionsInterrupt == SdSpec => CompletionInterrupts
<1> DEFINE Told == stage' = "idle" /\ (triggered \cap enabled)' # {} /\ ~latched'
                     => AcknowledgeLine \/ UNCHANGED irq
<1>1. ASSUME SdInv, [SdNext]_sdVars PROVE [Told]_sdVars
  <2>1. CASE Passing
    BY <2>1 DEF Passing, NoCommand, NoReceive, NoTransmit, TriggerIRQ, WriteCtrl, WriteIrq, FillBuffer
  <2>2. CASE \E cmd \in Cmd, arg \in 0 .. MaxLba : DoCommand(cmd, arg)
    BY <2>2 DEF DoCommand
  <2>3. CASE \E n \in 1 .. MaxCount : Receive(n)
    BY <1>1, <2>3, ReceiveFacts
  <2>4. CASE \E n \in 1 .. MaxCount : Transmit(n)
    BY <1>1, <2>4, TransmitFacts DEF TriggerIRQ
  <2>5. CASE UNCHANGED sdVars
    BY <2>5
  <2> QED BY <1>1, <2>1, <2>2, <2>3, <2>4, <2>5 DEF SdNext, CheckForWork, Passing
<1> QED BY <1>1, SdInvariant, PTL DEF SdSpec, CompletionInterrupts
-----------------------------------------------------------------------------
(* The refinement of SdStore *)

\* The order in force is a function of the card.
LEMMA OrderFacts ==
  ASSUME card \in Card
  PROVE  /\ OrderInForce \in Store!Order \cup {Store!NoOrder}
         /\ ~InData => OrderInForce = Store!NoOrder
         /\ InData /\ Last({17, 18}) =>
              OrderInForce.op = "read" /\ OrderInForce.lba = card.lastArg /\ (OrderInForce.single => Last({17}))
         /\ InData /\ Last({24, 25}) =>
              OrderInForce.op = "write" /\ OrderInForce.lba = card.lastArg /\ (OrderInForce.single => Last({24}))
         /\ InData /\ (LastAcmd({13, 51}) \/ Last({6})) =>
              OrderInForce.op = "info" /\ OrderInForce.single = FALSE
         /\ ~Last({6, 17, 18}) /\ ~LastAcmd({13, 51}) => OrderInForce.op \notin {"read", "info"}
         /\ ~(InData /\ Last({24, 25})) => OrderInForce.op # "write"
<1> DEFINE by(op, single) == [op |-> op, lba |-> card.lastArg, single |-> single]
           info == Last({6}) \/ LastAcmd({13, 51})
<1>1. /\ InData /\ Last({17}) => OrderInForce = by("read", TRUE)
      /\ InData /\ Last({18}) => OrderInForce = by("read", FALSE)
      /\ InData /\ Last({24}) => OrderInForce = by("write", TRUE)
      /\ InData /\ Last({25}) => OrderInForce = by("write", FALSE)
      /\ InData /\ info => OrderInForce = by("info", FALSE)
      /\ ~InData \/ (~Last({17}) /\ ~Last({18}) /\ ~Last({24}) /\ ~Last({25}) /\ ~info)
           => OrderInForce = Store!NoOrder
  BY DEF OrderInForce, Last, LastAcmd, Store!NoOrder
<1>2. /\ Last({17, 18}) = (Last({17}) \/ Last({18}))
      /\ Last({24, 25}) = (Last({24}) \/ Last({25}))
      /\ Last({6, 17, 18}) = (Last({6}) \/ Last({17}) \/ Last({18}))
      /\ Last({17}) => ~Last({18})
      /\ Last({24}) => ~Last({25})
      /\ \A c : Last({c}) \in BOOLEAN
  BY DEF Last
<1>4. \A op \in {"read", "write", "info"}, single \in BOOLEAN : by(op, single) \in Store!Order
  BY DEF Card, Store!Order
<1>5. Store!NoOrder.op = "none"
  BY DEF Store!NoOrder
<1> HIDE DEF info
<1>6. OrderInForce \in Store!Order \cup {Store!NoOrder}
  BY <1>1, <1>4
<1>7. /\ InData /\ Last({17, 18}) =>
           OrderInForce.op = "read" /\ OrderInForce.lba = card.lastArg /\ (OrderInForce.single => Last({17}))
      /\ InData /\ Last({24, 25}) =>
           OrderInForce.op = "write" /\ OrderInForce.lba = card.lastArg /\ (OrderInForce.single => Last({24}))
  <2>1. /\ InData /\ (Last({17}) \/ Last({18})) => OrderInForce.op = "read" /\ OrderInForce.lba = card.lastArg
        /\ InData /\ (Last({24}) \/ Last({25})) => OrderInForce.op = "write" /\ OrderInForce.lba = card.lastArg
    BY <1>1
  <2>2. InData /\ (Last({18}) \/ Last({25})) => OrderInForce.single = FALSE
    BY <1>1
  <2> QED BY <1>2, <2>1, <2>2, Zenon
<1>8. InData /\ info => OrderInForce.op = "info" /\ OrderInForce.single = FALSE
  BY <1>1
<1>9. /\ ~Last({17}) /\ ~Last({18}) /\ ~info => OrderInForce.op \notin {"read", "info"}
      /\ ~(InData /\ (Last({24}) \/ Last({25}))) => OrderInForce.op # "write"
  BY <1>1, <1>5
<1> QED BY <1>1, <1>2, <1>6, <1>7, <1>8, <1>9 DEF info

LEMMA PassingRefines ==
  ASSUME SdInv, Passing
  PROVE  Store!StoreNext \/ UNCHANGED Store!storeVars
<1>0. SdTypeOK
  BY DEF SdInv
<1>1. UNCHANGED <<status, present, card, image>> /\ (UNCHANGED buffer \/ buffer' \in Buffers)
  BY DEF Passing, NoCommand, NoReceive, NoTransmit, AcknowledgeLine, WriteCtrl, WriteIrq, FillBuffer, irq
<1>2. OrderInForce' = OrderInForce /\ [w \in Way |-> status'[w]] = [w \in Way |-> status[w]]
  BY <1>1 DEF OrderInForce, InData, Last, LastAcmd
<1>3. CASE UNCHANGED buffer
  BY <1>1, <1>2, <1>3 DEF Store!storeVars
<1>4. CASE buffer' \in Buffers
  BY <1>1, <1>2, <1>4 DEF Store!StoreNext, Store!Fill, Store!Buffers, Buffers
<1> QED BY <1>1, <1>3, <1>4

LEMMA DoCommandRefines ==
  ASSUME SdInv, NEW cmd \in Cmd, NEW arg \in 0 .. MaxLba, DoCommand(cmd, arg)
  PROVE  Store!Command
<1>0. SdTypeOK /\ SdTypeOK'
  BY DoCommandInv DEF SdInv
<1>1. OrderInForce' \in Store!Order \cup {Store!NoOrder}
  <2>1. card' \in Card
    BY <1>0 DEF SdTypeOK
  <2> QED BY <2>1 DEF OrderInForce, Store!Order, Store!NoOrder, Last, LastAcmd, Card
<1>2. [w \in Way |-> status'[w]] = [w \in Way |-> status[w]] /\ UNCHANGED <<image, buffer>>
  BY <1>0 DEF DoCommand, SdTypeOK, Way
<1> QED BY <1>1, <1>2 DEF Store!Command

\* What a report is to the store: the way's verdict, and no order any more.
LEMMA ReportRefines ==
  ASSUME SdInv, NEW way \in Way, NEW ok \in BOOLEAN, Report(way, ok), ~InData'
  PROVE  Store!Reported(way, ok)
<1>1. [w \in Way |-> status'[w]] = [[w \in Way |-> status[w]] EXCEPT ![way] = ok]
  BY ReportFacts DEF SdInv
<1>2. OrderInForce' = Store!NoOrder
  BY DEF OrderInForce, Store!NoOrder
<1> QED BY <1>1, <1>2 DEF Store!Reported

LEMMA ReceiveRefines ==
  ASSUME MaxLba < Wrap, SdInv, NEW n \in 1 .. MaxCount, Receive(n)
  PROVE  Store!StoreNext
<1>0. SdTypeOK /\ card \in Card /\ InData /\ UNCHANGED image /\ ~InData'
  BY ReceiveFacts, BackFacts DEF SdInv, SdTypeOK
<1>1. CASE /\ Last({17, 18})
           /\ \E k \in 0 .. CountFor(n) : Pread(k) /\ Report("rx", k = CountFor(n))
  <2>1. PICK k \in 0 .. CountFor(n) : Pread(k) /\ Report("rx", k = CountFor(n))
    BY <1>1
  <2>2. OrderInForce.op = "read" /\ OrderInForce.lba = card.lastArg /\ (OrderInForce.single => CountFor(n) = 1)
    BY <1>0, <1>1, OrderFacts, CountFacts
  <2>3. OrderInForce.lba = card.offset
    <3>1. card.offset = card.lastArg % Wrap
      BY <1>1 DEF SdInv, Addressed, Last
    <3>2. card.lastArg \in Nat /\ card.lastArg < Wrap
      BY <1>0, SdAssumption DEF Card
    <3> QED BY <2>2, <3>1, <3>2, SdAssumption
  <2>4. Store!Fetched(k)
    <3>1. card.offset \in 0 .. MaxLba /\ Len(image) \in Nat /\ k \in Nat
      BY <1>0, CountFacts, SdAssumption DEF SdTypeOK, Card
    <3>2. card.offset + k <= Len(image)
      BY <2>1, <3>1, SdAssumption DEF Pread, SdInv, ImageHolds
    <3> QED BY <2>1, <2>3, <3>2 DEF Pread, Store!Fetched
  <2>5. Store!Reported("rx", k = CountFor(n))
    <3>1. PICK ok \in BOOLEAN : ok = (k = CountFor(n))
      OBVIOUS
    <3>2. Report("rx", ok)
      BY <2>1, <3>1 DEF Report
    <3>3. Store!Reported("rx", ok)
      BY <1>0, <3>2, ReportRefines DEF Way
    <3> QED BY <3>1, <3>3 DEF Store!Reported
  <2>6. Store!Receive(CountFor(n))
    BY <1>0, <2>2, <2>4, <2>5 DEF Store!Receive
  <2> QED BY <2>2, <2>6, CountFacts DEF Store!StoreNext
<1>2. CASE (LastAcmd({13, 51}) \/ Last({6})) /\ SendInfo /\ Report("rx", TRUE)
  <2>1. OrderInForce.op = "info" /\ OrderInForce.single = FALSE
    BY <1>0, <1>2, OrderFacts
  <2>2. \E v \in Value : buffer' = [buffer EXCEPT ![1] = v]
    BY <1>2, SdAssumption DEF SendInfo
  <2>3. Store!Reported("rx", TRUE)
    BY <1>0, <1>2, ReportRefines DEF Way
  <2>4. Store!Receive(n)
    BY <1>0, <2>1, <2>2, <2>3 DEF Store!Receive
  <2> QED BY <2>1, <2>4 DEF Store!StoreNext
<1>3. CASE ~Last({6, 17, 18}) /\ ~LastAcmd({13, 51}) /\ Report("rx", FALSE) /\ UNCHANGED buffer
  <2>1. OrderInForce.op \notin {"read", "info"}
    BY <1>0, <1>3, OrderFacts
  <2>2. Store!Reported("rx", FALSE)
    BY <1>0, <1>3, ReportRefines DEF Way
  <2>3. Store!Receive(1)
    BY <1>0, <1>3, <2>1, <2>2, Zenon DEF Store!Receive
  <2>4. 1 \in 1 .. MaxCount
    BY SdAssumption
  <2> QED BY <2>3, <2>4 DEF Store!StoreNext
<1> QED BY <1>1, <1>2, <1>3 DEF Receive

LEMMA TransmitRefines ==
  ASSUME MaxLba < Wrap, SdInv, NEW n \in 1 .. MaxCount, Transmit(n)
  PROVE  Store!StoreNext
<1>0. SdTypeOK /\ card \in Card /\ UNCHANGED buffer /\ ~InData'
  BY TransmitFacts, BackFacts DEF SdInv, SdTypeOK, InData
<1>1. CASE /\ InData /\ Last({24, 25})
           /\ \E k \in 0 .. CountFor(n) : Pwrite(k) /\ Report("tx", k = CountFor(n))
  <2>1. PICK k \in 0 .. CountFor(n) : Pwrite(k) /\ Report("tx", k = CountFor(n))
    BY <1>1
  <2>2. OrderInForce.op = "write" /\ OrderInForce.lba = card.lastArg /\ (OrderInForce.single => CountFor(n) = 1)
    BY <1>0, <1>1, OrderFacts, CountFacts
  <2>3. OrderInForce.lba = card.offset
    <3>1. card.offset = card.lastArg % Wrap
      BY <1>1 DEF SdInv, Addressed, Last
    <3>2. card.lastArg \in Nat /\ card.lastArg < Wrap
      BY <1>0, SdAssumption DEF Card
    <3> QED BY <2>2, <3>1, <3>2, SdAssumption
  <2>4. Store!Stored(k)
    <3>1. k \in 0 .. MaxCount
      BY CountFacts, SdAssumption
    <3> QED BY <1>0, <2>1, <2>3, <3>1, PwriteFacts DEF Store!Stored
  <2>5. Store!Reported("tx", k = CountFor(n))
    <3>1. PICK ok \in BOOLEAN : ok = (k = CountFor(n))
      OBVIOUS
    <3>2. Report("tx", ok)
      BY <2>1, <3>1 DEF Report
    <3>3. Store!Reported("tx", ok)
      BY <1>0, <3>2, ReportRefines DEF Way
    <3> QED BY <3>1, <3>3 DEF Store!Reported
  <2>6. Store!Transmit(CountFor(n))
    BY <1>0, <2>2, <2>4, <2>5 DEF Store!Transmit
  <2> QED BY <2>2, <2>6, CountFacts DEF Store!StoreNext
<1>2. CASE ~(InData /\ Last({24, 25})) /\ Report("tx", FALSE) /\ UNCHANGED image
  <2>1. OrderInForce.op # "write"
    BY <1>0, <1>2, OrderFacts
  <2>2. Store!Reported("tx", FALSE)
    BY <1>0, <1>2, ReportRefines DEF Way
  <2>3. Store!Transmit(1)
    BY <1>0, <1>2, <2>1, <2>2, Zenon DEF Store!Transmit
  <2>4. 1 \in 1 .. MaxCount
    BY SdAssumption
  <2> QED BY <2>3, <2>4 DEF Store!StoreNext
<1> QED BY <1>1, <1>2 DEF Transmit

(* The host and the card implement the store: data moves only as ordered,  *)
(* between the blocks named and the buffer, and is reported good only if   *)
(* all of it moved.  The drivers' blocks lie below 2^23: beyond, command's *)
(* 32-bit byte offset names another block.                                 *)
THEOREM StoreIsImplemented ==
  ASSUME MaxLba < Wrap
  PROVE  SdSpec => ImplementsStore
<1>1. SdInit => Store!StoreInit
  <2> SUFFICES ASSUME SdInit PROVE Store!StoreInit
    OBVIOUS
  <2>1. image \in Seq(Value) /\ buffer \in Buffers /\ card \in Card
    BY SdInitInv DEF SdInv, SdTypeOK
  <2>2. OrderInForce = Store!NoOrder
    BY <2>1, OrderFacts DEF SdInit, InData
  <2>3. [w \in Way |-> status[w]] = [kind \in {"rx", "tx"} |-> TRUE]
    BY DEF SdInit, Way
  <2> QED BY <2>1, <2>2, <2>3 DEF Store!StoreInit, Store!Buffers, Buffers
<1>2. ASSUME SdInv, [SdNext]_sdVars PROVE [Store!StoreNext]_(Store!storeVars)
  <2>1. CASE Passing
    BY <1>2, <2>1, PassingRefines
  <2>2. CASE \E cmd \in Cmd, arg \in 0 .. MaxLba : DoCommand(cmd, arg)
    BY <1>2, <2>2, DoCommandRefines DEF Store!StoreNext
  <2>3. CASE \E n \in 1 .. MaxCount : Receive(n)
    BY <1>2, <2>3, ReceiveRefines
  <2>4. CASE \E n \in 1 .. MaxCount : Transmit(n)
    BY <1>2, <2>4, TransmitRefines
  <2>5. CASE UNCHANGED sdVars
    BY <2>5 DEF sdVars, Store!storeVars, OrderInForce, InData, Last, LastAcmd
  <2> QED BY <1>2, <2>1, <2>2, <2>3, <2>4, <2>5 DEF SdNext, CheckForWork, Passing
<1> QED BY <1>1, <1>2, SdInvariant, PTL DEF SdSpec, ImplementsStore, Store!StoreSpec
=============================================================================
