--------------------------------- MODULE Spi ---------------------------------
(***************************************************************************)
(* DevSPI and SPIDevGPIO: the SPI host's registers, and the back end that  *)
(* moves a byte by setting the host's pins one at a time.  The slave at    *)
(* the pins is external: a shift register with a clock mode of its own,    *)
(* selected while CS is low.  Bits are symbols, <<txd register, byte, bit>>*)
(* from the guest and <<"slave", n>> from the slave.                       *)
(***************************************************************************)
EXTENDS Integers, Sequences

CONSTANTS
  ByteBits,    \* bits clocked for a byte, 8 in the program
  MaxLen,      \* bound: XFLEN values the guest uses are 0..MaxLen
  MaxBits      \* bound: bits exchanged in one selection

ASSUME SpiAssumption == ByteBits \in Nat \ {0} /\ MaxLen \in Nat

VARIABLES
  config,     \* CPOL and CPHA as last written to CTRL
  rxd,        \* RXD_A and RXD_B: a sequence of bytes, first one lowest
  pins,       \* the levels of CLK, DOUT and CS
  slave,      \* its mode, the bit it presents, the bits it has sampled
  spidev,     \* a back end has been added (addDevice)
  tuned       \* since it was selected the slave has been driven in its mode

spiVars == <<config, rxd, pins, slave, spidev, tuned>>

Mode == [cpol : BOOLEAN, cpha : BOOLEAN]
Channel == {"A", "B"}

(* The slave: in phase 0 it samples on the edge that leaves the clock's    *)
(* resting level and presents its next bit on the one that returns to it;  *)
(* in phase 1 the other way round.  What it makes of a wrong mode is open, *)
(* until it is selected again.                                             *)
Clocked(w, level) ==
  LET leading == level # w.slave.cpol
      v == [w EXCEPT !.clk = level]
  IN IF level = w.clk \/ ~w.tuned THEN v
     ELSE IF leading # w.slave.cpha THEN [v EXCEPT !.slave.got = Append(@, w.dout)]
     ELSE [v EXCEPT !.slave.n = @ + 1]

Din(w) == IF w.tuned THEN <<"slave", w.slave.n>> ELSE <<"any">>

\* setClk
SetClk(w, on) == Clocked(w, on # w.mode.cpol)

\* Mutant of GetPutByte: the clock is moved back after the last bit in phase 1 too.
GetPutByteExtraEdge(w0, tx) ==
  LET cpha == w0.mode.cpha
      s[k \in 0 .. ByteBits] ==
        IF k = 0 THEN [w |-> SetClk(w0, cpha), r |-> <<>>]
        ELSE LET p == s[k - 1]
                 w == [p.w EXCEPT !.dout = tx[ByteBits - k]]
             IN [w |-> SetClk(SetClk(w, ~cpha), cpha), r |-> Append(p.r, Din(w))]
  IN [w |-> SetClk(s[ByteBits].w, FALSE), r |-> s[ByteBits].r]

\* getPutByte; bit ByteBits - 1 first
GetPutByte(w0, tx) ==
  LET cpha == w0.mode.cpha
      s[k \in 0 .. ByteBits] ==
        IF k = 0 THEN [w |-> SetClk(w0, cpha), r |-> <<>>]
        ELSE LET p == s[k - 1]
                 w == [p.w EXCEPT !.dout = tx[ByteBits - k]]
                 v == SetClk(w, ~cpha)
             IN [w |-> IF cpha /\ k = ByteBits THEN v ELSE SetClk(v, cpha),
                 r |-> Append(p.r, Din(w))]
  IN [w |-> SetClk(s[ByteBits].w, FALSE), r |-> s[ByteBits].r]

TxByte(ch, i) == [b \in 0 .. ByteBits - 1 |-> <<ch, i, b>>]

\* doTransfer: len + 1 bytes, lowest first
DoTransfer(w0, ch, len) ==
  LET s[i \in 0 .. len + 1] ==
        IF i = 0 THEN [w |-> w0, r |-> <<>>]
        ELSE LET b == GetPutByte(s[i - 1].w, TxByte(ch, i - 1))
             IN [w |-> b.w, r |-> Append(s[i - 1].r, b.r)]
  IN s[len + 1]

InMode(mode) == [cpol |-> slave.cpol, cpha |-> slave.cpha] = mode

AtRest == [slave EXCEPT !.n = 0, !.got = <<>>]

\* What a register write in `mode` works on.
Wires(mode) == [clk |-> pins.clk, dout |-> pins.dout, slave |-> slave, mode |-> mode,
                tuned |-> tuned /\ InMode(mode)]

Settle(w) ==
  /\ pins' = [pins EXCEPT !.clk = w.clk, !.dout = w.dout]
  /\ slave' = IF w.tuned THEN w.slave ELSE AtRest
  /\ tuned' = w.tuned
  /\ UNCHANGED spidev

\* write32 to CTRL: setConfig, then RUN_A and RUN_B in this order
WriteCtrl(mode, run, len) ==
  /\ config' = mode
  /\ Len(slave.got) + 2 * (MaxLen + 1) * ByteBits <= MaxBits
  /\ IF spidev
     THEN LET w == SetClk(Wires(mode), FALSE)
              a == IF "A" \in run THEN DoTransfer(w, "A", len["A"]) ELSE [w |-> w, r |-> rxd["A"]]
              b == IF "B" \in run THEN DoTransfer(a.w, "B", len["B"]) ELSE [w |-> a.w, r |-> rxd["B"]]
          IN Settle(b.w) /\ rxd' = [A |-> a.r, B |-> b.r]
     ELSE /\ rxd' = [ch \in Channel |-> IF ch \in run THEN <<>> ELSE rxd[ch]]
          /\ UNCHANGED <<pins, slave, spidev, tuned>>

\* write32 to CLKDIV; the divider itself changes no order of events
WriteClkDiv ==
  /\ UNCHANGED <<config, rxd>>
  /\ IF spidev THEN Settle(SetClk(Wires(config), FALSE)) ELSE UNCHANGED <<pins, slave, spidev, tuned>>

\* write32 to CS
WriteCs(v) ==
  /\ UNCHANGED <<config, rxd, spidev>>
  /\ IF spidev
     THEN /\ pins' = [pins EXCEPT !.cs = v]
          /\ IF pins.cs /\ ~v
             THEN /\ tuned' = (pins.clk = slave.cpol /\ InMode(config))
                  /\ slave' = [AtRest EXCEPT !.n = IF tuned' /\ slave.cpha THEN -1 ELSE 0]
             ELSE /\ tuned' = (tuned /\ ~v)
                  /\ slave' = IF v THEN AtRest ELSE slave
     ELSE UNCHANGED <<pins, slave, tuned>>

SpiWrite ==
  \/ \E m \in Mode, run \in SUBSET Channel : \E len \in [run -> 0 .. MaxLen] : WriteCtrl(m, run, len)
  \/ WriteClkDiv
  \/ \E v \in BOOLEAN : WriteCs(v)

SpiInit ==
  /\ config = [cpol |-> FALSE, cpha |-> FALSE]
  /\ rxd = [ch \in Channel |-> <<>>]
  /\ pins \in [clk : BOOLEAN, dout : {<<"none">>}, cs : {TRUE}]
  /\ slave \in [cpol : BOOLEAN, cpha : BOOLEAN, n : {0}, got : {<<>>}]
  /\ spidev \in BOOLEAN
  /\ tuned = FALSE
-----------------------------------------------------------------------------
\* The bits of bytes 0..len of a register, in the order a slave should see them.
BitsOf(ch, len) ==
  [k \in 1 .. (len + 1) * ByteBits |-> <<ch, (k - 1) \div ByteBits, ByteBits - 1 - ((k - 1) % ByteBits)>>]

Received(ch, len, from) ==
  [i \in 1 .. len + 1 |-> [b \in 1 .. ByteBits |-> <<"slave", from + (i - 1) * ByteBits + b - 1>>]]

(* In all four clock modes a transfer exchanges exactly its bits with the  *)
(* slave: every bit once and in order both ways, also after earlier        *)
(* transfers of the same selection, and the clock is left so that the next *)
(* one does.  About DevSPI::doTransfer over SPIDevGPIO::getPutByte, while  *)
(* the guest keeps the slave's mode.                                       *)
ExchangesItsBits ==
  [][~pins.cs /\ tuned' /\ pins'.cs = pins.cs =>
       \A m \in Mode, run \in SUBSET Channel : \A len \in [run -> 0 .. MaxLen] :
       WriteCtrl(m, run, len) =>
         LET n  == Len(slave.got)
             na == IF "A" \in run THEN (len["A"] + 1) * ByteBits ELSE 0
         IN /\ slave'.got = slave.got
                 \o (IF "A" \in run THEN BitsOf("A", len["A"]) ELSE <<>>)
                 \o (IF "B" \in run THEN BitsOf("B", len["B"]) ELSE <<>>)
            /\ "A" \in run => rxd'["A"] = Received("A", len["A"], n)
            /\ "B" \in run => rxd'["B"] = Received("B", len["B"], n + na)]_spiVars
=============================================================================
