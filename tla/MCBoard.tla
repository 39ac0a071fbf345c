------------------------------- MODULE MCBoard -------------------------------
(* The board of PLATFORM 3 for TLC.  Memory is counted in blocks and a     *)
(* device's registers are one address, in the order and with the gaps of   *)
(* the memory map.  A guest drives devices that matter to one another; one *)
(* scenario has a client at the management socket in the guest's place.    *)
EXTENDS WholeMachine

At(d, b, n) == [dev |-> d, base |-> b, size |-> n]

\* platform_init, in the order of its calls; one device of each kind
Platform3 == <<
  At("ram", 0, 2), At("bootram", 13, 1), At("uart", 4, 1), At("intc", 7, 1),
  At("lcdc", 5, 1), At("gpio", 6, 1), At("i2s", 9, 1), At("sdh", 10, 1),
  At("sbd", 11, 1), At("spi0", 8, 1) >>

Devices == {m.dev : m \in {Platform3[k] : k \in DOMAIN Platform3}}
Rams == {"ram", "bootram"}
Lines == {0, 3}

DiskGuest == {"sbd"}
ShowGuest == {"lcdc"}
PinGuest  == {"spi0"}
IrqGuest  == {"intc", "uart", "sdh"}
RamGuest  == {"ram", "bootram", "gpio", "i2s"}
NoGuest   == {}
Guests    == {DiskGuest, ShowGuest, PinGuest, IrqGuest, RamGuest, NoGuest}

TwoBlocks == {<<"d1", "d2">>}
OneBlock  == <<"r1">>
DiskRegs  == [PA |-> {0, 1}, LEN |-> {2, 7}, BLK_START |-> {1, 2}]
Stored    == {"zero", "g"}
Files     == {<<>>, <<<<"CPU", TRUE>>, <<"MEMBLK", 0, "g">>>>}

LogLines  == [l \in {<<"a">>, <<"a", "a">>} |-> [flag |-> "DISASS", on |-> Len(l) = 1]]

\* What a guest does not drive is in one of its states only.
MCInit ==
  /\ MachineInit
  /\ driver # DiskGuest => fd = "none"
  /\ driver # PinGuest => ~spidev /\ ~pins.clk /\ ~slave.cpol /\ ~slave.cpha
  /\ driver \notin {IrqGuest, RamGuest} => ~saves
  /\ driver # RamGuest => file = <<>> /\ ram[0] # Zero

\* Exits are followed from the guests that may save, and from a bad DMA address.
MCExits == driver \in {IrqGuest, RamGuest} \/ BadDma

\* Clients come when there is no guest, and find the platform set up.
MCNext ==
  \/ CpuThread /\ (stage' # stage => MCExits)
  \/ driver = NoGuest /\ PlatformReady /\ MgmtThread

MCSpec == MCInit /\ [][MCNext]_machineVars
=============================================================================
