--------------------------------- MODULE Sbd ---------------------------------
(***************************************************************************)
(* DevSBD, the block device, with the guest memory it reads and writes     *)
(* through the bus's direct map.  Memory, image and addresses are counted  *)
(* in blocks.  A command is carried out within the register write that     *)
(* gives it: `cmd` is not IDLE only between that write and its end.        *)
(***************************************************************************)
EXTENDS Bus, FiniteSetsExt

CONSTANTS
  RamDevs,     \* the devices with a direct_map (DevRAM)
  U32,         \* 2^32: what a register and a sum of block numbers wrap at
  BlkSize,     \* DEVSBD_BLK_SIZE; products with it wrap at U32 as well
  MaxImage,    \* bound: an image grows to this many blocks at most
  Images,      \* images the device may be started with
  Rom,         \* the blocks of the file loaded at start (rom_path)
  LoadAddrs,   \* where it may be loaded (load_addr)
  Zero, Junk   \* a block of zeros; a block of whatever the host keeps there

ASSUME SbdAssumption ==
  /\ U32 \in Nat \ {0} /\ BlkSize \in Nat \ {0} /\ BlkSize <= U32
  /\ MaxImage \in Nat /\ \A im \in Images : im \in Seq(Range(im))

VARIABLES
  ram,        \* the contents of each RAM device, by address
  image,      \* the image file
  fd,         \* "none", "open", or "closed" for one given up by openImage
  nr_blocks,
  sbdReg,     \* PA, LEN and BLK_START
  cmd,        \* CMD
  spilled     \* host memory behind a RAM device has been written

sbdVars == <<ram, image, fd, nr_blocks, sbdReg, cmd, spilled>>

RamSlots == {k \in DOMAIN Map : Map[k].dev \in RamDevs}
RamAddr  == UNION {Region(Map[k]) : k \in RamSlots}

\* The addresses behind the one mapping that holds a.
BankOf(a) == UNION {Region(Map[k]) : k \in {l \in RamSlots : a \in Region(Map[l])}}

BlocksWrap == U32 \div BlkSize   \* num * BLK_SIZE wraps after that many blocks

\* Mutant of OffEnd: the last block of a request is not looked at.
OffEndFirstOnly(start, num) == start >= nr_blocks

OffEnd(start, num) == start >= nr_blocks \/ (start + num) % U32 > nr_blocks

WriteReg(r, v) ==
  /\ cmd = "IDLE"
  /\ sbdReg' = [sbdReg EXCEPT ![r] = v]
  /\ UNCHANGED <<ram, image, fd, nr_blocks, cmd, spilled>>

\* write32 to CMD; an unknown command, and every other register, is ignored
WriteCmd(c) ==
  /\ cmd = "IDLE"
  /\ cmd' = IF c \in {"RD", "WR"} THEN c ELSE "IDLE"
  /\ UNCHANGED <<ram, image, fd, nr_blocks, sbdReg, spilled>>

Idle == cmd' = "IDLE" /\ UNCHANGED <<fd, nr_blocks, sbdReg>>

\* doRead and doWrite return before they look at memory
Ignored ==
  /\ cmd # "IDLE"
  /\ sbdReg.LEN = 0 \/ fd = "none"
  /\ Idle
  /\ UNCHANGED <<ram, image, spilled>>

\* The rest of doRead and doWrite: getAddrDMA has looked PA up on the bus.
Refused ==
  /\ cmd # "IDLE" /\ sbdReg.LEN # 0 /\ fd # "none"
  /\ OffEnd(sbdReg.BLK_START, sbdReg.LEN)
  /\ Idle
  /\ UNCHANGED <<ram, image, spilled>>

Count  == sbdReg.LEN % BlocksWrap
Offset == sbdReg.BLK_START % BlocksWrap

(* pread and pwrite move any number of blocks up to what there is, and     *)
(* their result is only looked at to complain.                             *)
DoRead ==
  /\ cmd = "RD" /\ sbdReg.LEN # 0 /\ fd = "open"
  /\ ~OffEnd(sbdReg.BLK_START, sbdReg.LEN)
  /\ \E n \in 0 .. Min({Count, Max({Len(image) - Offset, 0})}) :
       LET to == sbdReg.PA .. sbdReg.PA + n - 1 IN
       /\ ram' = [a \in RamAddr |-> IF a \in to \cap BankOf(sbdReg.PA)
                                    THEN image[Offset + a - sbdReg.PA + 1] ELSE ram[a]]
       /\ spilled' = (spilled \/ ~(to \subseteq BankOf(sbdReg.PA)))
  /\ Idle
  /\ UNCHANGED image

DoWrite ==
  /\ cmd = "WR" /\ sbdReg.LEN # 0 /\ fd = "open"
  /\ ~OffEnd(sbdReg.BLK_START, sbdReg.LEN)
  /\ \E n \in 0 .. Min({Count, MaxImage - Offset}) :
       image' = [b \in 1 .. Max({Len(image), Offset + n}) |->
                   IF b \in Offset + 1 .. Offset + n
                   THEN LET a == sbdReg.PA + b - 1 - Offset IN
                        IF a \in BankOf(sbdReg.PA) THEN ram[a] ELSE Junk
                   ELSE image[b]]
  /\ Idle
  /\ UNCHANGED <<ram, spilled>>

(* A processor store to RAM. *)
WriteRam(a, v) ==
  /\ cmd = "IDLE"
  /\ ram' = [ram EXCEPT ![a] = v]
  /\ UNCHANGED <<image, fd, nr_blocks, sbdReg, cmd, spilled>>

(* loadAtOffset, called by platform_init for the highest RAM that begins   *)
(* at or below load_addr; a file that goes off its end is FATAL.           *)
LoadAtOffset(la) ==
  LET below == {k \in RamSlots : Map[k].base <= la}
      m == Map[CHOOSE k \in below : \A l \in below : Map[l].base <= Map[k].base]
  IN /\ la + Len(Rom) <= m.base + m.size
     /\ ram = [a \in RamAddr |-> IF a \in la .. la + Len(Rom) - 1 THEN Rom[a - la + 1] ELSE Zero]

(* The constructor and openImage: no image, one that opens, and one that   *)
(* is given up (fstat fails, or too many blocks for nr_blocks).            *)
SbdInit ==
  /\ \E la \in LoadAddrs : LoadAtOffset(la)
  /\ image \in Images
  /\ \/ fd \in {"none", "closed"} /\ nr_blocks = 0
     \/ fd = "open" /\ nr_blocks = Len(image)
  /\ sbdReg = [PA |-> 0, LEN |-> 0, BLK_START |-> 0]
  /\ cmd = "IDLE"
  /\ spilled = FALSE
-----------------------------------------------------------------------------
\* A request whose sums and products stay below 2^32, for memory that is there.
Sane ==
  /\ sbdReg.BLK_START + sbdReg.LEN < U32
  /\ nr_blocks < BlocksWrap
  /\ sbdReg.PA .. sbdReg.PA + sbdReg.LEN - 1 \subseteq BankOf(sbdReg.PA)

FromImage(a) == image[sbdReg.BLK_START + a - sbdReg.PA + 1]

(* A command, whatever of it the host carries out, copies a run of the     *)
(* requested blocks, all of them inside the image, to or from the memory   *)
(* at PA, and changes nothing else; the image keeps its size.  About       *)
(* doRead and doWrite, for requests that fit (section 10 of the README     *)
(* has the others).                                                        *)
CopiesTheRequest ==
  [][cmd # "IDLE" /\ cmd' = "IDLE" /\ Sane =>
       \E n \in 0 .. sbdReg.LEN :
         /\ n > 0 => sbdReg.BLK_START + sbdReg.LEN <= nr_blocks
         /\ ram' = [a \in RamAddr |->
                      IF cmd = "RD" /\ a \in sbdReg.PA .. sbdReg.PA + n - 1
                      THEN FromImage(a) ELSE ram[a]]
         /\ image' = [b \in 1 .. Len(image) |->
                        IF cmd = "WR" /\ b - 1 \in sbdReg.BLK_START .. sbdReg.BLK_START + n - 1
                        THEN ram[sbdReg.PA + b - 1 - sbdReg.BLK_START] ELSE image[b]]
         /\ spilled' = spilled]_sbdVars
=============================================================================
