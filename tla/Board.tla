-------------------------------- MODULE Board --------------------------------
(***************************************************************************)
(* The devices of the board (PLATFORM 3) behind the bus, as the CPU thread *)
(* drives them: guest loads and stores, the main loop's periodic display   *)
(* poll, and the way out through sim_quit.  Everything here happens on     *)
(* that one thread, an access at a time; what other threads add is in      *)
(* XpsIntc and ConsoleInput.  The SD host and the UARTs appear with the    *)
(* interrupts they raise, their registers are in SdHost and ConsoleInput.  *)
(***************************************************************************)
EXTENDS Sbd, Lcdc, Spi, XpsIntc

CONSTANTS
  Drivers,     \* each a set of devices that one guest drives
  Unmapped,    \* addresses without a device that a guest may touch
  RegValues,   \* what the guest puts into the block device's registers
  Contents,    \* what the guest stores in RAM, by block
  GpioLines,
  OldFiles     \* the state file as earlier runs may have left it

\* An address is a physical address, a register is 32 bits wide.
ASSUME BoardAssumption ==
  /\ Unmapped \subseteq Addr /\ FbBases \subseteq Addr
  /\ RegValues \in [{"PA", "LEN", "BLK_START"} -> SUBSET (0 .. U32 - 1)] /\ RegValues["PA"] \subseteq Addr

\* RAM is attached before anything else, and a file is a sequence of chunks.
ASSUME SaveAssumption == Map # <<>> /\ \A f \in OldFiles : f \in Seq(Range(f))

VARIABLES
  driver,      \* the devices this guest drives
  gpio,        \* DevGPIO::out_state, as a set of lines
  saves,       \* a state file is configured (-x)
  stage,       \* "run", or how far sim_quit has come
  uartHeld,    \* the quitting thread holds the console UART's mutex
  file,        \* the state file, a sequence of chunks
  written      \* chunks of it that this run has written

quitVars  == <<saves, stage, uartHeld, file, written>>
boardVars == <<busVars, sbdVars, lcdcVars, spiVars, intcVars, driver, gpio, quitVars>>

GuestAddr == Unmapped \cup UNION {Region(Map[k]) : k \in {l \in DOMAIN Map : Map[l].dev \in driver}}

Uarts == {"uart", "kbd", "mse"}

\* Access widths a device has a handler for; the others are FATAL.
Widths(d) == IF d \in RamDevs \cup {"i2s"} THEN {8, 16, 32}
             ELSE IF d \in Uarts THEN {8} ELSE {32}

CpuFree == stage = "run" /\ cmd = "IDLE" /\ at[CPU] = "out"

Access(a, w, d) ==
  /\ CpuFree
  /\ d \in driver
  /\ Lookup(a)
  /\ last_dev' # -1 /\ devs[last_dev'].dev = d
  /\ w \in Widths(d)
  /\ UNCHANGED <<driver, quitVars>>

(* Accesses that only return a value, and stores that a device ignores.    *)
Read ==
  /\ \E a \in GuestAddr, w \in {8, 16, 32} : \E d \in driver : Access(a, w, d)
  /\ UNCHANGED <<sbdVars, lcdcVars, spiVars, intcVars, gpio>>

RamStore ==
  /\ \E a \in GuestAddr, d \in RamDevs, v \in Contents : Access(a, 32, d) /\ WriteRam(a, v)
  /\ UNCHANGED <<lcdcVars, spiVars, intcVars, gpio>>

SbdStore ==
  /\ \E a \in GuestAddr : Access(a, 32, "sbd")
  /\ \/ \E r \in DOMAIN RegValues : \E v \in RegValues[r] : WriteReg(r, v)
     \/ \E c \in {"RD", "WR", "other"} : WriteCmd(c)
  /\ UNCHANGED <<lcdcVars, spiVars, intcVars, gpio>>

LcdcStore ==
  /\ \E a \in GuestAddr : Access(a, 32, "lcdc")
  /\ LcdcWrite
  /\ UNCHANGED <<sbdVars, spiVars, intcVars, gpio>>

SpiStore ==
  /\ \E a \in GuestAddr : Access(a, 32, "spi0")
  /\ SpiWrite
  /\ UNCHANGED <<sbdVars, lcdcVars, intcVars, gpio>>

\* write32 to OUT, OUT_W1S and OUT_W1C
GpioStore ==
  /\ \E a \in GuestAddr : Access(a, 32, "gpio")
  /\ \E ls \in SUBSET GpioLines : gpio' \in {ls, gpio \cup ls, gpio \ ls}
  /\ UNCHANGED <<sbdVars, lcdcVars, spiVars, intcVars>>

IntcStore ==
  /\ \E a \in GuestAddr : Access(a, 32, "intc")
  /\ \/ \E r \in Reg, how \in How, ls \in SUBSET Line : Write32(CPU, r, how, ls)
     \/ Write32Unused(CPU)
  /\ UNCHANGED <<sbdVars, lcdcVars, spiVars, gpio>>

\* setIntc: where platform_init wires the devices that raise interrupts
IrqOf == [uart |-> 0, kbd |-> 1, mse |-> 2, sdh |-> 3]

\* An access that makes the SD host or a UART raise its interrupt.
Interrupting ==
  /\ \E a \in GuestAddr, w \in {8, 32}, d \in DOMAIN IrqOf :
       IrqOf[d] \in Line /\ Access(a, w, d) /\ TriggerIRQ(CPU, IrqOf[d])
  /\ UNCHANGED <<sbdVars, lcdcVars, spiVars, gpio>>

IntcStep ==
  /\ InIntc(CPU)
  /\ UNCHANGED <<busVars, sbdVars, lcdcVars, spiVars, driver, gpio, quitVars>>
-----------------------------------------------------------------------------
(* A device fetches guest memory: getAddrDMA of DevSBD and DevLCDC.        *)
DirectMap(a) == Lookup(a) /\ last_dev' # -1 /\ devs[last_dev'].dev \in RamDevs

SbdIgnored ==
  /\ Ignored
  /\ UNCHANGED <<busVars, lcdcVars, spiVars, intcVars, driver, gpio, quitVars>>

SbdCommand ==
  /\ stage = "run"
  /\ DirectMap(sbdReg.PA)
  /\ Refused \/ DoRead \/ DoWrite
  /\ UNCHANGED <<lcdcVars, spiVars, intcVars, driver, gpio, quitVars>>

Poll ==
  /\ CpuFree
  /\ "lcdc" \in driver
  /\ DirectMap(lcdc.base)
  /\ Refresh
  /\ UNCHANGED <<sbdVars, spiVars, intcVars, driver, gpio, quitVars>>
-----------------------------------------------------------------------------
(* sim_quit.  FATAL is one of its callers, and may be inside a device.     *)
Quit(held) ==
  /\ stage' = IF saves THEN "open" ELSE "exited"
  /\ uartHeld' = held
  /\ UNCHANGED <<sbdVars, lcdcVars, spiVars, intcVars, driver, gpio, saves, file, written>>

\* No device at an address, no handler for the width, no such register; the
\* console UART finds the last out with its mutex held.
BadAccess ==
  /\ CpuFree
  /\ \E a \in GuestAddr :
       /\ Lookup(a)
       /\ last_dev' # -1 => devs[last_dev'].dev \notin RamDevs \cup {"i2s"}
       /\ \E held \in BOOLEAN :
            /\ held => last_dev' # -1 /\ devs[last_dev'].dev = "uart"
            /\ Quit(held)

BadDma ==
  /\ stage = "run" /\ PlatformReady
  /\ \/ cmd # "IDLE" /\ sbdReg.LEN # 0 /\ fd # "none" /\ Lookup(sbdReg.PA)
     \/ CpuFree /\ "lcdc" \in driver /\ lcdc.en /\ Lookup(lcdc.base)
  /\ ~(last_dev' # -1 /\ devs[last_dev'].dev \in RamDevs)
  /\ Quit(FALSE)

\* The window is closed, or the instruction limit reached.
Stop ==
  /\ CpuFree /\ PlatformReady
  /\ Quit(FALSE)
  /\ UNCHANGED busVars

\* platform_meminfo knows of one bank, the first RAM attached.
Bank0 == Region(Map[1])

\* Mutant of MemChunks: the first block of zeros ends the loop.
MemChunksUpToZero ==
  LET s[i \in 0 .. Map[1].size] ==
        IF i = 0 THEN <<>>
        ELSE LET a == Map[1].base + i - 1 IN
             IF \E z \in Map[1].base .. a : ram[z] = Zero THEN s[i - 1]
             ELSE Append(s[i - 1], <<"MEMBLK", a, ram[a]>>)
  IN s[Map[1].size]

\* The bank, one block after another; a block of zeros is left out.
MemChunks ==
  LET s[i \in 0 .. Map[1].size] ==
        IF i = 0 THEN <<>>
        ELSE LET a == Map[1].base + i - 1 IN
             IF ram[a] = Zero THEN s[i - 1] ELSE Append(s[i - 1], <<"MEMBLK", a, ram[a]>>)
  IN s[Map[1].size]

\* What state_save_open writes: registers, then memory.
CpuChunks == <<<<"CPU", irqFlag>>>> \o MemChunks

PlatformChunks == <<<<"IC_ISR", reg["ISR"]>>, <<"IC_IER", reg["IER"]>>>>

\* The file is opened without O_TRUNC: what is not written over stays.
Overwritten(chunks, n) ==
  SubSeq(file, 1, written) \o SubSeq(chunks, 1, n)
    \o SubSeq(file, written + n + 1, Len(file))

\* A write of a chunk that fails ends the save.
Save(chunks, next) ==
  /\ \E n \in 0 .. Len(chunks) :
       /\ file' = Overwritten(chunks, n)
       /\ written' = written + n
       /\ stage' = IF n = Len(chunks) THEN next ELSE "exited"
  /\ UNCHANGED <<busVars, sbdVars, lcdcVars, spiVars, intcVars, driver, gpio, saves, uartHeld>>

SaveOpen == stage = "open" /\ Save(CpuChunks, "intc")
SaveIntc == stage = "intc" /\ Save(PlatformChunks, "uart")

\* The UART's registers are read under its mutex, which is not recursive.
SaveUart == stage = "uart" /\ ~uartHeld /\ Save(<<<<"CON_SR">>>>, "exited")
-----------------------------------------------------------------------------
PlatformInit ==
  /\ Attach
  /\ UNCHANGED <<sbdVars, lcdcVars, spiVars, intcVars, driver, gpio, quitVars>>

BoardInit ==
  /\ BusInit /\ SbdInit /\ LcdcInit /\ SpiInit /\ IntcInit
  /\ driver \in Drivers
  /\ gpio = {}
  /\ saves \in BOOLEAN
  /\ stage = "run"
  /\ uartHeld = FALSE
  /\ file \in OldFiles
  /\ written = 0

BoardNext ==
  \/ PlatformInit
  \/ Read \/ RamStore \/ SbdStore \/ LcdcStore \/ SpiStore \/ GpioStore \/ IntcStore
  \/ Interrupting \/ IntcStep
  \/ SbdIgnored \/ SbdCommand \/ Poll
  \/ BadAccess \/ BadDma \/ Stop
  \/ SaveOpen \/ SaveIntc \/ SaveUart

BoardSpec == BoardInit /\ [][BoardNext]_boardVars
-----------------------------------------------------------------------------
\* Every chunk of a save that ended has been written, over the whole old file.
WholeSave == stage = "exited" /\ written > 0 /\ Len(file) = written /\ file[written] = <<"CON_SR">>

Recorded(a) ==
  IF \E i \in DOMAIN file : file[i][1] = "MEMBLK" /\ file[i][2] = a
  THEN file[CHOOSE i \in DOMAIN file : file[i][1] = "MEMBLK" /\ file[i][2] = a][3]
  ELSE Zero

(* A state file that was written to its end tells what the machine was:    *)
(* every block of the first RAM bank, the ones left out being zero, and    *)
(* the interrupt controller with its output.  About state_save_open and    *)
(* platform_state_save ("Architectural state save").                       *)
SavedIsTheMachine ==
  WholeSave =>
    /\ \A a \in Bank0 : Recorded(a) = ram[a]
    /\ <<"CPU", reg["ISR"] \cap reg["IER"] # {}>> \in {file[i] : i \in DOMAIN file}
    /\ <<"IC_ISR", reg["ISR"]>> \in {file[i] : i \in DOMAIN file}
    /\ <<"IC_IER", reg["IER"]>> \in {file[i] : i \in DOMAIN file}
=============================================================================
