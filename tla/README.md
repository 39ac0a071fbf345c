# MR-ISS in TLA+

MR-ISS is an instruction-set simulator of a small 32-bit PowerPC computer: an
interpreter over a CPU state and a software MMU, a physical address bus, and
the devices of the MattRISC board.  This directory holds TLA+ models of it, the
TLC configurations that check them on small instances, and theorems about them
that TLAPS proves for every size of every table.

Run a check with `tlc -workers 2 -config mmu_dirty.cfg MCPPCMMU.tla`, a proof
with `tlapm PPCMMU_proofs.tla`.

## 1. The system

```
 guest program            PTY / TCP peer          management client
      |                        |                         |
 main loop --> PPCInterpreter  listener threads     management thread
      |          |   |               |                   |
      |    PPCCPUState  PPCMMU        | rx callback       | counters, log mask,
      |       ^   |        |          v                   v CPU state
      |       |   +--------+--> Bus --> UARTs, INTC, SD host + card, SBD,
      |       |                         LCDC, SPI, GPIO, RAM
      |       +---- assertIRQ ----------- INTC <-- triggerIRQ -- devices
      +-- CPUTick, interrupt delivery, periodic display poll
```

| Component | State it keeps | Operations | Hard behaviour | What makes it correct |
|---|---|---|---|---|
| `PPCMMU` | IR/DR copies, BATs, segment registers, SDR1, four micro-TLBs, generation count | register setters, tlbie/tlbia, `translateAddr` from every fetch, load and store | micro-TLB entries outliving what they were made from; R and C written by the walk before permission is known | every access lands where a fresh walk would send it; C only for stores that go ahead |
| `PPCCPUState` + main loop | registers, MSR, SRR0/1, DEC, TB, external interrupt flag | exceptions, `CPUTick`, delivery between instructions | MSR held twice (CPU and MMU), level-sensitive DEC and EI, order of delivery | the MMU's IR/DR follow the MSR; a pending enabled interrupt is taken, and returned from exactly |
| `PPCInterpreter` | reservation, current instruction, sticky fault | some 200 opcodes, generated decoder | faults half way through multi-access instructions; reservation lifetime; carries, masks and counters at the edges of a word | an instruction that faults can be restarted; results and flags are the architecture's |
| `DevXpsIntc` | ISR, IER, MER, driven-CPU flag | register writes by the CPU; `triggerIRQ` by devices, from any thread | no lock between the threads | the CPU input is up while an enabled interrupt is pending |
| `DevSimpleUart`, `DevUart`, `SerialPTY`, `SerialTCP` | UART registers under a mutex; `reportRX`, outside it | register reads and writes; listener thread's callback | edge-triggered interrupts, one-shot callback re-armed by the CPU thread | no byte is left without a report; status says what it says |
| `DevSD`, `DevSDCard` | request/ack toggles, statuses, interrupt flags; card state machine | register writes do all the work at once | toggles going out of step; card states and command prefixes | every request is acknowledged once, data moves only when the card was told to move it |
| `DevSBD` | one command register, image size | synchronous reads and writes of blocks | products and sums of 32-bit block numbers | never touches a block outside the image |
| `Bus` | 32 slots, last hit | attach, lookup | the cached slot | the cache never changes which device answers |
| management socket | input buffer, connection | line reassembly, statistics, log flags | partial lines, reconnects, other thread's counters | the commands executed are the lines sent |
| JIT (`blockstore`, `blockgen`, `runloop`) | code buffer, hash chains, last block | lookup, allocation, reset on exhaustion, longjmp out of a block | stale blocks, generation running off the buffer | a block is run only for the code and MSR it was made from |
| state save (`sim_state`, `platform_state_save`) | a file of chunks | once, on exit | exit with a device mutex held | the file is what the machine was |
| `DevLCDC` | registers, palette, the window's pixels | register writes, periodic refresh from guest memory | words that a line leaves half used, scaling | the window shows the framebuffer |
| `DevSPI`, `SPIDevGPIO` | CTRL, RXD/TXD, pins | transfers of 1 to 4 bytes, bit by bit | four clock modes, byte after byte in one selection | every bit is exchanged once and in order |
| `DevGPIO`, `DevRAM`, `DevDummy`, `DevDebug` | registers, memory | register reads and writes | little | - |
| `OS.cc` (HOSTED), `Config`, `log`, `stats` | options, files, counters | start-up, system calls | little | - |

## 2. The modules

In the order in which they were planned, the most important behaviour first.

| Module | What it is | Uses |
|---|---|---|
| `PPCWalk` | the tables, and a translation as a function of them | |
| `ArchMMU` | abstract specification: every access is a fresh walk | `PPCWalk` |
| `PPCMMU` | the MMU with its micro-TLBs; implements `ArchMMU` | `PPCWalk`, `ArchMMU` |
| `PPCMMU_proofs` | types, coherence of the micro-TLBs, the walk's tags, the implementation of `ArchMMU` | `PPCMMU` |
| `XpsIntc` | the interrupt controller, one memory access at a time | |
| `ConsoleInput` | listener thread, console UART and the guest's register accesses | |
| `ConsoleInput_proofs` | types, no stranded input, edges | `ConsoleInput` |
| `CpuCore` | main loop, exceptions, timer, reservations | |
| `CpuCore_proofs` | types, MMU's copy of the MSR, lwarx/stwcx., precise exceptions | `CpuCore` |
| `SdStore` | abstract specification: a store of blocks, at most one order at a time | |
| `SdHost` | SD host and card; implements `SdStore` | `SdStore` |
| `SdHost_proofs` | requests answered, orders accepted, the implementation of `SdStore` | `SdHost` |
| `MemoryOps` | loads and stores, multiple and string instructions under faults | |
| `MemoryOps_proofs` | operands moved, and nothing else | `MemoryOps` |
| `Uart16550` | the 16550 of platform 1 with an interrupt-driven driver | |
| `Uart16550_proofs` | no edge is missing | `Uart16550` |
| `Bus` | the table of devices and the cached slot | |
| `Sbd` | the block device, with the RAM it copies to and from | `Bus` |
| `Lcdc` | the display controller | |
| `Spi` | the SPI host, the pins, and a slave at them | |
| `Board` | platform 3: these devices and the interrupt controller behind the bus, image loading, exit and state file | `Sbd`, `Lcdc`, `Spi`, `XpsIntc` |
| `Board_proofs` | the interrupt controller, the cached slot, the board as both, the block device | `Board` |
| `Management` | the management thread and its clients | |
| `WholeMachine` | both threads of the process | `Board`, `Management` |
| `WholeMachine_proofs` | what the devices' loops compute: display, state file, SPI transfers; the lines of the management socket | `WholeMachine`, `Board_proofs` |
| `Alu` | the register instructions, in words of `W` bits | |

`MC*.tla` give the constants of a module their values where a `.cfg` cannot
write them down.  Definitions called "Mutant of ..." are plausible bugs of the
code; putting one in place of the definition it is a mutant of makes the
property `PROJECT.json` names with it fail.  They are not part of any model.

## 3. What is modelled

### `PPCWalk`, `ArchMMU`, `PPCMMU`

`PPCWalk` is `PPCMMU::translateEA` without the micro-TLB insertions: the state
a translation reads (`enabled`, `bat`, `segreg`, `sdr1`, and the page table in
guest memory as `ptel`/`pteh`, the two words of each PTE), and the function
`Walk(a)` from an access to a fault or a frame and permissions, with
`WalkedPteh(a)` the R and C update.  Addresses are page numbers.  The hash, OR
and AND of page and PTEG numbers are constants constrained by `BitsAssumption`
(their ranges) and `HashAssumption` (what XOR, mask and an aligned table do not
lose); only `WalkIsInjective` needs the second.  Instruction fetches read:
`RequestsAssumption`, as every caller of `translateAddr` does.

`ArchMMU` is what the guest is promised: every access is a fresh walk, except
for pages whose PTE the guest edited and has not yet invalidated (`edited`).

`PPCMMU` adds the four micro-TLBs.  Its actions are the methods of the class:
`SetSDR1`, `SetBatUpper`, `SetBatLower`, `SetSegmentReg`, `Tlbie`, `SetIRDR`,
and for `translateAddr` the two paths `AccessHits` and `AccessWalks`.
`GuestWritesPtel/Pteh` are stores of the guest to its own page table, which the
MMU does not see.  `segreg` and `sdr1` start with any value because the
constructor leaves them alone.

| Run | Question | Bounds |
|---|---|---|
| `mmu_dirty` | clean pages, R/C, two privileges, translation on and off | 2 pages in 2 segments, 1 PTE, 1 micro-TLB entry a side and privilege: every pair of pages collides in the micro-TLB, and both map by the one PTE |
| `mmu_context` | do the setters invalidate enough | 1 BAT a side with a misaligned two-page block over 1 PTE, no-execute segment, a fetch and a user's load, 2 generations |
| `mmu_table` | can a PTE be mistaken | 4 PTEGs of one slot, two table sizes, 2 VSIDs whose hashes coincide |

One micro-TLB entry is the worst case of a direct-mapped array: entries at
different indices never meet.  The theorems below lift the bounds.

### `XpsIntc`

`reg` is `regs[]` (ISR and IER; the others are never consulted), `irqFlag` the
flag in `PPCCPUState` that `assertIRQ` sets.  `DevXpsIntc` has no lock and is
entered by the CPU thread (`write32`) and by any thread a device uses
(`triggerIRQ`), so an action is one access to a shared word: `Enter`, `Load`,
`Store` for the update, and `ReadISR`, `ReadIER`, `Decide`, `Drive` for
`reassessOutput`.  `Settled` says that no thread is inside.

| Run | Question | Bounds |
|---|---|---|
| `board` | is the input right after any sequence of writes and triggers, by a guest behind the bus | 2 lines (UART 0, SD 3), CPU thread only: the state is per line, two show that one does not disturb the other |
| `intc_race` | and with a listener thread beside it | 1 line, 2 threads; **violated**, section 8 |

### `ConsoleInput`

The terminal or socket (`pending`, `conn`, `caller`), the listener thread of
`SerialPTY` and `SerialTCP` (`lpc`: poll, test `reportRX`, clear it, call
back), and `DevSimpleUart` under the guest's accesses (`cpc`).  A section under
the UART's mutex is one action unless it touches what the mutex does not cover:
a read of RX is `ReadRX`, `GetByte`, `Rearm`, `FinishRX`, because the fd and
`reportRX` are outside the mutex.  The back end differs in one respect that
matters: `getByte` of a PTY retries on EAGAIN, of a socket it does not
(`Answers`).  `Polite` restricts the guest to reading RX after it has seen RXNE.

| Run | Question | Bounds |
|---|---|---|
| `console` | is all input reported; are edges sent | both back ends, 2 bytes typed ahead: one being read while another waits, with opening, closing, resets and reconnects at any moment |
| `console_rxne` | does a read invited by RXNE return | PTY, 1 byte, polite guest; **violated**, section 8 |

### `CpuCore`

One step is one instruction, or the tick and poll that follow it in the main
loop.  An instruction is one of six kinds by what it does to control: `Branch`
(also any instruction that raises nothing), `Load` (may take a DSI), `Sc`,
`Trap`, `Lwarx`, `Stwcx`; a fetch may take an ISI (`FetchFaults`).
`TakeException` is `takeException`, `WriteMsr` the macro `WRITE_MSR`.  `dec` is
-1 for every value with the sign bit set, and `tbLow` the low bits of `tb` that
make DEC count every fourth tick.  The guest is the environment: tasks that
repeat `Program`, and handlers of four instructions (`Service`; one of
`HandlerStwcx`, `SetTB`, `Mtmsr`, `HandlerUnmaps`; `SwitchTo`; `Rfi`).
`retired`, `stored` are history variables.

Run `core`: 2 tasks, a program with one instruction of each kind, DEC reloaded
with 1, a shared word modulo 2.  Every exception can hit between any two
instructions, be followed by a switch, and by another exception; a third task
or a longer program adds nothing that the theorems do not lift.

### `SdStore`, `SdHost`

`SdStore` is what a driver relies on: an image, a buffer, at most one order in
force; data moves only by that order and is reported good exactly if all of it
moved.  `SdHost` is `DevSD` and `DevSDCard`: `pending` is the difference of the
request and acknowledgement toggles, `stage` the place in `checkForWork`, which
every register write runs to its end.  `DoCommand` is `DevSDCard::command` with
all commands, and ACMDs after CMD55; `Receive` and `Transmit` are `read` and
`write`, with `pread` and `pwrite` moving any number of blocks up to the one
asked for.  The mapping computes the order in force from the card's state, last
command, last prefix and argument (`OrderInForce`).

Run `sd_transfers`: card present or not, commands {0, 17, 25, 51, 55} (a reset,
a single read, a multiple write, one that is unknown or, after 55, reads; 18, 24
and 6 behave as their neighbours, 13 as 55 without and as 51 with the prefix),
2 blocks,
transfers of up to 2, an image of 1 block that can grow to 2, a buffer filled with
two different blocks.

### `MemoryOps`

The accessors of `PPCMMU` with `MEM_OP_ALIGNMENT`, and the loops of
`PPCInterpreter_Memory.cc`.  A byte is a symbol (its own old address or
register), so one run stands for all data.  `Fault`/`Service` is a page fault
and the execution from the start that follows it, `Emulate` the guest's
alignment handler.  `Bytes`, `CurReg`, `Masked` and `StoreRest` are the code;
`Length`, `RegOf`, `ByteOf` the architecture, which the properties compare
with.

| Run | Question | Bounds |
|---|---|---|
| `memory` (with `Alu`) | does a load or store move its operand and nothing else, through faults | 3 registers (wrapping past the last), 2 pages in any frames and any subset mapped, a third frame behind them, bases in and across granules and pages, lengths 0 to 12; each instruction from the untouched machine, one of them also after each of the others |
| `memory_cross` | also when a store crosses a page | the same; **violated**, section 8 |

The properties speak of strings of whole words only: section 10.

### `Uart16550`

`DevUart` under its mutex, the socket's listener thread as in `ConsoleInput`,
the latched line at the interrupt controller, and a driver: `Open`, `StartTx`,
`Print*` (polled output with interrupts masked), the divisor, and the service
loop (`Acknowledge`, `ReadIIR`, `ReadLSR`, `Receive`, `Transmit`, `StopTx`).
`threReported` is `thre_reported`, `Assess` is `assessIRQstatus`.

Run `uart16550`: 2 bytes typed ahead, 3 to send: one on the way, one owed an
edge, one behind it.

### `Alu`

One instruction from each of a set of register states.  `AddOvCoCi`,
`WriteCrField`, `Rotl` and `Results` are the macros of `inst_utility.h`
(`Results` is what the generated code does after `Action`: `SET_SO_OV`, then
`SET_CR0`, then `incPC`), the others the functions of the same name; they keep
the code's shifts, masks and order.  The properties are written without them,
in integers and single bits: a result modulo the word, an overflow as a sum that
has no place in it, a mask as the set of bits between MB and ME.  `rt`, `ra` and
`rb` stand for different registers; the code reads all of them before it writes
one.  ROTL32 by 0 shifts by the width, which C leaves open: `Rotl` has both
results that builds give.

It is checked in the run `memory` beside `MemoryOps` (`MCInstructions`: a
behaviour is of one or of the other), with 8-bit words: eight values at the
edges of the signed and unsigned ranges for both operands with every SO and CA,
shift counts and masks {0, 1, 4, 7}, all 16 values of BO's four bits that are
looked at, CTR 0, 1 and 2, PC 252 for the wrap of PC + 4.  No formula depends on
the width but through `W`.

### `Bus`, `Sbd`, `Lcdc`, `Spi`, `Board`

`Bus` is `devs[]`, and `last_dev` with its -1 after a miss, after which `FATAL`
leaves the simulator.  `Sbd` counts memory, image and addresses in blocks and
keeps the code's arithmetic modulo 2^32 (`U32`, `BlocksWrap`); a command is
given by `WriteCmd` and ends in `Ignored`, `Refused`, `DoRead` or `DoWrite`
within the same register write, `pread` and `pwrite` moving any number of
blocks.  In `Lcdc` a pixel is the place of its bits in the framebuffer, so one
picture stands for all; `LineState` is the loop of the three `copyLine`
functions, `Transformed` `transformFramebuffer`; scales are at least 1, as
DSIZE's fields are counted from 0.  `Spi` has the pins and a slave
(external) that samples and shifts by its own clock mode; it is followed while
the guest drives it in that mode.

`Board` puts them behind the bus with `XpsIntc`: an access looks its address up
(`Access`), a device that fetches memory does so too (`DirectMap`) and moves the
cached slot, the periodic callback refreshes the display, and every `FATAL`,
closed window or instruction limit goes through `Quit` to `SaveOpen`,
`SaveIntc`, `SaveUart`.  The state file is a sequence of chunks over an older
one (`SaveAssumption`: the board has RAM, and old files are such sequences); the
processor's registers are one chunk, and `MemChunks` is the loop over the first
bank's blocks.  The interrupts of the UARTs and
the SD host appear as accesses that raise them (`Interrupting`).

### `Management`, `WholeMachine`

`Connect`, `Send`, `Leave` are the clients; `PollSockets`, `Accept`, `Serve`,
`ReadSome` and `ReadNone` are `mgmt_thread` and `get_input`, one action for each
system call with what follows it up to the next.  `revents` is kept between
them because `Accept` replaces the connection it speaks of.  `heard` and `lines`
are history variables; `whole` says that neither of the two known losses
(section 10) has happened to this connection.  `WholeMachine` runs the thread beside
the board (`MachineSpec`): they share the log flags only.

| Run | Question | Bounds |
|---|---|---|
| `board` | do the bus and the devices do what they are asked, is the input of the processor right, is the state file the machine, are lines put together as sent | the memory map of platform 3 with its gaps and one device of each kind (4 of the 17 attachments are further UARTs, block devices and an SPI host of the same kind); 2 blocks of RAM and of image, a count that wraps; a window of 6 by 2 pixels at depths 8, 16 and 64 and scales that do and do not divide it; SPI bytes of 2 bits in all modes, up to 2 bytes; a buffer of 4 characters, 4 sent in each of 2 connections |

Exits are followed only from the guests that may save, and after a bad DMA
address: with nothing configured to save they only stop.

Devices that share nothing but the bus are driven by different guests
(`Guests`), each of which may touch all addresses of its devices and one without
a device: a product of all of them would only repeat what `AnsweredByMap` says
for every slot that another guest could have left.  Deadlock is not checked in
this run: `sim_quit` ends it, and an exit with the UART's mutex held stops for
ever (section 10).

## 4. What the runs show

| Run | Properties | Result |
|---|---|---|
| `mmu_dirty` | `UtlbCoherent`, `AccessCompletes`, `ChangedOnlyByStores`, `ImplementsArch` | hold: micro-TLBs are right, the retry loop ends, C is set by stores that go ahead only |
| `mmu_context` | `TypeOK`, `UtlbCoherent`, `GenerationCoversMappings`, `ImplementsArch` | hold: every setter invalidates enough, and counts a generation whenever an instruction mapping may change |
| `mmu_table` | `WalkIsInjective` | holds: no PTE is used for a page it does not map |
| `board` | `IntcTypeOK`, `EiFollowsActive`, `EdgesAreKept` | hold with the CPU thread alone |
| | `AnsweredByMap` | holds: whatever slot a DMA left, an access reaches the device of the map |
| | `CopiesTheRequest` | holds for requests whose arithmetic does not wrap and that stay inside one RAM |
| | `ShowsTheFramebuffer` | holds at every depth and scale |
| | `ExchangesItsBits` | holds in the four clock modes |
| | `SavedIsTheMachine` | holds for files written to their end |
| | `LinesAsSent` | holds as long as no piece ends one byte into a line |
| `intc_race` | `EiFollowsActive` | violated |
| `console` | `ConsoleTypeOK`, `NoStrandedInput`, `RisingReasonTriggers`, `InputReported` | hold for both back ends |
| `console_rxne` | `RxneReadReturns` | violated |
| `core` | `MmuFollowsMsr`, `LlScAtomic`, `ExactlyOnce`, `TimerFires` | hold |
| `sd_transfers` | `RequestsAnswered`, `OrderWasAccepted`, `ImplementsStore`, `CompletionInterrupts` | hold |
| `memory` | `Footprint`, `OperandMoved` | hold for whole words |
| | `RotatedUnderMask`, `ArithmeticIsExact`, `ShiftsDivide`, `CrFieldsByName`, `BranchesByCount` | hold |
| `memory_cross` | `StoresStayInside` | violated |
| `uart16550` | `RestsOnlyWhenDone`, `InputIsRead` | hold for a driver that also looks at LSR |

Deadlock is checked in all of them but `board`.

## 5. Fairness

- MMU, interrupt controller, SD host, `MemoryOps`, `Alu`, `WholeMachine`: none; their properties are
  safety properties.  `AccessCompletes` is one because the retry of
  `translateAddr` is unrolled.
- `ConsoleInput`: weak fairness of the listener's steps and of a read of RX the
  CPU thread is in (both threads are scheduled); strong fairness of
  `AsyncRxCB`, which waits for the mutex the guest takes again and again: a
  pthread mutex does not starve a waiter for ever in practice, and the guest
  leaves it between accesses.  Nobody has to type, connect or read.
- `CpuCore`: weak fairness of the main loop, which has no other way to stop
  (the instruction limit and the exits are not modelled).
- `Uart16550`: weak fairness of the listener and of the driver's service loop;
  strong fairness of `Acknowledge` (a pending interrupt is taken although the
  kernel prints again and again) and of `DivisorDone`.

## 6. What is proved

For every value of the constants that satisfies their assumptions.

`PPCMMU_proofs`:

- `TypeCorrect`: `Spec => []TypeOK`.
- `UtlbsStayCoherent`: `Spec => []UtlbCoherent`.  `UtlbCoherent` with `TypeOK`
  is inductive.  A setter either clears the side it concerns or does not change
  what that side's walk reads (`WalkContext`, `SameWalk`); a guest edit moves
  the pages it disturbs into `edited`, where nothing is claimed
  (`EditCoherent`); a walk inserts exactly what it found (`InsertedAgrees`),
  and its own R/C update only ever strengthens what other entries claim
  (`RecordingKeepsAgreement`).  The hash is any function here.
- `AccessesComplete`: `AccessCompletes`.  The entry a walk inserts is found by
  the same access, in the array that its side and privilege choose.
- `OnlyStoresSetChanged`: `ChangedOnlyByStores`.  Where the walk sets C, it has
  found the permission to write, and the access is a store.
- `MappingsHaveGenerations`: `GenerationCoversMappings`, for a counter of more
  than one value (`GenWrap > 1`; with one, no advance can be seen).
- `OnePagePerPte`: `WalkIsInjective`, from `HashAssumption` and `TypeOK`: the
  tag gives the VSID, which probe it was, and the API; the PTEG gives back the
  masked hash, and with it the rest of the page index.
- `MmuIsImplemented`: `Spec => ImplementsArch`.  Every setter maps to its
  counterpart; an access that hits is answered as the fresh walk would be
  because its entry is coherent (`HitIsFresh`), one that walks because the walk
  is the specification's and R and C end up where it puts them (`WalkAnswers`).

`ConsoleInput_proofs`:

- `ConsoleInvariant`: `ConsoleInv` is inductive.  `NoStrandedInput` alone is
  not: the step that clears RXNE needs `ReportPending` (since `Rearm`,
  `reportRX` is still set or the listener has claimed it), and
  `RisingReasonTriggers` needs `EdgeTracked` (`irq_active` is the level).
- `ConsoleTypeCorrect`, `InputIsNeverStranded`, `EdgesAreSent` follow.

`CpuCore_proofs`:

- `CoreTypeCorrect`.
- `MmuKnowsTheMsr`: from a start MSR without IR and DR, `MmuFollowsMsr`.
- `NoLostIncrement`: `LlScAtomic`, strengthened by `ReservationHolds` (while a
  task runs with the word reserved, it has loaded the word's present value),
  for handlers that execute `stwcx.` at a word of their own.
- `ExceptionsArePrecise`: from a start MSR without EE, `ExactlyOnce`,
  strengthened by where each task's context is (`RunningPart`, `SrrPart`,
  `SavedPart`, `BootPart`) and by `QuietPart` (a handler runs with EE off, so
  nothing overwrites SRR0 and SRR1 while they hold the only copy).

`SdHost_proofs`:

- `SdInvariant`: `SdInv` is inductive.  Beside types it says how far each stage
  has worked the requests off (`Served`), that only a card that is there and has
  answered is in the data state with an order (`DataIsOrdered`), that the offset
  is that of the last command that sets one (`Addressed`), and that the image
  holds the blocks it was opened with (`ImageHolds`).
- `AllRequestsAnswered`, `OrdersWereAccepted`, `CompletionsInterrupt`:
  `RequestsAnswered`, `OrderWasAccepted`, `CompletionInterrupts`.
- `StoreIsImplemented`: `ImplementsStore`, for `MaxLba < Wrap`, images of less
  than 4 GiB: beyond, the byte offset names another block (section 10).  Every
  command becomes `Command`, every request with data a transfer of the order in
  force, and a read or write that the host cut short one that is
  reported bad.

`Uart16550_proofs`:

- `UartInvariant`, `DriverRestsOnlyWhenDone`: `RestsOnlyWhenDone`.  Inductive
  is `UartInv`: IIR shows a reason exactly while `irq_active` is set and hides
  none (`ReasonShown`), an edge is latched while it is set and the driver is
  outside its handler (`EdgeWaits`), what is enabled, or saved while printing, is
  what the queue asks for (`EnabledForQueue`), and with bytes queued the level is
  up before the driver looks (`QueueIsServed`).

`MemoryOps_proofs`:

- `OperandsAreBounds`: `Footprint`, for every alignment rule, register file,
  page size and set of instructions of `MemoryAssumption`.
- `InstructionsMoveTheirOperand`: `OperandMoved`, for `Align # 2`: a build that
  permits every alignment lets an access cross into a page that is elsewhere in
  memory, which `memory_cross` shows.  Inductive is `MovedSoFar`: while an
  instruction runs, the words before `n` are where they belong; a loop never
  comes back to a register (`NextWord`) or a byte of its own operand, because
  two addresses are the same byte of memory only if they are the same address
  (`PhysicalInjective`).

`Board_proofs`:

- `IntcTypeCorrect`, for any number of threads.
- `InputFollowsActive` and `EdgesStayLatched`: `EiFollowsActive` and
  `EdgesAreKept` when the CPU thread is the only one inside.  Both rest on
  `AloneInv`: what the thread holds in a register is still what the shared word
  says (`HeldIsCurrent`), and between the decision and `assertIRQ` the recorded
  decision is the right one (`InputFollows`).  The first conjunct is what a
  second thread breaks in `intc_race`.
- `BusAnswersByMap`: `BusSpec => []AnsweredByMap`, for any number of slots and
  any map of disjoint regions below the top of the address space
  (`MapAssumption`).  Inductive is `BusInv`: the table is the attached part of
  the map in its order, empty behind it, and the cached slot is one of the table
  or -1.  A slot that matches is then an entry of the map (`base + size` does
  not wrap), and disjointness makes it the only one, so the cached and the
  searched slot are the same.
- `BoardImplementsItsParts`: `BoardSpec => BusSpec /\ IntcSpec`.  With the
  registers that hold addresses in their ranges (`SbdRegsOK`, `LcdcRegsOK`),
  every step of the board is a step of the bus, and one of the controller, or
  leaves them alone.  `BoardAnswersByMap` and `BoardInterruptsArrive` (the latter
  for `Thread = {CPU}`) carry over what is proved of either: `AnsweredByMap`,
  `IntcTypeOK`, `EiFollowsActive`, `EdgesAreKept`.
- `DiskCopiesTheRequest`: `CopiesTheRequest`, for any memory and image.
  `SbdInv` keeps the announced size within the image; the rest is the arithmetic
  of blocks and addresses, which does not wrap where the property speaks
  (`Sane`).

`WholeMachine_proofs` is about loops, which the models write as recursive functions.
The library's induction theorems take a predicate and cannot be used; induction
for a *set* can: `IntervalInduction` says that a set which has 0 and with every
`i < n` also `i + 1` has all of `0 .. n`, from the library's well-founded minimum.
With it, `LoopRuns` gives a loop of `n` turns a state after each of them, and
`LoopKeeps` carries what every turn keeps to all of them.  Each loop then has a
lemma that the model's definition *is* that loop (`...Runs`), one about a turn,
and one about its end.

- `LinesAreAsSent`: `MachineSpec => []LinesAsSent`, for every buffer size, client
  and way the stream comes in pieces.  The property says of the lines that they
  cut what was heard at its newlines (`IsCut`).  Inductive with it is `MgmtInv`:
  the buffer is shorter than its size and, while `whole`, not longer than what
  was heard.  `Scan` cuts a buffer right, and cutting a buffer that begins in the
  middle of the stream cuts the stream.
- `MachineRunsTheBoard`: `MachineSpec => BoardSpec`; what holds of the board holds
  beside the management thread.
- `DisplayShowsTheFramebuffer`: `BoardSpec => ShowsTheFramebuffer`, for every
  window, scale and supported depth.  After `x` pixels of a line the loop has
  fetched the words that hold them and stands `x * depth` bits into the line
  (`Fetched`); a line's words are those of its pixels rounded up
  (`LinesAreWholeWords`).
- `SaveRecordsTheMachine`: with `Thread = {CPU}`, `BoardSpec => []SavedIsTheMachine`,
  for any map, contents and older file.  `SaveInv` says by stage which chunks the
  file begins with; what they record stays true because nothing but the save
  moves after `Quit`, and because `Quit` finds the CPU thread outside the
  controller (`QuitsOutside`), so that its input follows its registers
  (`AloneInv`).  `MemHolds` says that the loop has left out exactly the zeros.
- `TransfersExchangeTheirBits`: `BoardSpec => ExchangesItsBits`, for every byte
  width and length.  Between register writes a slave that is driven in its mode
  has the clock at rest and presents the bit after those it has taken (`SpiInv`;
  in phase 1 the one before it, as the first edge moves it on).  Within a byte
  (`InByte`) and within a transfer (`InTransfer`) so many bits have gone each way;
  `SetClkDoes` tells what an edge does in each mode.  A wire out of tune stays so
  through any transfer (`ByteKeepsSetting`), which is what the property leaves out.

The assumptions on the constants are named in the modules that declare them and
TLC evaluates them in every run: the instances satisfy them.

## 7. What is only model-checked

- Liveness: `InputReported`, `TimerFires`, `InputIsRead` (out of the prover's
  reach, as is everything that depends on fairness).
- The properties of `Alu`, which uses the bit operations of `Bitwise` that the
  prover cannot reach.

The order in which the walk's two probes, the BATs and the segments are tried is
part of `Walk`, which `ArchMMU` shares: what is proved of the MMU is that its
micro-TLBs, retries and updates do not show, and `OnePagePerPte`.

## 8. Where the code disagrees with what is said of it

- `intc_race`: a trigger from the listener thread crosses a register write of
  the CPU thread, and an enabled interrupt is latched with the processor's
  input down (`DevXpsIntc.cc:147`).  It is seen at the next trigger or write.
- `console_rxne`: the listener reports what `poll` saw after the guest has read
  it; RXNE stands for an empty queue and the read it invites waits in `getByte`
  with the mutex held (`SerialPTY.cc:120` and `153`).
- `memory_cross`: a store that the alignment rules refuse has been made, whole
  and with the translation of its first byte, before it is refused
  (`PPCMMU.cc:175`).

## 9. What is not modelled

The one-line instructions of `PPC.csv`, moves to and from special registers
beyond those of the MMU and the core, byte order, WIMG bits, performance
counters, logging and tracing, the colours of pixels, the HOSTED system calls,
the Python tools, the associative micro-TLB (not included by any file), and
platforms 1 and 2 but for the 16550.  `PROJECT.json` lists each part with the
reason.  The JIT build does not compile at this commit (`runloop.cc:67`), so
every model is of the interpreter build, and the block store, whose entries
`icbi` does not reach (`PPCInterpreter_Special.cc:724`), is not modelled.

## 10. Known failures outside the bounds of the runs

Met while modelling; the models do what the code does, and the runs or the
properties leave these cases out, as their comments say.

- A start MSR with IR or DR set (`-m`): `set_initial_cpu_context` does not tell
  the MMU (`main.cc:53`), and `MmuFollowsMsr` fails at once.
- An exception keeps the reservation: a handler's `stwcx.` without `lwarx`
  stores, against the comment at `PPCInterpreter.h:109`.
- SD images of 4 GiB and more: the byte offset wraps (`DevSDCard.cc:307`);
  `ImplementsStore` fails when `MaxLba >= Wrap`.  A write past the announced
  size grows the image.  CMD0 after CMD55 is an unknown ACMD.
- Strings that do not fill their last word: the mask of `lswi`/`lswx` keeps the
  wrong bytes and `stswi`/`stswx` store whole words at each byte
  (`PPCInterpreter_Memory.cc:183`, `280`).
- 16550: a byte that arrives with RXDA off, or a read of any register, wipes a
  THRE reason that counts as reported; enabling THRE after it was reported
  raises nothing, so a driver has to send its first byte unasked.  With a PTY
  behind it, a read of RBR on a stale DR waits as in `console_rxne`.
- Privileged instructions are executed in user mode
  (`PPCInterpreter.h:219`, "Todo").
- Writing TB more often than every fourth instruction stops DEC
  (`PPCCPUState.h:83`).
- Console over TCP: one poll may answer for the listening socket and for the old
  connection, and the hang-up handled second drops the new one
  (`SerialTCP.cc:118`; the management socket does the same).  `rx_cb` is set
  before `rx_cb_arg` while the listener already runs (`SerialPTY.cc:185`).
- Block device: `block_start + num`, `num * 512` and `block_start * 512` wrap at
  2^32 (`DevSBD.cc:184`, `191`), a wrapped write grows the image; a transfer past
  the end of a RAM is not noticed (`spilled`); an image that `openImage` gives up
  keeps its descriptor.  The SD card and the first block device open the same
  file.
- Display: `init` clears one register more than there is; the line length
  register is ignored; columns that the scale leaves over keep their old pixels.
- SPI: a change of CPOL while a slave is selected is an edge for it.
- Exit: the state file is opened without truncation, so a shorter save leaves the
  old tail (`sim_state.cc:45`); only the first RAM is in it; a `FATAL` in
  `platform_init` with `-x` reads an MMU that is not there yet; a `FATAL` inside
  the console UART holds the mutex that the save waits for (`DevSimpleUart.cc:138`).
- Management: a rest of one character is dropped (`management.cc:324`, against
  the comment at 336, "Newline was at end of buffer"), a line longer than the
  buffer ends all reading (297), a half line is continued by the next
  connection (273), and the thread is started before the machine it reports on
  is set up (`main.cc:91`).
- `mcrxr` clears the string count with the flags (`setXER(0)`).

## 11. Plan of what is left

1. Proofs about `Alu`: its word operations, stated bit by bit instead of with
   `Bitwise`, could be reasoned about; the sums and the branches come first.
2. Composition: console, interrupt controller and processor in one
   specification.  "A typed byte interrupts the guest" fails there for the
   reason of `intc_race`; it is worth stating once the controller has a lock.
3. The one-line instructions of `PPC.csv`, once there is a reference to compare
   them with that does not repeat them.
