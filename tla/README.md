# nvhal in TLA+

A verification project for nvhal, the C++ direct hardware access layer for the
Raspberry Pi 4B (BCM2711): models of its drivers beside the hardware they
drive, TLC configurations that check them on small instances, and proofs that
TLAPS checks for every value of the constants.

All of nvhal's logic is in `src/core` (portable classes) and
`src/cpu/broadcom` (the one implementation). It runs in an ordinary Linux
process, without interrupts and without threads of its own. What makes it hard
is everything that runs *beside* the program: the DMA engine, the UART's FIFOs,
the timer, the VideoCore firmware (VPU), and earlier processes whose transfers
and memory outlive them. There are no tests in the repository, so the models
are written from the code alone.

## Inventory

| component | state | operations | what is hard | what makes it correct |
|---|---|---|---|---|
| memory mapping (`core/hw_utils.cpp`) | none | `hw_memmap` | any call can fail; page arithmetic with a wrong mask | a mapping that covers what was asked for, or nullptr |
| VPU mailbox (`broadcom_utils.cpp`) | `broadcom_vpu_fd`; the firmware's table of blocks | open, ioctl, `mem_alloc`, `mem_lock`, and for the application `mem_unlock`, `mem_free` | failures between two commands; the firmware's state outlives the process | a bus address is that of a block that is allocated, locked and ours |
| DMA buffer (`hwdma_broadcom.cpp:41-111`) | the buffer's pointer, size, mark, handle, bus and physical address | `hwdma_init_dma_buffer`, `hwdma_allocate_dma_buffer`, `hwdma_bus_address` | partial failure, retry after failure, unsigned arithmetic at the limits, restart | pieces disjoint and inside the mapping; processor and engine mean the same byte |
| DMA channels (`hwdma_broadcom.cpp:113-250`, `hwdma_broadcom.h`, `core/hwdma.h`) | fields of each `THwDmaChannel`; the control block in shared memory; the channel's registers | `Init`, `Prepare`, `PrepareTransfer`, `Enable`, `Disable`, `Active`, `Remaining` | the engine reads the control block while the program writes it; left-overs of earlier transfers; several channels; process death with a transfer running | the engine performs the transfer asked for, row by row, and nothing else |
| clock (`clockcnt_broadcom.cpp`, `core/clockcnt.cpp`) | the timer's mapping | `clockcnt`, `delay_clocks` | a 64 bit value read in two halves while it runs | a value of the time during the call; delays neither early nor endless |
| UART (`hwuart_broadcom.cpp`, `core/hwuart.cpp`) | settings, registers, assigned DMA channels, FIFOs | `Init`, `TrySendChar`, `TryRecvChar`, `DmaAssign`, `DmaStartSend`, `DmaStartRecv`, `SendFinished`, `DmaSendCompleted`, `DmaRecvCompleted`, `SendChar`, `printf` | a divisor in two registers that a third one puts into effect; FIFO limits, characters that move between a check and its use, polling while engine and transmitter run | no character lost, doubled or reordered; completion means completion; the line is as the settings ask |
| GPIO pins (`hwpins_broadcom.cpp`, `core/hwpins.*`) | the pin objects; registers shared by ten or more pins | `PinSetup`, `Setup`, `GpioSet`, `Assign`, `Set0`, `Set1`, `SetTo`, `Toggle`, `SwitchDirection` | read-modify-write of shared registers; fields of three bits; no lock; inversion; failing `Assign`; a register that is only for writing | an operation on one pin changes that pin only; no wrong level on the way; toggling toggles |
| configuration (`platform.h`, `mcu_impl.h`, `bcm2711.h`, `generic_defs.h`) | none | none | nothing | nothing |

How they interact: the UART holds pointers to two DMA channels and calls
`Prepare`, `StartTransfer` and `Active` on them; a DMA channel takes its control
block from the DMA buffer, which comes from the VPU through the mailbox and is
mapped by `hw_memmap`; the reset in `Init` waits with `delay_us`; registers and
memory, those of the pins also between processes, are the shared state between all of these and the hardware.

## Modules

| module | models | extends / instances |
|---|---|---|
| `DmaBuffer` | `hw_memmap`, mailbox, VPU blocks, buffer, allocator, bus addresses, restart of the process | |
| `HwDma` | channel objects, control blocks, registers, the engine | extends `DmaBuffer`; instance of `DmaService` for refinement |
| `DmaService` | abstract: what a channel promises | |
| `HwUart` | UART, FIFOs, transmitter, receiver, its two channels | extends `DmaService` |
| `ClockCnt` | the timer, `clockcnt`, `delay_clocks` | instance of `ClockService` for refinement |
| `ClockService` | abstract: a clock read by calls that take time | |
| `GpioPins` | the pins of several processes, their objects, the shared registers | |
| `DmaBufferProofs`, `ClockCntProofs`, `GpioPinsProofs`, `HwUartProofs` | theorems | extend the module they are about |
| `HwDmaProofs` | theorems that hold of `HwDma` whatever fails | extends `HwDma` and `DmaBufferProofs` |
| `HwDmaTransferProofs` | theorems about the transfers; the refinement of `DmaService` | extends `HwDmaProofs` |
| `HwDmaDataProofs` | theorems about the memory that transfers touch | extends `HwDmaTransferProofs` |
| `MCDmaBuffer`, `MCHwDma`, `MCHwUart`, `MCClockCnt`, `MCGpioPins` | instances for TLC | |

The two layers meet in `DmaService`: `HwDma` implements it, with
control blocks written field by field and fetched by an engine that runs at any
time, and `HwUart` uses it in place of the whole of `HwDma`. Both sides are
theorems: `ServiceCorrect` for the channels, and `UartUsesService`, that the
UART does nothing with its channels that the service does not have.

Definitions whose name has a suffix (`Bump_Unrounded`, `Return_NoCompare`) are
variants: the definition after them with a plausible mistake. The
specifications do not use them. They show that each property is sensitive to
the code: put in the place of the original they violate it.

### DmaBuffer

The variables are the globals of `hwdma_broadcom.cpp:46-52` and
`broadcom_vpu_fd`, with their names. A call is `Call`, then one step per
external call (`AllocVpuMem`, `LockVpuMem`, `MapBuffer`), then `Bump`, the rest
of the allocator; `pc` says where it is. `Faults` makes `open`, `ioctl` and
`mmap` fail at any time; `open` may also return 0, which the code never treats
as usable and never opens again. With no buffer mapped the allocator still adds
the mark to the null pointer and returns the bare offset; so does the model.
`Restart` ends the process between any two steps: its globals are fresh, the
VPU's table (`vpu`) stays. Pointers are integers, 2^32 is `WordMod`, the mask
0x3FFFFFFF is `% PhysMod`. `blocks` is history: the non-null pieces handed out.

`hw_memmap` is its outcome: the mapping or nullptr. `MapLength` is the length
it computes, with the mask `~MEM_PAGE_SIZE` of the code, which clears one bit
and not the low twelve: the result is not a multiple of the page, and is a page
short for lengths of one byte more than an even number of pages.
`BufferAssumption` excludes that one length for the buffer (the code's is
16 KiB), and `MappingCovers` proves that it is the only one. `AppMailbox` is
the application using the exported mailbox functions: it takes, locks, unlocks
and frees blocks of its own or of ended processes, never the one that is this
process's buffer. `BufOwnSpec` is the program without it.

### HwDma

`object` holds the fields of each `THwDmaChannel`; `app` is the running call of
the single-threaded program and what it has stored so far; `regs` are the
channel registers and `memory` the control blocks, by bus address, with fields
named as in the code. `Init` is `InitBegin`, the steps of `DmaBuffer`,
`InitAllocate`, `InitTakeBlock` and `InitRegs`; its three register stores are
one step because the first of them stops the engine. `PrepareTransfer` is
`PrepareTransfer`, a `WriteField` per field of the control block in the order
of the code, and `WriteConblk`. The engine fetches a control block
(`EngineLoad`), moves a row (`EngineMove`), and follows NEXTCONBK; between
any two steps of the program it may do any of these. `prepared` is history: the
transfer asked for last, against which the properties hold the engine.

`Stride` reads the flags as the code does, by direction; `Increment` is what
the client asked for with them, from the description of the flags, and part of
`prepared`. Of `AppMailbox`, `HwDma` has nothing: an application that frees the
block of an ended process takes it from under a transfer that may still run.

Abstracted: TI is reduced to the DREQ that paces the transfer; wait states,
burst lengths and the priority bits of CS, which no property tells apart, are
left out. The count is stored modulo `LenMod`. `DmaAssumption` says of the
control block, which is 32 bytes in the code, that its size does not wrap when
the allocator rounds it up.

Contract of the callers, unchecked by the code and stated in the module: one
object per channel; an object changes its channel, and prepares a transfer,
only while its channel is quiet. Without it the code gives no guarantee; the
hazard list has these cases, without a property.

### HwUart

`mode`, `left` and `request` are those of `DmaService` for the channels "tx" and
"rx". The two FIFOs, the shifter and the line run on their own. A call is split
where it touches the hardware twice: `TrySendChar` reads FR, `SendWrite` writes
DR; `DmaStartSend` sets DMACR and prepares, `StartTransfer` starts. Characters
are numbered, so that `accepted`, `wire`, `arrived` and `received` (history)
can say what was lost, doubled or reordered. Contract of the callers: no use
before `Init`, no `Init` while characters or transfers are under way, and a
direction in which a DMA transfer runs is left to the DMA.

`Init` is `InitBegin`, `InitDivisor` (IBRD and FBRD, computed by `Divisor` as
in the code), `InitFrame` (LCRH, which in this UART also puts the divisor into
effect) and `InitFinish`; `asked` are the public settings it works with, and
`databits` is corrected in place. `Settings` may hold any rate whose divisor
fits the register, the rest of the contract (`RateAssumption`, which the proofs
do not need). `printf` is `Printf`, which keeps
of the text its length, cut at `FMT_BUFFER_SIZE - 1`, then a `Poll` (the loop of
`SendChar`) and a `SendWrite` for each character.

### GpioPins

The registers are by pin: `GPFSEL`, `PUP_PDN` and `latch` (what GPSET and GPCLR
store into). A set-up reads the register of ten (`FselPins`) pins into
`op[a].copy`, changes its own field (`SetFunction`, with the carry into the next
field that an alternate function of more than three bits would cause), and writes all of
it back, one access a step; other processes act between any two. Each process
has one `TGpioPin`; `Assign` changes number and inversion before it can fail and
the pointers (`target`) only when it does not, as in the code. Driving an object
that never was assigned is a null pointer and ends the process (`NullPointer`).

Nothing keeps two processes from reading the same register before either writes
it back, alternate functions 6, 7, 14 and 15 are asked for like the others (`Select`
gives 8 and 9), and an object is driven through the pointers it has, also after
an `Assign` that failed. `Toggle` reads the level of the pin and then stores;
`GpioSetToggle` and `GpioSetStore` are `GpioSet` with the value to toggle, which
reads GPSET: either value may come out, as that register is for writing only.

The history says what was asked for, never what was stored: `asked` is the last
function and pull of each pin, `past` all its functions, `driven` its level, of
which a toggle asks for the opposite. `functionExposed` and `pullExposed` are
the pins whose last own write happened while another process held a copy
of the register, or whose function was reached by one of four bits.
`astray` are the pins whose level nobody can be sure of: after a toggle by
`GpioSet`, by an inverted object or of a pin that is no output, and after a
store through an object whose last `Assign` failed.

Contract of the callers, which the code cannot check: a pin is used by one
process, and `GpioSet` is called with the number of a pin (it checks no range
and would store beyond the registers).

### ClockCnt

Every read of CHI or CLO is a step, and the timer (`Tick`) may advance by any
amount between two of them. `delay_clocks` calls `clockcnt` as the code does,
for its reference (`caller = "t0"`) and for each poll. The mapping of the timer
may fail; the code does not check it and the reader is then dead. The timer
does not leave its 64 bits. `StepsPerCarry` bounds how fast the program is
relative to the timer: 71 minutes pass between two carries in the chip, five
reader steps are all the bound on retries needs.

## Runs

| run | question | properties | bounds | result |
|---|---|---|---|---|
| `buffer` | do pieces, mapping, bus addresses and VPU blocks fit together whatever fails? | `BufTypeOK`, `BlocksDisjoint`, `PiecesInMapping`, `BlocksLongEnough`, `BusMatchesMapping`, `BusAddressIsLocked`, `BufferKept` | 3 granules in 2 pages, requests of 0, 1, 33 and 96 bytes, all faults, 2 processes, 3 VPU blocks | holds, 719 thousand states |
| `buffer_vpu_exhausted` | is a mapped buffer always memory of the VPU? | `BufferBacked` | no faults, nobody else at the mailbox (`BufOwnSpec`), 3 processes, 2 blocks | violated |
| `dma_transfer` | is the transfer performed the one asked for, and does it end or come round? | `DmaTypeOK`, `RowsInOrder`, `RemainingExact`, `MovesStayInData`, `TransfersEnd`, `CircularComesRound`, `ServiceSpec` | one channel, both directions, each flag and both together, widths 2 and 4, counts 0, 1 and 8, invalid channel numbers | holds, 465 thousand states |
| `dma_channels` | do two channels stay out of each other's way, each with a control block fit for use? | `RowsInOrder`, `InitializedMeansUsable`, `ServiceSafety` | two interchangeable objects on two channels, a buffer of three granules that clients use up, circular transfers of two rows, one VPU block | holds, 820 thousand states |
| `dma_restart` | does a transfer that outlived its process reach the next one's memory? | `OrphansStayOut` | 2 processes, failing mappings, circular transfers of one row, invalid channel numbers | holds, 3.4 million states |
| `dma_foreign` | does every transfer stay in VPU memory? | `MovesInVpuMemory` | an address outside the buffer | violated |
| `dma_wild_block` | are control blocks in the DMA buffer? | `ControlBlocksInBuffer` | failing mappings, one process | violated |
| `clock` | are readings and delays right? | `ClockTypeOK`, `ClockInv`, `AtMostTwoPasses`, `ReadsTheClock`, `DelayNotEarly`, `DelayEnds` | low half 3 values, high half 4, delays 0, 1 and 4 | holds, 156 thousand states |
| `uart` | is every character delivered once, in order, on the line asked for, and reported truthfully? | `UartTypeOK`, `SentInOrder`, `ReceivedInOrder`, `RecvCompletedMeansReceived`, `LineAsAsked`, `SendTransfersEnd`, `SentEventually`, `PrintfReturns` | FIFOs of 2, 4 characters sent, 3 arriving, transfers of 0, 1 and 3 rows, texts of 0 to 4 characters, 2 settings | holds, 774 thousand states |
| `uart_send_completed` | does completion of a transmission mean that it left? | `SendCompletedMeansSent` | as `uart` | violated |
| `gpio` | does a pin have the function, pull and level asked for, and what makes these uncertain? | `GpioTypeOK`, `SetupKept`, `OnlyPastFunctions`, `LevelAsAsked`, `NoGlitch` | every operation on one pin, with an invalid number, racing with set-ups of its neighbour in the same registers by another process; an output, an input, an alternate function with all bits set and one beyond three bits; mappings that fail | holds, 1.38 million states |
| `gpio_toggle` | does toggling an output change its level? | `ToggleToggles` | one process, two pins, every operation | violated |

Why the bounds are enough. A buffer of three granules is full after one, two or
three requests, is missed by one byte (33), is hit exactly (96), and
an empty request meets every state of the mark. Its last page is only
half used; a mapping rounded down would miss it. A count of 8 with width 4 fills the data piece, so one row or
one byte too many leaves it. Counts up to 2 are enough to distinguish the first,
a middle and the last row of a round when the order of rows is not the
question. Two processes are one death with everything left behind; three are
needed to use up two VPU blocks. Low halves of three values carry often enough
that every interleaving of a carry with the three reads occurs, and a delay of
4 spans one. FIFOs of two are empty, partly filled, and full, and a transfer of
three does not fit, as is a text of three. Two settings differ in every field
that matters, and a re-initialisation changes from one to the other. Two pins of two
processes are enough for a race, as each process holds a copy of one register at
a time, and the second is the next in the register, which a function of four
bits reaches. `LenMod` and `WordMod` are larger than what the runs use:
for counts that do not fit, the model truncates as
the code does and nothing in the repository says what should happen.

Deadlock is checked except in `dma_restart`, `dma_wild_block`, `clock` and the
GPIO runs, where a store or load through an unchecked null pointer kills the process (in
`clock` the timer ends as well).

### What the violations show

- `buffer_vpu_exhausted`: the result of the mailbox is used unchecked. Two
  processes that came and went have used up the VPU's memory; in the third handle 0
  is locked, bus address 0 taken, and physical address 0 mapped as DMA buffer; the call returns true.
- `dma_foreign`: `hwdma_bus_address` reports an address outside the buffer and
  returns 0; `PrepareTransfer` uses it, and the transfer starts on bus address 0.
- `dma_wild_block`: after a failed `mmap` the allocator hands out the mark
  itself. The first `Init` gets NULL and fails, the second gets 32, takes it for
  its control block (line 141) and reports the channel as initialised.
- `uart_send_completed`: `SendFinished` returns the BUSY flag itself, so
  `DmaSendCompleted` is true while characters are still leaving.
- `gpio_toggle`: `Toggle` decides by `Value`, which ignores the inversion, and
  stores with `Set0` and `Set1`, which are swapped for an inverted pin: it stores
  the level that is already there.

Two more mistakes of the code are in the model, as exceptions that the
properties of `gpio` name:

- `GpioSet` with 2, the value for toggle, looks at GPSET for the present level
  (`hwpins_broadcom.cpp:143`). What a read of that register gives is no level,
  and the store may be the one that changes nothing: `LevelAsAsked` cannot
  promise anything of such a pin (`astray`).
- `sel = 2 + (AF & 7)` (line 87) is 8 or 9 for AF_6, AF_7, AF_14 and AF_15, all
  declared in `hwpins.h`: the field gets 0 or 1, input or output, and the fourth
  bit goes to the next pin. `SetupKept` excepts both pins.

## Fairness

- `DmaLiveSpec`: weak fairness of the engine's steps. The engine is hardware
  that, once active, waits only for the peripheral's request; the peripheral is
  assumed to keep asking. Nothing is assumed of the program.
- `UartLiveSpec`: weak fairness of the transmitter, of the engine's rows, and of
  the program inside a call. A transmission row is enabled only when the UART's
  request is, so that forgetting DMACR shows. `SendChar` polls as long as it
  takes, so a call of `printf` is inside a call throughout. Nothing is assumed about what arrives.
- `ClockLiveSpec`: the timer runs, and so does a thread inside a call.

## Proofs

`DmaBufferProofs`, for every buffer size, word size, set of handles, requests
and faults that `BufferAssumption` allows:

- `BufTypeCorrect`: `BufTypeOK` is inductive. Its heart is that the mark never
  passes the size, by the arithmetic of `RoundUp` (`RoundUpNat`), so the
  unsigned difference of the allocator never wraps.
- `AllocatorCorrect`, `PiecesCorrect`: disjointness alone is not inductive, a
  new piece could land on an old one. `AllocatorInv` adds where pieces end: below the
  mark counted from the mapping, or below it counted from NULL when they were
  given out while nothing was mapped, and that the buffer is never replaced once
  it is mapped. Only `Bump` changes pieces or mark (`OnlyBumpGivesOut`), and it
  keeps the invariant (`BumpKeepsAllocatorInv`).
- `BusAddressCorrect`: a bus address other than 0 belongs to a locked block.
- `MappingCovers`: the length `hw_memmap` computes is enough for every length
  but the one excluded; by cases on the parity of the page and on the remainder.
- `BufferKeptCorrect`: with `AllocatorInv`, no step replaces a mapped buffer.
- `BusCorrect`: by `BusOffset`, an offset within the mapping passes unchanged
  through the mask, so bus address and physical address stay in step.
- `LongEnoughCorrect`: `BlocksLongEnough`, under the assumption that no size
  asked for wraps when it is rounded up; without it the property is false.

`ClockCntProofs`, for registers of any width and a timer of any speed:

- `ClockTypeCorrect`, by `HalvesFit`: two halves make a value of the registers.
- `ClockInvCorrect`: while CHI is what the first read gave there was no carry,
  so the combined value lies between the beginning of the call and now.
- `ClockRefines`: with that invariant every step of `ClockCnt` is a step of
  `ClockService` or a stutter.
- `DelayCorrect`: the reference is not before the call of `delay_clocks`, the
  last reading not after its end.
- `PassesBounded`: under `StepsPerCarry >= 5`, the loop of `clockcnt` runs at
  most twice; `PassInv` says how long ago the carry was at each statement.

`GpioPinsProofs`, for any number of pins, of pins per register and of processes:

- `GpioTypeCorrect`: `GpioTypeOK` is inductive; the pointers of an object lead to
  a pin of its own process although `Assign` changes number and pointers apart.
- `SetupCorrect`: `SetupKept` is not inductive, because a write puts back ten
  fields at once. `SetupInv` adds that the copy a process holds has, of every pin
  that no one exposed and no one is about to set up, the function asked for:
  whoever wrote since the copy was read found it held, and exposed its pin.
- `PastCorrect`: fields and copies alike only hold functions of the past
  (`PastInv`), as long as `SetFunction` leaves the other fields alone.
- `LevelCorrect`: `LevelInv` says at each statement of a call what the latch
  holds, or will when the call ends.
- `NoGlitchCorrect`: the order of the code, level first, direction last.

`HwUartProofs`, for FIFOs of any size, requests, settings and texts:

- `UartCorrect`: the inductive `UartInv` is types, the two order invariants and three
  parts more. `CallInv`: a call that has seen room or a character still finds it when
  it stores or loads, for only the transmitter empties the one FIFO and only
  arrivals fill the other, and DMA stays out of its direction. `RecvInv`: what
  was asked for and what was received differ by at most what is left of the
  transfer. `LineInv`: the divisor is in effect from the write of LCRH on.
- `SentCorrect`, `ReceivedCorrect`: the numbered characters on the wire, in the shifter and
  in the FIFO, put end to end, are what was accepted; the same at the receiver.
- `RecvCompletedCorrect`, `LineCorrect` (by `NearestRate`), `UartTypeCorrect`
  read the other properties off `UartInv`.
- `UartUsesService`: every step of the UART is a step of `DmaService` or a stutter.

`HwDmaProofs`, whatever fails in whichever process:

- `PlainCorrect`: the inductive `PlainInv`. To the types, and the allocator's
  invariant of `DmaBufferProofs`, it adds which call of the allocator `Init` is
  in (`CallsInv`), that a control block taken is a piece of its own, in the mapped buffer on a granule
  (`BlocksInv`), that channels are distinct, and that what was prepared
  (history) is a transfer somebody could ask for (`PreparedInv`).
- `DmaTypeCorrect` follows. `UsableCorrect`, while mappings succeed: then every
  piece given out is of the mapped buffer (`MappedInv`), so that the control
  block of `BlocksInv` is whole and in it. Without that it is false, as
  `dma_wild_block` shows.
- `BackedCorrect`: `BufferBacked`, when the commands of the mailbox succeed
  (`MailboxWorks`) and the VPU has a block whenever it is asked for one
  (`[]VpuHasBlock`); mappings may fail. `BlocksSuffice`: it has one when nothing
  fails and it starts with a block for every process. The invariant of both,
  `BackedInv`, follows the handle through lock and map, and counts the blocks
  taken against the starts so far.

`HwDmaTransferProofs`, for behaviours in which `BufferBacked` always holds, and counts that
fit the field for them (`CountsFit`):

- `TransferCorrect`: the inductive `TransferInv`. `WrittenInv`: the fields of
  the control block stored so far are those of the transfer being prepared.
  `Fetches`: where the engine may look next it finds the transfer last prepared,
  from its first row. `Works`: what it has loaded is that transfer, from the row
  it has reached. A control block that is being written is not in use (`InUse`),
  since a transfer is prepared only on a quiet channel; any other is kept because no other
  control block is at its address (`BusInside`, `BlocksApart`) and no process
  owns the memory of one that has ended.
- `RowsCorrect`, `RemainingCorrect`: with it, each row, and `Remaining`.
- `ServiceCorrect`: with it every step of `HwDma` is a step of `DmaService` or a
  stutter. Stores and fetches are stutters, a row moved is a row done.

`HwDmaDataProofs`, when besides clients pass only addresses the allocator gave
them (`ForeignAddrs = {}`):

- `DataCorrect`: the inductive `DataInv`. The memory side of a transfer fits a
  piece that is not a control block and will not become one; that of a transfer
  that outlived its process fits memory that process left locked.
- `MovesCorrect`, `OrphansCorrect`: with it, where every byte goes.
- `DmaCorrect`: all of these, and the refinement, from `MailboxWorks` and
  `[]VpuHasBlock` in place of `[]BufferBacked`; `DmaUnfailing`: from
  `NothingFails`, without a condition on the behaviour.

What the hypotheses cost. `BufferBacked` is not the code's doing: the code uses
what the mailbox returns unchecked, and `buffer_vpu_exhausted` shows a buffer
that is not. The theorems say what holds as long as it does; when commands of the
mailbox fail, nothing is proved of the transfers. Failing mappings are covered
by `DmaCorrect` as long as the VPU has blocks for the retries. The run goes
further: `dma_restart` checks `OrphansStayOut` with failing mappings and two
blocks, without the hypothesis. `dma_foreign` is why `ForeignAddrs` has to be empty. `CountsFit` is
16384 rows in the chip, whose YLENGTH has 14 bits (`hwdma_broadcom.h:51`); the
code stores any count less one, unchecked, and nobody says what should happen
beyond. Instances that satisfy all the hypotheses are those of `dma_transfer` and
`dma_channels`.

What stays with TLC. Liveness (`TransfersEnd`, `CircularComesRound`, `DelayEnds`,
`SendTransfersEnd`, `SentEventually`, `PrintfReturns`, and the fairness that
`ServiceSpec` adds to `ServiceSafety`): it needs fairness and ENABLED, which are
out of this prover's reach. The properties that are violated, of course, have no
theorem. Every safety invariant and action property of the passing runs has one.
No property here is about a recursively computed value.

## Not modelled

The formatting of `printf` (only the length of its text is kept); the bits of
control words that no property tells apart; the interrupt registers that `Init`
of the UART clears and nothing uses; the response code of the firmware, which
the code does not look at; `broadcom_vpu_mbox_close`, which no header declares
and nobody calls; the address of the data register that `DmaAssign` copies (a
channel is assigned after `Init`, see the contract); the configuration headers,
which are constants. The `_noimpl` classes stand for other processors and have
no behaviour. The hardware is modelled from how the code uses it and is marked
external in `PROJECT.json`.

## Plan

1. What stays true of the transfers when commands of the mailbox fail: those of
   the first process that has a buffer, say, whatever memory it is.
2. The order of `Init` and `DmaAssign` (the address of the data register is copied when
   the channel is assigned), one of the hazards that a contract excludes.
