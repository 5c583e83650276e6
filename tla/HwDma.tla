-------------------------------- MODULE HwDma --------------------------------
(***************************************************************************)
(* The DMA channels of hwdma_broadcom: THwDmaChannel objects in a process, *)
(* the engine in the chip that runs beside the process, and the control    *)
(* blocks in uncached memory through which the two talk.                   *)
(*                                                                         *)
(* The process is single-threaded; its calls run step by step, every field *)
(* of a control block being a store of its own, and the engine may act     *)
(* between any two steps.  The memory comes from DmaBuffer, whose steps    *)
(* run inside Init.  When the process dies the engine goes on.             *)
(*                                                                         *)
(* Contract of the callers, which the code does not check: a channel is    *)
(* used by one object; an object changes its channel, and prepares a       *)
(* transfer, only when its channel has no transfer running or half done.   *)
(***************************************************************************)
EXTENDS DmaBuffer, Sequences

CONSTANTS
  Objects,           \* the THwDmaChannel objects of the program
  MAX_DMA_CHANNELS,
  ChannelArgs,       \* values Init is called with, valid or not
  PeriphAddrs,       \* peripheral addresses Prepare is called with
  ByteWidths,        \* of the transfers the clients ask for
  Counts,            \* likewise; 0 is a legal argument
  FlagSets,          \* likewise, each a set of the DMATR_ flags that matter
  ForeignAddrs,      \* addresses outside the DMA buffer that clients pass
  LenMod             \* rows that the engine can count, YLENGTH of TXFR_LEN

Channels == 0 .. MAX_DMA_CHANNELS - 1
CbSize == 32         \* sizeof(TDmaControlBlock)

ASSUME DmaAssumption ==
  /\ MAX_DMA_CHANNELS \in Nat \ {0}
  /\ ChannelArgs \subseteq Int
  /\ PeriphAddrs \subseteq Nat
  /\ ByteWidths \subseteq {1, 2, 4}
  /\ Counts \subseteq Nat
  /\ FlagSets \subseteq SUBSET {"NO_SRC_INC", "NO_DST_INC", "CIRCULAR"}
  /\ ForeignAddrs \subseteq Nat
  /\ LenMod \in Nat \ {0}
  /\ CbSize + Granule - 1 < WordMod

VARIABLES
  g_dma_channel_regs,  \* TRUE when the channel registers are mapped
  object,    \* fields of each THwDmaChannel object
  app,       \* the running call: its name, object, argument, fields written
  regs,      \* registers of each channel
  memory,    \* the control blocks, by bus address
  prepared   \* history: the transfer last prepared on each channel

dmaProcess == <<g_dma_channel_regs, object, app>>
engine == <<regs, memory, prepared>>
dmaVars == <<bufVars, dmaProcess, engine>>

-----------------------------------------------------------------------------
(* Control blocks and registers.                                           *)

\* Bus addresses at which a control block can lie: in the VPU's blocks, or in
\* physical memory from 0 up when a process got no block and mapped address 0.
CbAddrs == {base + CbSize * k : base \in {0} \cup {BusOf(h) : h \in Handles},
                                k \in 0 .. (HWDMA_BUFFER_SIZE \div CbSize) - 1}

\* The fields in the order in which PrepareTransfer stores them.
CbFields == <<"SOURCE_AD", "DEST_AD", "TI", "TXFR_LEN", "STRIDE", "NEXTCONBK">>

\* External: memory that was never written.  TI is reduced to the side that
\* the peripheral's DREQ paces.
BlankBlock == [SOURCE_AD |-> 0, DEST_AD |-> 0, TI |-> "none",
               TXFR_LEN |-> [y |-> 0, x |-> 0], STRIDE |-> [d |-> 0, s |-> 0],
               NEXTCONBK |-> 0]

\* External: a channel after reset.  loaded: the engine holds a transfer.
ResetChannel == [ACTIVE |-> FALSE, CONBLK_AD |-> 0, loaded |-> FALSE,
                 cb |-> BlankBlock]

FreshObject == [chnum |-> -1, initialized |-> FALSE, istx |-> FALSE,
                periphaddr |-> 0, cb |-> NULL]

\* What a client expects: by how much the memory side of a transfer advances
\* from row to row.
Increment(istx, x) ==
  IF (IF istx THEN "NO_SRC_INC" ELSE "NO_DST_INC") \in x.flags
    THEN 0 ELSE x.bytewidth

\* STRIDE and NEXTCONBK that PrepareTransfer computes for object record d and
\* transfer x.
Stride(d, x) ==
  [s |-> IF d.istx /\ "NO_SRC_INC" \notin x.flags THEN x.bytewidth ELSE 0,
   d |-> IF ~d.istx /\ "NO_DST_INC" \notin x.flags THEN x.bytewidth ELSE 0]
NextBlock(d, x) == IF "CIRCULAR" \in x.flags THEN hwdma_bus_address(d.cb) ELSE 0

\* A control block with all its fields, y and stride and next as given.
BlockOf(d, x, y, stride, next) ==
  [SOURCE_AD |-> IF d.istx THEN hwdma_bus_address(x.addr) ELSE d.periphaddr,
   DEST_AD   |-> IF d.istx THEN d.periphaddr ELSE hwdma_bus_address(x.addr),
   TI        |-> IF d.istx THEN "DEST_DREQ" ELSE "SRC_DREQ",
   TXFR_LEN  |-> [y |-> y % LenMod, x |-> x.bytewidth],
   STRIDE    |-> stride,
   NEXTCONBK |-> next]

\* Variant: NEXTCONBK is written for circular transfers only.
ControlBlock_StaleNext(d, x) ==
  BlockOf(d, x, x.count - 1, Stride(d, x),
          IF "CIRCULAR" \in x.flags THEN NextBlock(d, x)
          ELSE memory[hwdma_bus_address(d.cb)].NEXTCONBK)

\* Variant: the row count is written as it is, not less one.
ControlBlock_OneMore(d, x) == BlockOf(d, x, x.count, Stride(d, x), NextBlock(d, x))

\* Variant: the two halves of STRIDE are swapped.
ControlBlock_SwappedStride(d, x) ==
  BlockOf(d, x, x.count - 1, [s |-> Stride(d, x).d, d |-> Stride(d, x).s], NextBlock(d, x))

\* Variant: a circular transfer is not linked to itself.
ControlBlock_NoLoop(d, x) == BlockOf(d, x, x.count - 1, Stride(d, x), 0)

\* What PrepareTransfer writes into the control block.
ControlBlock(d, x) == BlockOf(d, x, x.count - 1, Stride(d, x), NextBlock(d, x))

\* History: what the client of object record d asked for with transfer x.
AsPrepared(d, x) ==
  [rows |-> x.count, loop |-> "CIRCULAR" \in x.flags, istx |-> d.istx,
   addr |-> hwdma_bus_address(x.addr), inc |-> Increment(d.istx, x),
   bytewidth |-> x.bytewidth, periphaddr |-> d.periphaddr, by |-> starts]

NothingPrepared ==
  [rows |-> 0, loop |-> FALSE, istx |-> FALSE, addr |-> 0, inc |-> 0,
   bytewidth |-> 0, periphaddr |-> 0, by |-> 0]

\* Remaining(): bytes, from the two halves of the TXFR_LEN register.
Remaining(c) ==
  LET len == regs[c].cb.TXFR_LEN IN len.x * len.y + len.x

-----------------------------------------------------------------------------
(* Calls.                                                                  *)

Idle == [at |-> "idle"]

\* The process can make a call; it is not inside one.
Free == app = Idle /\ pc = "idle"

Ready(o) == Free /\ object[o].initialized

\* Contract: no transfer is running or half done on channel c.
Quiet(c) == ~regs[c].ACTIVE /\ ~regs[c].loaded

\* Pieces of the buffer that are not control blocks.
DataBlocks == {b \in blocks : \A o \in Objects : object[o].cb # b.ptr}

\* Transfers a client asks for in direction istx: within a piece it allocated,
\* or at an address that is not in the DMA buffer at all.
Transfers(istx) ==
  {x \in [addr : {b.ptr : b \in DataBlocks} \cup ForeignAddrs,
          bytewidth : ByteWidths, count : Counts, flags : FlagSets] :
     \/ x.addr \in ForeignAddrs
     \/ \E b \in DataBlocks :
          /\ b.ptr = x.addr
          /\ Increment(istx, x) * (x.count - 1) + x.bytewidth <= b.len}

DmaInit ==
  /\ BufInit
  /\ g_dma_channel_regs = FALSE
  /\ object = [o \in Objects |-> FreshObject]
  /\ app = Idle
  /\ regs = [c \in Channels |-> ResetChannel]
  /\ memory = [a \in CbAddrs |-> BlankBlock]
  /\ prepared = [c \in Channels |-> NothingPrepared]

\* A client allocates memory for its data.
Allocate(n) ==
  /\ Free
  /\ Call("allocate", n)
  /\ UNCHANGED <<dmaProcess, engine>>

\* A step of hwdma_init_dma_buffer or of the allocator, whoever called it.
BufferStep ==
  /\ BufStep
  /\ UNCHANGED <<dmaProcess, engine>>

\* Init, up to the call of hwdma_init_dma_buffer, for a range of channel numbers.
InitWithin(valid, o, achnum) ==
  /\ Free
  /\ achnum \in Channels => \A p \in Objects \ {o} : object[p].chnum # achnum
  /\ object[o].chnum \in Channels \ {achnum} => Quiet(object[o].chnum)
  /\ \/ /\ achnum \notin valid
        /\ object' = [object EXCEPT ![o].initialized = FALSE, ![o].chnum = -1]
        /\ UNCHANGED <<app, bufVars>>
     \/ /\ achnum \in valid
        /\ object' = [object EXCEPT ![o].initialized = FALSE, ![o].chnum = achnum]
        /\ app' = [at |-> "init", o |-> o]
        /\ Call("init", 0)
  /\ UNCHANGED <<g_dma_channel_regs, engine>>

\* Variant: the range check of the channel number is off by one.
InitBegin_OffByOne(o, achnum) == InitWithin(0 .. MAX_DMA_CHANNELS, o, achnum)

InitBegin(o, achnum) == InitWithin(Channels, o, achnum)

\* The channel registers are mapped once; the control block is allocated
\* unless the object has one from an earlier Init.
InitAllocate ==
  /\ app.at = "init" /\ pc = "idle"
  /\ \/ g_dma_channel_regs /\ UNCHANGED g_dma_channel_regs
     \/ ~g_dma_channel_regs /\ g_dma_channel_regs' \in {p # NULL : p \in hw_memmap(0, MEM_PAGE_SIZE)}
  /\ \/ /\ object[app.o].cb = NULL
        /\ Call("allocate", CbSize)
        /\ app' = [app EXCEPT !.at = "initcb"]
     \/ /\ object[app.o].cb # NULL
        /\ app' = [app EXCEPT !.at = "initregs"]
        /\ UNCHANGED bufVars
  /\ UNCHANGED <<object, engine>>

\* The allocator has returned; block becomes the control block.  When failed,
\* Init returns false.
TakeBlock(block, failed) ==
  /\ app.at = "initcb" /\ pc = "idle"
  /\ object' = [object EXCEPT ![app.o].cb = block]
  /\ app' = IF failed THEN Idle ELSE [app EXCEPT !.at = "initregs"]
  /\ UNCHANGED <<bufVars, g_dma_channel_regs, engine>>

\* Variant: the result of the allocator is not checked.
InitTakeBlock_NoCheck == TakeBlock(ret, FALSE)

\* Variant: every object uses the control block of the first one.
InitTakeBlock_Shared ==
  LET others == {object[p].cb : p \in Objects} \ {NULL}
  IN  TakeBlock(IF others = {} THEN ret ELSE CHOOSE b \in others : TRUE, ret = NULL)

InitTakeBlock == TakeBlock(ret, ret = NULL)

\* The reset of channels; the engine is stopped by its first store, so that
\* the three stores make one step.  Without a mapping the first store is fatal.
Reset(channels) ==
  /\ app.at = "initregs"
  /\ \/ /\ g_dma_channel_regs
        /\ regs' = [c \in Channels |-> IF c \in channels THEN ResetChannel ELSE regs[c]]
        /\ prepared' = [prepared EXCEPT ![object[app.o].chnum] = NothingPrepared]
        /\ object' = [object EXCEPT ![app.o].initialized = TRUE]
        /\ app' = Idle
     \/ /\ ~g_dma_channel_regs
        /\ app' = [at |-> "dead"]
        /\ UNCHANGED <<regs, object, prepared>>
  /\ UNCHANGED <<bufVars, g_dma_channel_regs, memory>>

\* Variant: the reset goes to every channel.
InitRegs_EveryChannel == Reset(Channels)

InitRegs == Reset({object[app.o].chnum})

Prepare(o, aistx, aperiphaddr) ==
  /\ Free
  /\ object' = [object EXCEPT ![o].istx = aistx, ![o].periphaddr = aperiphaddr]
  /\ UNCHANGED <<bufVars, g_dma_channel_regs, app, engine>>

\* PrepareTransfer is entered.  It returns at once, changing nothing, when
\* count is 0.
PrepareTransfer(o, x) ==
  /\ Ready(o)
  /\ Quiet(object[o].chnum)
  /\ x.count # 0
  /\ app' = [at |-> "prepare", o |-> o, xfer |-> x, written |-> 0]
  /\ UNCHANGED <<bufVars, g_dma_channel_regs, object, engine>>

\* A store through pointer p ends up in the mapped buffer.
InBuffer(p) ==
  g_dma_buffer # NULL /\ p \in g_dma_buffer .. g_dma_buffer + g_dma_buffer_size - 1

\* The next field of the control block is stored.  A block outside the buffer
\* (it was given out while none was mapped) is a wild pointer: the store is
\* fatal.
WriteField ==
  /\ app.at = "prepare" /\ app.written < Len(CbFields)
  /\ LET d == object[app.o]
         f == CbFields[app.written + 1]
     IN  \/ /\ InBuffer(d.cb)
            /\ memory' = [memory EXCEPT ![hwdma_bus_address(d.cb)][f] =
                                           ControlBlock(d, app.xfer)[f]]
            /\ app' = [app EXCEPT !.written = @ + 1]
         \/ /\ ~InBuffer(d.cb)
            /\ app' = [at |-> "dead"]
            /\ UNCHANGED memory
  /\ UNCHANGED <<bufVars, g_dma_channel_regs, object, regs, prepared>>

\* The last store of PrepareTransfer points the engine at the control block.
WriteConblk ==
  /\ app.at = "prepare" /\ app.written = Len(CbFields)
  /\ LET d == object[app.o]
     IN  /\ regs' = [regs EXCEPT ![d.chnum].CONBLK_AD = hwdma_bus_address(d.cb)]
         /\ prepared' = [prepared EXCEPT ![d.chnum] = AsPrepared(d, app.xfer)]
  /\ app' = Idle
  /\ UNCHANGED <<bufVars, g_dma_channel_regs, object, memory>>

\* StartPreparedTransfer.  External: the engine starts when it holds a
\* transfer or CONBLK_AD is not 0; otherwise ACTIVE does not stay set.
Enable(o) ==
  /\ Ready(o)
  /\ regs' = [regs EXCEPT ![object[o].chnum].ACTIVE =
                regs[object[o].chnum].loaded \/ regs[object[o].chnum].CONBLK_AD # 0]
  /\ UNCHANGED <<bufVars, dmaProcess, memory, prepared>>

\* The transfer is paused where it is.
Disable(o) ==
  /\ Ready(o)
  /\ regs' = [regs EXCEPT ![object[o].chnum].ACTIVE = FALSE]
  /\ UNCHANGED <<bufVars, dmaProcess, memory, prepared>>

\* The process dies and is started again; chip and memory keep their state.
DmaRestart ==
  /\ Restart
  /\ g_dma_channel_regs' = FALSE
  /\ object' = [o \in Objects |-> FreshObject]
  /\ app' = Idle
  /\ UNCHANGED engine

-----------------------------------------------------------------------------
(* External: the DMA engine, one channel.                                  *)

\* The control block at CONBLK_AD is fetched, in one burst.
EngineLoad(c) ==
  /\ regs[c].ACTIVE /\ ~regs[c].loaded
  /\ regs[c].CONBLK_AD \in CbAddrs \ {0}
  /\ regs' = [regs EXCEPT ![c].loaded = TRUE, ![c].cb = memory[regs[c].CONBLK_AD]]
  /\ UNCHANGED <<bufVars, dmaProcess, memory, prepared>>

\* One row is moved.  After the last the engine goes to the next control
\* block, or ends.
EngineMove(c) ==
  /\ regs[c].ACTIVE /\ regs[c].loaded
  /\ LET cb == regs[c].cb
     IN  \/ /\ cb.TXFR_LEN.y > 0
            /\ regs' = [regs EXCEPT ![c].cb.TXFR_LEN.y = @ - 1,
                                    ![c].cb.SOURCE_AD = @ + cb.STRIDE.s,
                                    ![c].cb.DEST_AD = @ + cb.STRIDE.d]
         \/ /\ cb.TXFR_LEN.y = 0
            /\ regs' = [regs EXCEPT ![c] =
                          [ACTIVE |-> cb.NEXTCONBK # 0,
                           CONBLK_AD |-> cb.NEXTCONBK,
                           loaded |-> FALSE, cb |-> BlankBlock]]
  /\ UNCHANGED <<bufVars, dmaProcess, memory, prepared>>

EngineStep(c) == EngineLoad(c) \/ EngineMove(c)

DmaNext ==
  \/ \E n \in AllocSizes : Allocate(n)
  \/ BufferStep
  \/ \E o \in Objects :
       \/ \E n \in ChannelArgs : InitBegin(o, n)
       \/ \E b \in BOOLEAN, a \in PeriphAddrs : Prepare(o, b, a)
       \/ \E x \in Transfers(object[o].istx) : PrepareTransfer(o, x)
       \/ Enable(o) \/ Disable(o)
  \/ InitAllocate \/ InitTakeBlock \/ InitRegs
  \/ WriteField \/ WriteConblk
  \/ DmaRestart
  \/ \E c \in Channels : EngineStep(c)

DmaSpec == DmaInit /\ [][DmaNext]_dmaVars

\* The engine keeps moving: the peripheral it serves keeps asking for data.
DmaLiveSpec == DmaSpec /\ \A c \in Channels : WF_dmaVars(EngineStep(c))

-----------------------------------------------------------------------------
(* Properties.                                                             *)

Addresses == Nat
TxfrLen == [y : 0 .. LenMod - 1, x : {0, 1, 2, 4}]
ControlBlocks ==
  [SOURCE_AD : Addresses, DEST_AD : Addresses,
   TI : {"none", "SRC_DREQ", "DEST_DREQ"}, TXFR_LEN : TxfrLen,
   STRIDE : [d : {0, 1, 2, 4}, s : {0, 1, 2, 4}], NEXTCONBK : CbAddrs]
ChannelRegs ==
  [ACTIVE : BOOLEAN, CONBLK_AD : CbAddrs, loaded : BOOLEAN, cb : ControlBlocks]
ObjectFields ==
  [chnum : Channels \cup {-1}, initialized : BOOLEAN, istx : BOOLEAN,
   periphaddr : PeriphAddrs \cup {0}, cb : Nat]

\* Objects, registers and control blocks keep their types: a channel number
\* indexes the register block, the engine is only ever pointed at an address
\* where a control block can be.
DmaTypeOK ==
  /\ BufTypeOK
  /\ g_dma_channel_regs \in BOOLEAN
  /\ object \in [Objects -> ObjectFields]
  /\ app.at \in {"idle", "init", "initcb", "initregs", "prepare", "dead"}
  /\ regs \in [Channels -> ChannelRegs]
  /\ memory \in [CbAddrs -> ControlBlocks]

\* An object that says it is initialised can be used: its registers are mapped
\* in this process and the whole of its control block is in the mapped buffer,
\* apart from that of any other object and from every piece a client was given.
\* This is so while mappings succeed, with the buffer used up and the mailbox
\* failing (hwdma_broadcom.cpp:113-167); see ControlBlocksInBuffer for what a
\* failed mapping does.
InitializedMeansUsable ==
  \A o \in Objects : object[o].initialized =>
    LET cb == object[o].cb
    IN  /\ g_dma_channel_regs /\ object[o].chnum \in Channels
        /\ InBuffer(cb) /\ InBuffer(cb + CbSize - 1)
        /\ \A p \in Objects \ {o} : object[p].cb # cb
        /\ \A b \in DataBlocks : b.ptr + b.len <= cb \/ cb + CbSize <= b.ptr

\* An object that says it is initialised has its control block in the buffer
\* ("allocate the control blocks in the uncached memory",
\* hwdma_broadcom.cpp:140).
ControlBlocksInBuffer ==
  \A o \in Objects : object[o].initialized => InBuffer(object[o].cb)

\* The addresses of the memory side and of the peripheral side of the
\* transfer that channel c has loaded.
MemorySide(c) ==
  IF prepared[c].istx THEN regs[c].cb.SOURCE_AD ELSE regs[c].cb.DEST_AD
PeriphSide(c) ==
  IF prepared[c].istx THEN regs[c].cb.DEST_AD ELSE regs[c].cb.SOURCE_AD

\* While the engine works on a transfer it is at the row the client expects:
\* direction, peripheral, width and memory address are those asked for, the
\* address advanced by the rows that are done.
RowsInOrder ==
  \A c \in Channels : regs[c].loaded =>
    LET p    == prepared[c]
        done == p.rows - 1 - regs[c].cb.TXFR_LEN.y
    IN  /\ done \in 0 .. p.rows - 1
        /\ MemorySide(c) = p.addr + done * p.inc
        /\ PeriphSide(c) = p.periphaddr
        /\ regs[c].cb.TI = (IF p.istx THEN "DEST_DREQ" ELSE "SRC_DREQ")

\* Remaining() of a transfer at work: the bytes of the rows still to come,
\* never 0 before the last row is done.
RemainingExact ==
  \A c \in Channels : regs[c].loaded =>
    /\ Remaining(c) = prepared[c].bytewidth * (regs[c].cb.TXFR_LEN.y + 1)
    /\ Remaining(c) \in 1 .. prepared[c].bytewidth * prepared[c].rows

\* The memory that the loaded transfer of channel c is still going to touch.
FirstByte(c) == MemorySide(c)
LastByte(c) ==
  MemorySide(c) + prepared[c].inc * regs[c].cb.TXFR_LEN.y + regs[c].cb.TXFR_LEN.x - 1

\* A transfer of this process only touches a piece of the buffer that holds
\* no control block.
MovesStayInData ==
  \A c \in Channels : regs[c].loaded /\ prepared[c].by = starts =>
    \E b \in DataBlocks :
      /\ hwdma_bus_address(b.ptr) <= FirstByte(c)
      /\ LastByte(c) < hwdma_bus_address(b.ptr) + b.len

\* A transfer that outlived its process never touches the buffer of the
\* process that runs now, neither for data nor for a control block.  (A process
\* whose bus address is 0 got no memory of its own: see BufferBacked.  HwDma
\* leaves AppMailbox out: a process that frees the block of an ended one through
\* the mailbox, while a transfer of that one runs, may get it as its own buffer.)
OrphansStayOut ==
  g_dma_buffer # NULL /\ g_dmabuf_bus_addr # 0 =>
    \A c \in Channels : regs[c].ACTIVE /\ prepared[c].by # starts =>
      LET mine == g_dmabuf_bus_addr .. g_dmabuf_bus_addr + g_dma_buffer_size - 1
      IN  /\ regs[c].CONBLK_AD \notin mine
          /\ regs[c].loaded => FirstByte(c) \notin mine /\ LastByte(c) \notin mine

\* Every transfer that runs works on memory from the VPU ("uses that for DMA
\* buffers and control blocks", hwdma_broadcom.cpp:29).
MovesInVpuMemory ==
  \A c \in Channels : regs[c].ACTIVE /\ regs[c].loaded =>
    \E h \in Handles : /\ BusOf(h) <= FirstByte(c)
                       /\ LastByte(c) < BusOf(h) + HWDMA_BUFFER_SIZE

\* The channels seen by their clients.
ModeOf(c) ==
  CASE regs[c].ACTIVE -> "running"
    [] ~regs[c].ACTIVE /\ (regs[c].loaded \/ regs[c].CONBLK_AD # 0) -> "stopped"
    [] OTHER -> "idle"
LeftOf(c) ==
  CASE regs[c].loaded -> regs[c].cb.TXFR_LEN.y + 1
    [] ~regs[c].loaded /\ regs[c].CONBLK_AD # 0 -> prepared[c].rows
    [] OTHER -> 0

Service == INSTANCE DmaService WITH
  Requests <- [rows : Counts \ {0}, loop : BOOLEAN],
  NoRequest <- [rows |-> 0, loop |-> FALSE],
  mode <- [c \in Channels |-> ModeOf(c)],
  left <- [c \in Channels |-> LeftOf(c)],
  request <- [c \in Channels |-> [rows |-> prepared[c].rows, loop |-> prepared[c].loop]]

\* The channels, with control blocks written field by field and fetched by an
\* engine that runs beside the process, do what DmaService promises.
ServiceSafety == Service!SvcInit /\ [][Service!SvcNext]_(Service!svcVars)

\* ... and, while the engine moves, so does the liveness of the service.
ServiceSpec == Service!SvcSpec

\* A transfer that is not circular ends unless its client stops it: whoever
\* polls Active() gets out of the loop.
TransfersEnd ==
  \A c \in Channels :
    (regs[c].ACTIVE /\ ~prepared[c].loop) ~> ~regs[c].ACTIVE

\* A circular transfer begins its rows again and again, until its client stops
\* it or initialises the channel anew.
CircularComesRound ==
  \A c \in Channels :
    (ModeOf(c) = "running" /\ prepared[c].loop) ~>
      \/ ModeOf(c) = "stopped"
      \/ ~prepared[c].loop
      \/ regs[c].loaded /\ LeftOf(c) = prepared[c].rows
=============================================================================
