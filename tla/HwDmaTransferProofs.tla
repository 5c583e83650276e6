------------------------- MODULE HwDmaTransferProofs -------------------------
(***************************************************************************)
(* Theorems about the transfers of HwDma: what the engine works on is what *)
(* the client of the channel prepared, from its first row to its last.     *)
(* They hold of every behaviour in which a mapped buffer is memory the VPU *)
(* gave (BufferBacked, which the code does not check).                     *)
(***************************************************************************)
EXTENDS HwDmaProofs

-----------------------------------------------------------------------------
(* The inductive invariant.                                                *)

\* The engine works on channel c, or its client may start it as it is: no
\* control block is being written for it.
InUse(c) ==
  \/ regs[c].ACTIVE \/ regs[c].loaded
  \/ \E o \in Objects :
       /\ object[o].initialized /\ object[o].chnum = c
       /\ ~(app.at = "prepare" /\ app.o = o /\ app.written > 0)

\* Control block b, at address a, is that of transfer p from its row done on.
RowOf(b, p, done, a) ==
  /\ done \in 0 .. p.rows - 1
  /\ b.SOURCE_AD = IF p.istx THEN p.addr + done * p.inc ELSE p.periphaddr
  /\ b.DEST_AD = IF p.istx THEN p.periphaddr ELSE p.addr + done * p.inc
  /\ b.TI = IF p.istx THEN "DEST_DREQ" ELSE "SRC_DREQ"
  /\ b.TXFR_LEN.y = p.rows - 1 - done /\ b.TXFR_LEN.x = p.bytewidth
  /\ b.STRIDE.s = IF p.istx THEN p.inc ELSE 0
  /\ b.STRIDE.d = IF p.istx THEN 0 ELSE p.inc
  /\ b.NEXTCONBK = IF p.loop THEN a ELSE 0

\* The fields that PrepareTransfer has stored so far are in memory.
WrittenInv ==
  app.at = "prepare" =>
    \A i \in 1 .. app.written :
      memory[hwdma_bus_address(object[app.o].cb)][CbFields[i]] =
        ControlBlock(object[app.o], app.xfer)[CbFields[i]]

\* The memory block of handle h is locked and not the buffer of this process;
\* address a lies in a block of the VPU at base.
Foreign(h) == h \in Handles /\ vpu[h] = "locked" /\ h # g_dmabuf_mem_handle
Within(a, base) == base <= a /\ a < base + HWDMA_BUFFER_SIZE

\* The control block of a transfer of this process is that of the object that
\* has the channel; that of a transfer that outlived its process is in memory
\* that process left locked.
Mine(c) ==
  \E o \in Objects :
    /\ object[o].chnum = c /\ InBuffer(object[o].cb)
    /\ regs[c].CONBLK_AD = hwdma_bus_address(object[o].cb)
Orphaned(c) ==
  \E h \in Handles : Foreign(h) /\ Within(regs[c].CONBLK_AD, BusOf(h))
Owned(c) == IF prepared[c].by = starts THEN Mine(c) ELSE Orphaned(c)

\* What the engine fetches next on channel c is the transfer last prepared.
Fetches(c) ==
  InUse(c) /\ regs[c].CONBLK_AD # 0 =>
    /\ RowOf(memory[regs[c].CONBLK_AD], prepared[c], 0, regs[c].CONBLK_AD)
    /\ Owned(c)

\* What it has fetched is that transfer, from the row it has reached.
Works(c) ==
  /\ regs[c].ACTIVE => regs[c].loaded \/ regs[c].CONBLK_AD # 0
  /\ regs[c].loaded =>
       /\ regs[c].CONBLK_AD # 0
       /\ RowOf(regs[c].cb, prepared[c],
                prepared[c].rows - 1 - regs[c].cb.TXFR_LEN.y, regs[c].CONBLK_AD)

TransferInv == WrittenInv /\ \A c \in Channels : Fetches(c) /\ Works(c)


-----------------------------------------------------------------------------
(* Bus addresses.                                                          *)

\* The blocks of two handles have no byte in common, and none is at 0.
LEMMA BlocksApart ==
  /\ \A h \in Handles : BusOf(h) \in Nat /\ BusOf(h) >= HWDMA_BUFFER_SIZE
                        /\ BusOf(h) > 0
  /\ \A h, k \in Handles : h # k =>
       \/ BusOf(h) + HWDMA_BUFFER_SIZE <= BusOf(k)
       \/ BusOf(k) + HWDMA_BUFFER_SIZE <= BusOf(h)
<1> DEFINE M == MappedBytes(HWDMA_BUFFER_SIZE)
<1>1. /\ M \in Nat /\ M >= HWDMA_BUFFER_SIZE
      /\ HWDMA_BUFFER_SIZE \in Nat \ {0} /\ PhysMod \in Nat /\ HWDMA_BUFFER_SIZE <= PhysMod
      /\ \A h \in Handles : h \in Nat
  BY BufferAssumption, BufferMapped
<1> HIDE DEF M
<1>2. \A h \in Handles : BusOf(h) = 3 * PhysMod + h * M
  BY DEF BusOf, M
<1>3. ASSUME NEW h \in Handles
      PROVE  BusOf(h) \in Nat /\ BusOf(h) >= HWDMA_BUFFER_SIZE /\ BusOf(h) > 0
  <2>1. h * M \in Nat
    BY <1>1
  <2> QED BY <1>1, <1>2, <2>1
<1>4. ASSUME NEW h \in Handles, NEW k \in Handles, h < k
      PROVE  BusOf(h) + HWDMA_BUFFER_SIZE <= BusOf(k)
  <2>1. PICK n \in Nat : k = h + 1 + n
    <3>1. h \in Nat /\ k \in Nat /\ k - (h + 1) \in Nat /\ k = h + 1 + (k - (h + 1))
      BY <1>1, <1>4
    <3> QED BY <3>1
  <2>2. k * M = h * M + M + n * M /\ n * M \in Nat /\ h * M \in Nat
    BY <1>1, <2>1
  <2> QED BY <1>1, <1>2, <2>2
<1>5. \A h, k \in Handles : h # k => h < k \/ k < h
  BY <1>1
<1> QED BY <1>3, <1>4, <1>5

\* The bus address of a byte of the buffer lies in the block of the process;
\* no other byte of the buffer has it.
LEMMA BusInside ==
  ASSUME BufTypeOK, BufferBacked, NEW p, InBuffer(p)
  PROVE  /\ g_dmabuf_mem_handle \in Handles /\ vpu[g_dmabuf_mem_handle] = "locked"
         /\ Within(hwdma_bus_address(p), BusOf(g_dmabuf_mem_handle))
         /\ hwdma_bus_address(p) \in Nat /\ hwdma_bus_address(p) # 0 /\ p # NULL
         /\ \A q : InBuffer(q) /\ hwdma_bus_address(q) = hwdma_bus_address(p) => q = p
<1>1. /\ g_dma_buffer = MapBase /\ MapBase \in Nat /\ 0 < MapBase
      /\ g_dma_buffer_size = HWDMA_BUFFER_SIZE /\ HWDMA_BUFFER_SIZE \in Nat
      /\ p \in MapBase .. MapBase + HWDMA_BUFFER_SIZE - 1
  BY BufferAssumption DEF BufTypeOK, InBuffer, NULL
<1>2. /\ g_dmabuf_mem_handle \in Handles /\ vpu[g_dmabuf_mem_handle] = "locked"
      /\ g_dmabuf_bus_addr = BusOf(g_dmabuf_mem_handle)
  BY DEF BufferBacked, InBuffer
<1>3. BusOf(g_dmabuf_mem_handle) \in Nat /\ BusOf(g_dmabuf_mem_handle) > 0
  BY <1>2, BlocksApart
<1>4. ASSUME NEW q, InBuffer(q)
      PROVE  /\ q \in MapBase .. MapBase + HWDMA_BUFFER_SIZE - 1
             /\ hwdma_bus_address(q) = BusOf(g_dmabuf_mem_handle) + (q - MapBase)
  BY <1>1, <1>2, <1>4 DEF InBuffer, hwdma_bus_address
<1>5. hwdma_bus_address(p) = BusOf(g_dmabuf_mem_handle) + (p - MapBase)
  BY <1>4
<1>6. /\ hwdma_bus_address(p) \in Nat /\ hwdma_bus_address(p) # 0 /\ p # 0
      /\ Within(hwdma_bus_address(p), BusOf(g_dmabuf_mem_handle))
  BY <1>1, <1>3, <1>5 DEF Within
<1>7. \A q : InBuffer(q) /\ hwdma_bus_address(q) = hwdma_bus_address(p) => q = p
  BY <1>1, <1>3, <1>4, <1>5
<1> QED BY <1>2, <1>6, <1>7 DEF NULL

\* While the process goes on, memory that is not its own stays locked, and its
\* buffer stays where it is.
LEMMA ProcessGoesOn ==
  ASSUME PlainInv, DmaNext, starts' = starts
  PROVE  /\ \A h : Foreign(h) => Foreign(h)'
         /\ g_dma_buffer # NULL =>
              UNCHANGED <<g_dma_buffer, g_dma_buffer_size, g_dmabuf_bus_addr>>
<1>1. /\ BufTypeOK /\ AllocatorInv /\ starts \in Nat
      /\ vpu \in [Handles -> {"free", "allocated", "locked"}]
  BY BufferAssumption DEF PlainInv, DmaTypeOK, BufTypeOK
<1>2. CASE UNCHANGED bufVars
  BY <1>2 DEF bufVars, process, dmabuf, Foreign
<1>3. ASSUME NEW fn, NEW n, Call(fn, n)
      PROVE  /\ \A h : Foreign(h) => Foreign(h)'
             /\ g_dma_buffer # NULL =>
                  UNCHANGED <<g_dma_buffer, g_dma_buffer_size, g_dmabuf_bus_addr>>
  BY <1>3 DEF Call, CallWith, dmabuf, Foreign
<1>4. CASE BufferStep
  <2>1. CASE AllocVpuMem
    <3>1. g_dma_buffer = NULL
      BY <1>1, <2>1 DEF AllocVpuMem, AllocatorInv
    <3>2. PICK k \in Handles \cup {0} : broadcom_vpu_mem_alloc(k) /\ g_dmabuf_mem_handle' = k
      BY <2>1 DEF AllocVpuMem
    <3>3. \/ k \in Handles /\ vpu[k] = "free" /\ vpu' = [vpu EXCEPT ![k] = "allocated"]
          \/ k = 0 /\ vpu' = vpu
      BY <3>2 DEF broadcom_vpu_mem_alloc
    <3>4. 0 \notin Handles
      BY BufferAssumption
    <3>5. \A h : Foreign(h) => Foreign(h)'
      BY <1>1, <3>2, <3>3, <3>4 DEF Foreign
    <3> QED BY <3>1, <3>5
  <2>2. CASE LockVpuMem
    <3>1. g_dma_buffer = NULL /\ g_dmabuf_mem_handle' = g_dmabuf_mem_handle
      BY <1>1, <2>2 DEF LockVpuMem, StoreAddresses, AllocatorInv
    <3>2. vpu' = vpu \/ vpu' = [vpu EXCEPT ![g_dmabuf_mem_handle] = "locked"]
      BY <2>2 DEF LockVpuMem, broadcom_vpu_mem_lock
    <3>3. \A h : Foreign(h) => Foreign(h)'
      BY <1>1, <3>1, <3>2 DEF Foreign
    <3> QED BY <3>1, <3>3
  <2>3. CASE MapBuffer
    BY <1>1, <2>3 DEF MapBuffer, AllocatorInv, Foreign, dmabuf
  <2>4. CASE Bump
    BY <2>4 DEF Bump, GiveOut, Foreign, dmabuf
  <2> QED BY <1>4, <2>1, <2>2, <2>3, <2>4 DEF BufferStep, BufStep
<1>5. CASE \/ \E n \in AllocSizes : Allocate(n)
           \/ \E o \in Objects, n \in ChannelArgs : InitBegin(o, n)
           \/ InitAllocate
  BY <1>2, <1>3, <1>5 DEF Allocate, InitBegin, InitWithin, InitAllocate
<1>6. CASE \E o \in Objects : \/ \E b \in BOOLEAN, a \in PeriphAddrs : Prepare(o, b, a)
                              \/ \E x \in Transfers(object[o].istx) : PrepareTransfer(o, x)
                              \/ Enable(o) \/ Disable(o)
  BY <1>2, <1>6 DEF Prepare, PrepareTransfer, Enable, Disable
<1>7. CASE InitTakeBlock \/ InitRegs \/ WriteField \/ WriteConblk
  BY <1>2, <1>7 DEF InitTakeBlock, TakeBlock, InitRegs, Reset, WriteField, WriteConblk
<1>8. ~DmaRestart
  BY <1>1 DEF DmaRestart, Restart, StartWith
<1>9. CASE \E c \in Channels : EngineStep(c)
  BY <1>2, <1>9 DEF EngineStep, EngineLoad, EngineMove
<1> QED BY <1>4, <1>5, <1>6, <1>7, <1>8, <1>9 DEF DmaNext

-----------------------------------------------------------------------------
(* The steps of PrepareTransfer.                                           *)

\* What is in memory after a field has been stored.
LEMMA FieldStored ==
  ASSUME PlainInv, WriteField, app'.at = "prepare"
  PROVE  LET d == object[app.o]
             a == hwdma_bus_address(d.cb)
             v == ControlBlock(d, app.xfer)
             i == app.written + 1
         IN  /\ app.o \in Objects /\ d.initialized /\ d.chnum \in Channels
             /\ InBuffer(d.cb) /\ a \in CbAddrs /\ v \in ControlBlocks
             /\ app.xfer \in Asked
             /\ app.written \in 0 .. 5 /\ app' = [app EXCEPT !.written = i]
             /\ app'.o = app.o /\ app'.xfer = app.xfer /\ app'.written = i
             /\ \A b \in CbAddrs \ {a} : memory'[b] = memory[b]
             /\ memory'[a][CbFields[i]] = v[CbFields[i]]
             /\ \A j \in (1 .. 6) \ {i} : memory'[a][CbFields[j]] = memory[a][CbFields[j]]
<1> DEFINE d == object[app.o]
           a == hwdma_bus_address(d.cb)
           v == ControlBlock(d, app.xfer)
           i == app.written + 1
<1>1. /\ memory \in [CbAddrs -> ControlBlocks]
      /\ BufTypeOK /\ CallsInv /\ BlocksInv /\ app \in Apps
      /\ object \in [Objects -> ObjectFields] /\ InitializedHasBlock
  BY DEF PlainInv, DmaTypeOK, CallsInv
<1>2. /\ app \in [at : {"prepare"}, o : Objects, xfer : Asked, written : 0 .. 6]
      /\ app.written \in 0 .. 5 /\ i \in 1 .. 6 /\ d \in ObjectFields
      /\ app.xfer \in Asked /\ app.o \in Objects
  BY <1>1, AppFields, SixFields DEF WriteField
<1>3. /\ InBuffer(d.cb) /\ app' = [app EXCEPT !.written = i]
      /\ memory' = [memory EXCEPT ![a] = [memory[a] EXCEPT ![CbFields[i]] = v[CbFields[i]]]]
  BY DEF WriteField
<1>4. d.cb # NULL
  BY <1>1, <1>3, BufferAssumption DEF InBuffer, BufTypeOK, NULL
<1>5. OnGranule(d.cb)
  BY <1>1, <1>2, <1>4 DEF BlocksInv
<1>6. a \in CbAddrs /\ v \in ControlBlocks
  BY <1>1, <1>2, <1>3, <1>5, BusAddressTypes, ControlBlockType
<1>7. d.initialized /\ d.chnum \in Channels
  BY <1>1, <1>2 DEF CallsInv, InitializedHasBlock
<1>8. app'.o = app.o /\ app'.xfer = app.xfer /\ app'.written = i
  BY <1>2, <1>3
<1>9. memory[a] \in ControlBlocks
  BY <1>1, <1>6
<1> HIDE DEF a, v, i, d
<1>10. /\ memory'[a] = [memory[a] EXCEPT ![CbFields[i]] = v[CbFields[i]]]
       /\ \A b \in CbAddrs \ {a} : memory'[b] = memory[b]
  BY <1>1, <1>3, <1>6
<1>11. /\ memory'[a][CbFields[i]] = v[CbFields[i]]
       /\ \A j \in (1 .. 6) \ {i} : memory'[a][CbFields[j]] = memory[a][CbFields[j]]
  <2> DEFINE b == memory[a]
  <2>1. memory'[a] = [b EXCEPT ![CbFields[i]] = v[CbFields[i]]]
    BY <1>10
  <2>2. b \in ControlBlocks /\ v \in ControlBlocks /\ i \in 1 .. 6
    BY <1>2, <1>6, <1>9 DEF i
  <2> HIDE DEF b
  <2>3. /\ [b EXCEPT ![CbFields[i]] = v[CbFields[i]]][CbFields[i]] = v[CbFields[i]]
        /\ \A j \in (1 .. 6) \ {i} :
             [b EXCEPT ![CbFields[i]] = v[CbFields[i]]][CbFields[j]] = b[CbFields[j]]
    BY <2>2, FieldReplaced
  <2> QED BY <2>1, <2>3 DEF b
<1> QED BY <1>2, <1>3, <1>6, <1>7, <1>8, <1>10, <1>11 DEF a, v, i, d

\* Inside PrepareTransfer the program only stores fields, while the engine may
\* move.
LEMMA InsidePrepare ==
  ASSUME PlainInv, DmaNext, app'.at = "prepare"
  PROVE  \/ \E o \in Objects : \E x \in Transfers(object[o].istx) : PrepareTransfer(o, x)
         \/ WriteField \/ \E c \in Channels : EngineStep(c)
<1>1. CallsInv /\ app \in Apps
  BY DEF PlainInv, CallsInv
<1>2. CASE \/ \E n \in AllocSizes : Allocate(n)
           \/ BufferStep
           \/ \E o \in Objects : \/ \E n \in ChannelArgs : InitBegin(o, n)
                                 \/ \E b \in BOOLEAN, a \in PeriphAddrs : Prepare(o, b, a)
                                 \/ Enable(o) \/ Disable(o)
  <2>1. \/ Free /\ app' = app
        \/ Free /\ app'.at = "init"
        \/ pc # "idle" /\ app' = app
    <3>1. CASE BufferStep
      BY <3>1 DEF BufferStep, BufStep, AllocVpuMem, LockVpuMem, StoreAddresses,
                  MapBuffer, Bump, GiveOut, dmaProcess
    <3>2. CASE \E o \in Objects, n \in ChannelArgs : InitBegin(o, n)
      BY <3>2 DEF InitBegin, InitWithin
    <3>3. CASE \E n \in AllocSizes : Allocate(n)
      BY <3>3 DEF Allocate, dmaProcess
    <3>4. CASE \E o \in Objects : \/ \E b \in BOOLEAN, a \in PeriphAddrs : Prepare(o, b, a)
                                  \/ Enable(o) \/ Disable(o)
      BY <3>4 DEF Prepare, Enable, Disable, Ready, dmaProcess
    <3> QED BY <1>2, <3>1, <3>2, <3>3, <3>4
  <2> QED BY <1>1, <2>1 DEF Free, Idle, CallsInv
<1>3. CASE InitAllocate \/ InitTakeBlock
  <2>1. /\ app \in [at : {"init", "initcb", "initregs"}, o : Objects]
        /\ \/ app'.at = "idle"
           \/ app' = [app EXCEPT !.at = "initcb"]
           \/ app' = [app EXCEPT !.at = "initregs"]
    BY <1>1, <1>3, AppFields DEF InitAllocate, InitTakeBlock, TakeBlock, Idle
  <2> QED BY <2>1
<1>4. CASE InitRegs \/ WriteConblk \/ DmaRestart
  BY <1>4 DEF InitRegs, Reset, WriteConblk, DmaRestart, Idle
<1> QED BY <1>2, <1>3, <1>4 DEF DmaNext

\* The fields stored so far stay in memory, until the last one is.
LEMMA WrittenStep ==
  ASSUME PlainInv, WrittenInv, DmaNext
  PROVE  WrittenInv'
<1>1. CASE app'.at # "prepare"
  BY <1>1 DEF WrittenInv
<1>2. CASE WriteField
  <2> SUFFICES ASSUME app'.at = "prepare" PROVE WrittenInv'
    BY <1>1
  <2> DEFINE d == object[app.o]
             a == hwdma_bus_address(d.cb)
             v == ControlBlock(d, app.xfer)
  <2>1. /\ app.written \in 0 .. 5 /\ app'.o = app.o /\ app'.xfer = app.xfer
        /\ app'.written = app.written + 1
        /\ memory'[a][CbFields[app.written + 1]] = v[CbFields[app.written + 1]]
        /\ \A j \in (1 .. 6) \ {app.written + 1} :
             memory'[a][CbFields[j]] = memory[a][CbFields[j]]
    BY <1>2, FieldStored
  <2>2. \A j \in 1 .. app.written : memory[a][CbFields[j]] = v[CbFields[j]]
    BY <1>2 DEF WriteField, WrittenInv
  <2>3. a' = a /\ v' = v
    BY <1>2, <2>1 DEF WriteField, hwdma_bus_address, ControlBlock, BlockOf, Stride, Increment,
                      NextBlock, bufVars, process, dmabuf
  <2> HIDE DEF a, v, d
  <2>4. \A j \in 1 .. app'.written : memory'[a][CbFields[j]] = v[CbFields[j]]
    BY <2>1, <2>2
  <2> QED BY <2>3, <2>4 DEF WrittenInv, a, v, d
<1>3. CASE \E o \in Objects : \E x \in Transfers(object[o].istx) : PrepareTransfer(o, x)
  BY <1>3 DEF PrepareTransfer, WrittenInv
<1>4. CASE \E c \in Channels : EngineStep(c)
  <2>1. UNCHANGED <<bufVars, dmaProcess, memory>>
    BY <1>4 DEF EngineStep, EngineLoad, EngineMove
  <2> QED BY <2>1 DEF WrittenInv, dmaProcess, hwdma_bus_address, ControlBlock, BlockOf, Stride,
                      Increment, NextBlock, bufVars, process, dmabuf
<1> QED BY <1>1, <1>2, <1>3, <1>4, InsidePrepare

-----------------------------------------------------------------------------
(* The channels.                                                           *)

\* A channel keeps its transfer in a step of the process, or of the engine on
\* another channel, that leaves its registers and its control block alone.
LEMMA ChannelKept ==
  ASSUME PlainInv, DmaNext, starts' = starts, NEW c \in Channels,
         Fetches(c), Works(c), regs'[c] = regs[c], prepared'[c] = prepared[c],
         InUse(c)' /\ regs[c].CONBLK_AD # 0 =>
           /\ InUse(c)
           /\ memory'[regs[c].CONBLK_AD] = memory[regs[c].CONBLK_AD]
           /\ \A o \in Objects : object[o].chnum = c /\ InBuffer(object[o].cb) =>
                object'[o].chnum = c /\ object'[o].cb = object[o].cb
  PROVE  Fetches(c)' /\ Works(c)'
<1>1. Works(c)'
  BY DEF Works, RowOf
<1>2. ASSUME InUse(c)', regs[c].CONBLK_AD # 0
      PROVE  /\ RowOf(memory'[regs[c].CONBLK_AD], prepared[c], 0, regs[c].CONBLK_AD)
             /\ Owned(c)'
  <2>1. RowOf(memory'[regs[c].CONBLK_AD], prepared[c], 0, regs[c].CONBLK_AD) /\ Owned(c)
    BY <1>2 DEF Fetches
  <2>2. CASE prepared[c].by = starts
    <3>1. PICK o \in Objects : /\ object[o].chnum = c /\ InBuffer(object[o].cb)
                               /\ regs[c].CONBLK_AD = hwdma_bus_address(object[o].cb)
      BY <2>1, <2>2 DEF Owned, Mine
    <3>2. object'[o].chnum = c /\ object'[o].cb = object[o].cb
      BY <1>2, <3>1
    <3>3. UNCHANGED <<g_dma_buffer, g_dma_buffer_size, g_dmabuf_bus_addr>>
      BY <3>1, ProcessGoesOn DEF InBuffer
    <3>4. Mine(c)'
      BY <3>1, <3>2, <3>3 DEF Mine, InBuffer, hwdma_bus_address
    <3> QED BY <2>1, <2>2, <3>4 DEF Owned
  <2>3. CASE prepared[c].by # starts
    <3>1. Orphaned(c)
      BY <2>1, <2>3 DEF Owned
    <3>2. Orphaned(c)'
      BY <3>1, ProcessGoesOn DEF Orphaned, Within
    <3> QED BY <2>1, <2>3, <3>2 DEF Owned
  <2> QED BY <2>1, <2>2, <2>3
<1>3. Fetches(c)'
  BY <1>2 DEF Fetches, RowOf
<1> QED BY <1>1, <1>3

\* The steps that touch neither the channels nor the control blocks of the
\* objects.
LEMMA OtherStepsKeep ==
  ASSUME PlainInv, DmaNext, NEW c \in Channels, Fetches(c), Works(c),
         \/ \E n \in AllocSizes : Allocate(n)
         \/ BufferStep \/ InitAllocate
         \/ \E o \in Objects : \/ \E b \in BOOLEAN, a \in PeriphAddrs : Prepare(o, b, a)
                               \/ \E x \in Transfers(object[o].istx) : PrepareTransfer(o, x)
  PROVE  Fetches(c)' /\ Works(c)'
<1>1. object \in [Objects -> ObjectFields] /\ CallsInv /\ app \in Apps
  BY DEF PlainInv, DmaTypeOK, CallsInv
<1>2. CASE \/ \E n \in AllocSizes : Allocate(n)
           \/ BufferStep \/ InitAllocate
  <2>1. starts' = starts /\ UNCHANGED engine /\ object' = object
    <3>1. CASE BufferStep
      BY <3>1 DEF BufferStep, BufStep, AllocVpuMem, LockVpuMem, StoreAddresses,
                  MapBuffer, Bump, GiveOut, dmaProcess
    <3>2. CASE (\E n \in AllocSizes : Allocate(n)) \/ InitAllocate
      BY <3>2 DEF Allocate, InitAllocate, Call, CallWith, bufVars, dmaProcess
    <3> QED BY <1>2, <3>1, <3>2
  <2>2. app' = app \/ app.at # "prepare"
    BY <1>2 DEF Allocate, BufferStep, InitAllocate, dmaProcess
  <2>3. InUse(c)' => InUse(c)
    BY <2>1, <2>2 DEF InUse, engine
  <2> QED BY <2>1, <2>3, ChannelKept DEF engine
<1>3. CASE \E o \in Objects : \/ \E b \in BOOLEAN, a \in PeriphAddrs : Prepare(o, b, a)
                              \/ \E x \in Transfers(object[o].istx) : PrepareTransfer(o, x)
  <2>1. starts' = starts /\ UNCHANGED engine /\ app = Idle
    BY <1>3 DEF Prepare, PrepareTransfer, bufVars, Ready, Free
  <2>2. \A p \in Objects : /\ object'[p].chnum = object[p].chnum
                           /\ object'[p].cb = object[p].cb
                           /\ object'[p].initialized = object[p].initialized
    <3>1. CASE \E o \in Objects, b \in BOOLEAN, a \in PeriphAddrs : Prepare(o, b, a)
      BY <1>1, <3>1 DEF Prepare, ObjectFields
    <3>2. CASE \E o \in Objects : \E x \in Transfers(object[o].istx) : PrepareTransfer(o, x)
      BY <3>2 DEF PrepareTransfer
    <3> QED BY <1>3, <3>1, <3>2
  <2>3. InUse(c)' => InUse(c)
    BY <2>1, <2>2 DEF InUse, engine, Idle
  <2> QED BY <2>1, <2>2, <2>3, ChannelKept DEF engine
<1> QED BY <1>2, <1>3

\* Init of an object on a channel: it leaves its old one only when that one is
\* quiet.
LEMMA InitBeginKeeps ==
  ASSUME PlainInv, DmaNext, NEW c \in Channels, Fetches(c), Works(c),
         NEW o \in Objects, NEW n \in ChannelArgs, InitBegin(o, n)
  PROVE  Fetches(c)' /\ Works(c)'
<1>1. object \in [Objects -> ObjectFields] /\ ChannelsDistinct
  BY DEF PlainInv, DmaTypeOK
<1>2. PICK k : /\ k = IF n \in Channels THEN n ELSE -1
               /\ object' = [object EXCEPT ![o].initialized = FALSE, ![o].chnum = k]
  BY DEF InitBegin, InitWithin
<1>3. /\ object'[o].chnum = k /\ ~object'[o].initialized /\ object'[o].cb = object[o].cb
      /\ \A p \in Objects \ {o} : object'[p] = object[p]
  BY <1>1, <1>2 DEF ObjectFields
<1>4. starts' = starts /\ UNCHANGED engine /\ app = Idle
  BY DEF InitBegin, InitWithin, bufVars, Call, CallWith, Free
<1>5. object[o].chnum \in Channels \ {n} => Quiet(object[o].chnum)
  BY DEF InitBegin, InitWithin
<1>6. ASSUME InUse(c)'
      PROVE  InUse(c) /\ (object[o].chnum = c => object'[o].chnum = c)
  <2>1. CASE object[o].chnum # c
    BY <1>3, <1>4, <1>6, <2>1 DEF InUse, engine, Idle
  <2>2. CASE object[o].chnum = c
    <3>1. \A p \in Objects \ {o} : object[p].chnum # c
      BY <1>1, <2>2 DEF ChannelsDistinct
    <3>2. regs[c].ACTIVE \/ regs[c].loaded
      BY <1>3, <1>4, <1>6, <3>1 DEF InUse, engine
    <3>3. n = c
      BY <1>5, <2>2, <3>2 DEF Quiet
    <3>4. object'[o].chnum = c
      BY <1>2, <1>3, <3>3
    <3> QED BY <3>2, <3>4 DEF InUse
  <2> QED BY <2>1, <2>2
<1> QED BY <1>3, <1>4, <1>6, ChannelKept DEF engine

\* An object takes its control block: it had none, so no channel uses it.
LEMMA InitTakeBlockKeeps ==
  ASSUME PlainInv, DmaNext, NEW c \in Channels, Fetches(c), Works(c), InitTakeBlock
  PROVE  Fetches(c)' /\ Works(c)'
<1>1. /\ object \in [Objects -> ObjectFields] /\ BufTypeOK /\ app \in Apps /\ CallsInv
  BY DEF PlainInv, DmaTypeOK, CallsInv
<1>2. app.o \in Objects /\ app.at = "initcb" /\ object[app.o].cb = NULL
  BY <1>1, AppFields DEF InitTakeBlock, TakeBlock, CallsInv
<1>3. /\ \A p \in Objects : /\ object'[p].chnum = object[p].chnum
                            /\ object'[p].initialized = object[p].initialized
      /\ \A p \in Objects \ {app.o} : object'[p].cb = object[p].cb
  BY <1>1, <1>2 DEF InitTakeBlock, TakeBlock, ObjectFields
<1>4. starts' = starts /\ UNCHANGED engine
  BY DEF InitTakeBlock, TakeBlock, bufVars
<1>5. InUse(c)' => InUse(c)
  BY <1>2, <1>3, <1>4 DEF InUse, engine
<1>6. ~InBuffer(object[app.o].cb)
  BY <1>1, <1>2, BufferAssumption DEF InBuffer, BufTypeOK, NULL
<1> QED BY <1>3, <1>4, <1>5, <1>6, ChannelKept DEF engine

\* The reset of a channel leaves nothing to fetch on it, and every other
\* channel as it was.
LEMMA InitRegsKeeps ==
  ASSUME PlainInv, DmaNext, NEW c \in Channels, Fetches(c), Works(c), InitRegs
  PROVE  Fetches(c)' /\ Works(c)'
<1>1. /\ object \in [Objects -> ObjectFields] /\ app \in Apps /\ CallsInv
      /\ regs \in [Channels -> ChannelRegs] /\ prepared \in [Channels -> PreparedFields]
  BY DEF PlainInv, DmaTypeOK, CallsInv, PreparedInv
<1>2. app.o \in Objects /\ app.at = "initregs" /\ object[app.o].chnum \in Channels
  BY <1>1, AppFields DEF InitRegs, Reset, CallsInv
<1>3. starts' = starts /\ memory' = memory
  BY DEF InitRegs, Reset, bufVars
<1>4. CASE UNCHANGED <<regs, object, prepared>>
  <2>1. InUse(c)' => InUse(c)
    BY <1>2, <1>4 DEF InUse
  <2> QED BY <1>3, <1>4, <2>1, ChannelKept
<1>5. CASE /\ regs' = [d \in Channels |-> IF d \in {object[app.o].chnum} THEN ResetChannel
                                           ELSE regs[d]]
           /\ prepared' = [prepared EXCEPT ![object[app.o].chnum] = NothingPrepared]
           /\ object' = [object EXCEPT ![app.o].initialized = TRUE]
  <2>1. CASE c = object[app.o].chnum
    <3>1. regs'[c] = ResetChannel
      BY <1>5, <2>1
    <3>2. ~regs'[c].ACTIVE /\ ~regs'[c].loaded /\ regs'[c].CONBLK_AD = 0
      BY <3>1 DEF ResetChannel
    <3> QED BY <3>2 DEF Fetches, Works
  <2>2. CASE c # object[app.o].chnum
    <3>1. regs'[c] = regs[c] /\ prepared'[c] = prepared[c]
      BY <1>1, <1>5, <2>2 DEF PreparedFields
    <3>2. \A p \in Objects : /\ object'[p].chnum = object[p].chnum
                             /\ object'[p].cb = object[p].cb
                             /\ p # app.o => object'[p].initialized = object[p].initialized
      BY <1>1, <1>2, <1>5 DEF ObjectFields
    <3>3. InUse(c)' => InUse(c)
      BY <1>2, <2>2, <3>1, <3>2 DEF InUse
    <3> QED BY <1>3, <3>1, <3>2, <3>3, ChannelKept
  <2> QED BY <2>1, <2>2
<1> QED BY <1>4, <1>5 DEF InitRegs, Reset

\* While the fields of a control block are stored, no other channel fetches it.
LEMMA WriteFieldKeeps ==
  ASSUME PlainInv, BufferBacked, DmaNext, NEW c \in Channels, Fetches(c), Works(c), WriteField
  PROVE  Fetches(c)' /\ Works(c)'
<1>1. /\ object \in [Objects -> ObjectFields] /\ app \in Apps /\ CallsInv /\ BufTypeOK
      /\ regs \in [Channels -> ChannelRegs] /\ ChannelsDistinct /\ BlocksInv
      /\ regs[c].CONBLK_AD \in CbAddrs
  BY DEF PlainInv, DmaTypeOK, CallsInv, ChannelRegs
<1>2. /\ starts' = starts /\ regs' = regs /\ prepared' = prepared /\ object' = object
      /\ app.at = "prepare"
  BY DEF WriteField, bufVars
<1>3. /\ app.o \in Objects
      /\ app \in [at : {"prepare"}, o : Objects, xfer : Asked, written : 0 .. 6]
  BY <1>1, <1>2, AppFields
<1> DEFINE d == object[app.o]
           a == hwdma_bus_address(d.cb)
<1>4. CASE ~InBuffer(d.cb) /\ app' = [at |-> "dead"] /\ UNCHANGED memory
  <2>1. app.written = 0
    BY <1>1, <1>2, <1>3, <1>4 DEF CallsInv
  <2>2. InUse(c)' => InUse(c)
    BY <1>2, <2>1 DEF InUse
  <2> QED BY <1>2, <1>4, <2>2, ChannelKept
<1>5. CASE app'.at = "prepare"
  <2>1. /\ app'.o = app.o /\ app'.written = app.written + 1 /\ app.written \in 0 .. 5
        /\ InBuffer(d.cb) /\ d.chnum \in Channels
        /\ \A b \in CbAddrs \ {a} : memory'[b] = memory[b]
    BY <1>5, FieldStored
  <2>2. app'.written > 0
    BY <2>1
  <2>3. InUse(c)' => InUse(c)
    BY <1>2, <1>5, <2>1, <2>2 DEF InUse
  <2>4. ASSUME InUse(c)', regs[c].CONBLK_AD # 0
        PROVE  regs[c].CONBLK_AD # a
    <3>1. Owned(c)
      BY <2>3, <2>4 DEF Fetches
    <3>2. CASE prepared[c].by = starts
      <4>1. PICK p \in Objects : /\ object[p].chnum = c /\ InBuffer(object[p].cb)
                                 /\ regs[c].CONBLK_AD = hwdma_bus_address(object[p].cb)
        BY <3>1, <3>2 DEF Owned, Mine
      <4>2. p # app.o
        <5> SUFFICES ASSUME p = app.o PROVE FALSE
          OBVIOUS
        <5>1. ~regs[c].ACTIVE /\ ~regs[c].loaded
          BY <1>1, <1>2, <4>1 DEF CallsInv, Quiet
        <5>2. PICK q \in Objects : object[q].chnum = c /\ q # app.o
          BY <1>2, <1>5, <2>1, <2>2, <2>4, <5>1 DEF InUse
        <5> QED BY <1>1, <4>1, <5>2 DEF ChannelsDistinct
      <4>3. object[p].cb # NULL
        BY <1>1, <4>1, BusInside
      <4>4. object[p].cb # d.cb
        BY <1>1, <1>3, <4>2, <4>3 DEF BlocksInv
      <4> QED BY <1>1, <2>1, <4>1, <4>4, BusInside
    <3>3. CASE prepared[c].by # starts
      <4>1. PICK h \in Handles : Foreign(h) /\ Within(regs[c].CONBLK_AD, BusOf(h))
        BY <3>1, <3>3 DEF Owned, Orphaned
      <4>2. /\ g_dmabuf_mem_handle \in Handles /\ Within(a, BusOf(g_dmabuf_mem_handle))
            /\ h # g_dmabuf_mem_handle /\ a \in Nat
        BY <1>1, <2>1, <4>1, BusInside DEF Foreign
      <4>3. HWDMA_BUFFER_SIZE \in Nat
        BY BufferAssumption
      <4> HIDE DEF a
      <4> QED BY <4>1, <4>2, <4>3, BlocksApart DEF Within
    <3> QED BY <3>2, <3>3
  <2>5. InUse(c)' /\ regs[c].CONBLK_AD # 0 =>
          memory'[regs[c].CONBLK_AD] = memory[regs[c].CONBLK_AD]
    BY <1>1, <2>1, <2>4
  <2> QED BY <1>2, <2>3, <2>5, ChannelKept
<1>6. app'.at = "prepare" \/ (~InBuffer(d.cb) /\ app' = [at |-> "dead"] /\ UNCHANGED memory)
  BY <1>3 DEF WriteField
<1> QED BY <1>4, <1>5, <1>6

\* The rows of every transfer fit their half of TXFR_LEN.
CountsFit == \A n \in Counts : n <= LenMod

\* A control block with all its fields written is that of the transfer, from
\* its first row on.
LEMMA WrittenIsFirstRow ==
  ASSUME CountsFit, BufTypeOK, NEW d \in ObjectFields, NEW x \in Asked,
         NEW b \in ControlBlocks,
         \A i \in 1 .. 6 : b[CbFields[i]] = ControlBlock(d, x)[CbFields[i]]
  PROVE  RowOf(b, AsPrepared(d, x), 0, hwdma_bus_address(d.cb))
<1>1. /\ b.SOURCE_AD = ControlBlock(d, x).SOURCE_AD
      /\ b.DEST_AD = ControlBlock(d, x).DEST_AD
      /\ b.TI = ControlBlock(d, x).TI
      /\ b.TXFR_LEN = ControlBlock(d, x).TXFR_LEN
      /\ b.STRIDE = ControlBlock(d, x).STRIDE
      /\ b.NEXTCONBK = ControlBlock(d, x).NEXTCONBK
  BY DEF CbFields
<1>2. x.count \in Nat /\ x.count # 0 /\ x.count <= LenMod /\ LenMod \in Nat
  BY DmaAssumption DEF Asked, CountsFit
<1>3. (x.count - 1) % LenMod = x.count - 1
  BY <1>2
<1>4. hwdma_bus_address(x.addr) \in Nat
  BY BusAddressTypes DEF Asked
<1>5. Increment(d.istx, x) \in Nat
  <2>1. x.bytewidth \in {1, 2, 4}
    BY DmaAssumption DEF Asked
  <2> QED BY <2>1 DEF Increment
<1> DEFINE p == AsPrepared(d, x)
<1>6. /\ p.rows = x.count /\ p.loop = ("CIRCULAR" \in x.flags) /\ p.istx = d.istx
      /\ p.addr = hwdma_bus_address(x.addr) /\ p.inc = Increment(d.istx, x)
      /\ p.bytewidth = x.bytewidth /\ p.periphaddr = d.periphaddr
  BY DEF AsPrepared
<1>7. 0 \in 0 .. p.rows - 1 /\ p.addr + 0 * p.inc = p.addr
  BY <1>2, <1>4, <1>5, <1>6
<1>8. /\ b.TXFR_LEN.y = p.rows - 1 /\ b.TXFR_LEN.x = p.bytewidth
      /\ b.NEXTCONBK = IF p.loop THEN hwdma_bus_address(d.cb) ELSE 0
  <2>1. b.TXFR_LEN.y = p.rows - 1 /\ b.TXFR_LEN.x = p.bytewidth
    BY <1>1, <1>3, <1>6 DEF ControlBlock, BlockOf
  <2>2. b.NEXTCONBK = NextBlock(d, x)
    BY <1>1 DEF ControlBlock, BlockOf
  <2>3. p.loop <=> "CIRCULAR" \in x.flags
    BY DEF AsPrepared
  <2> HIDE DEF p
  <2> QED BY <2>1, <2>2, <2>3 DEF NextBlock
<1>9. /\ b.SOURCE_AD = IF p.istx THEN p.addr ELSE p.periphaddr
      /\ b.DEST_AD = IF p.istx THEN p.periphaddr ELSE p.addr
      /\ b.TI = IF p.istx THEN "DEST_DREQ" ELSE "SRC_DREQ"
  BY <1>1, <1>6 DEF ControlBlock, BlockOf
<1>10. /\ b.STRIDE.s = IF p.istx THEN p.inc ELSE 0
       /\ b.STRIDE.d = IF p.istx THEN 0 ELSE p.inc
  <2>1. d.istx \in BOOLEAN
    BY DEF ObjectFields
  <2>2. b.STRIDE = Stride(d, x)
    BY <1>1 DEF ControlBlock, BlockOf
  <2>3. CASE d.istx
    <3>1. Increment(d.istx, x) = Increment(TRUE, x)
      BY <2>3 DEF Increment
    <3>2. b.STRIDE = [s |-> Increment(TRUE, x), d |-> 0]
      BY <2>2, <2>3 DEF Stride, Increment
    <3>3. p.inc = Increment(TRUE, x) /\ p.istx
      BY <1>6, <2>3, <3>1
    <3> QED BY <3>2, <3>3
  <2>4. CASE ~d.istx
    <3>1. Increment(d.istx, x) = Increment(FALSE, x)
      BY <2>4 DEF Increment
    <3>2. b.STRIDE = [s |-> 0, d |-> Increment(FALSE, x)]
      BY <2>2, <2>4 DEF Stride, Increment
    <3>3. p.inc = Increment(FALSE, x) /\ ~p.istx
      BY <1>6, <2>4, <3>1
    <3> QED BY <3>2, <3>3
  <2> QED BY <2>1, <2>3, <2>4
<1>11. p.rows - 1 - 0 = p.rows - 1
  BY <1>2, <1>6
<1> HIDE DEF p
<1>12. RowOf(b, p, 0, hwdma_bus_address(d.cb))
  BY <1>7, <1>8, <1>9, <1>10, <1>11 DEF RowOf
<1> QED BY <1>12 DEF p

\* The last store of PrepareTransfer leaves the channel with the transfer asked
\* for, and every other channel as it was.
LEMMA WriteConblkKeeps ==
  ASSUME CountsFit, PlainInv, BufferBacked, WrittenInv, DmaNext,
         NEW c \in Channels, Fetches(c), Works(c), WriteConblk
  PROVE  Fetches(c)' /\ Works(c)'
<1>1. /\ object \in [Objects -> ObjectFields] /\ app \in Apps /\ CallsInv /\ BufTypeOK
      /\ regs \in [Channels -> ChannelRegs] /\ BlocksInv /\ InitializedHasBlock
      /\ memory \in [CbAddrs -> ControlBlocks] /\ prepared \in [Channels -> PreparedFields]
  BY DEF PlainInv, DmaTypeOK, CallsInv, PreparedInv
<1>2. /\ app.o \in Objects /\ app.at = "prepare" /\ app.written = 6 /\ app.xfer \in Asked
  BY <1>1, AppFields, SixFields DEF WriteConblk
<1> DEFINE d == object[app.o]
           a == hwdma_bus_address(d.cb)
           p == AsPrepared(d, app.xfer)
<1>3. /\ d \in ObjectFields /\ d.chnum \in Channels /\ Quiet(d.chnum) /\ InBuffer(d.cb)
  BY <1>1, <1>2 DEF CallsInv, InitializedHasBlock
<1>4. /\ regs' = [regs EXCEPT ![d.chnum].CONBLK_AD = a]
      /\ prepared' = [prepared EXCEPT ![d.chnum] = p]
      /\ app' = Idle /\ memory' = memory /\ object' = object
      /\ starts' = starts /\ UNCHANGED <<g_dma_buffer, g_dma_buffer_size, g_dmabuf_bus_addr>>
  BY DEF WriteConblk, bufVars, process, dmabuf
<1>5. CASE c = d.chnum
  <2>1. a \in CbAddrs
    <3>1. OnGranule(d.cb)
      BY <1>1, <1>2, <1>3, BusInside DEF BlocksInv
    <3> QED BY <1>1, <1>3, <3>1, BusAddressTypes
  <2>2. memory[a] \in ControlBlocks
    BY <1>1, <2>1
  <2>3. \A i \in 1 .. 6 : memory[a][CbFields[i]] = ControlBlock(d, app.xfer)[CbFields[i]]
    BY <1>2 DEF WrittenInv
  <2>4. RowOf(memory[a], p, 0, a)
    <3> HIDE DEF d
    <3> QED BY <1>1, <1>2, <1>3, <2>2, <2>3, WrittenIsFirstRow
  <2>5. /\ ~regs'[c].ACTIVE /\ ~regs'[c].loaded /\ regs'[c].CONBLK_AD = a
        /\ prepared'[c] = p /\ p.by = starts
    BY <1>1, <1>3, <1>4, <1>5 DEF Quiet, ChannelRegs, AsPrepared
  <2>6. Works(c)'
    BY <2>5 DEF Works
  <2>7. Mine(c)'
    BY <1>2, <1>3, <1>4, <1>5, <2>5 DEF Mine, InBuffer, hwdma_bus_address
  <2>8. Owned(c)'
    BY <1>4, <2>5, <2>7 DEF Owned
  <2>9. RowOf(memory[regs[c].CONBLK_AD], prepared[c], 0, regs[c].CONBLK_AD)'
    <3> HIDE DEF a, p
    <3> QED BY <1>4, <2>4, <2>5 DEF RowOf
  <2> QED BY <2>6, <2>8, <2>9 DEF Fetches
<1>6. CASE c # d.chnum
  <2>1. regs'[c] = regs[c] /\ prepared'[c] = prepared[c]
    BY <1>1, <1>4, <1>6
  <2>2. InUse(c)' => InUse(c)
    BY <1>4, <1>6, <2>1 DEF InUse
  <2> QED BY <1>4, <2>1, <2>2, ChannelKept
<1> QED BY <1>5, <1>6

\* A transfer is started, or stopped where it is.
LEMMA EnableKeeps ==
  ASSUME PlainInv, DmaNext, NEW c \in Channels, Fetches(c), Works(c),
         NEW o \in Objects, Enable(o) \/ Disable(o)
  PROVE  Fetches(c)' /\ Works(c)'
<1>1. /\ object \in [Objects -> ObjectFields] /\ regs \in [Channels -> ChannelRegs]
      /\ InitializedHasBlock
  BY DEF PlainInv, DmaTypeOK
<1>2. /\ UNCHANGED <<bufVars, dmaProcess, memory, prepared>>
      /\ object[o].initialized /\ app = Idle /\ object[o].chnum \in Channels
  BY <1>1 DEF Enable, Disable, Ready, Free, InitializedHasBlock
<1>3. starts' = starts /\ object' = object /\ app' = app /\ memory' = memory
      /\ prepared' = prepared
  BY <1>2 DEF bufVars, dmaProcess
<1>4. CASE c # object[o].chnum
  <2>1. regs'[c] = regs[c]
    BY <1>1, <1>4 DEF Enable, Disable
  <2>2. InUse(c)' => InUse(c)
    BY <1>3, <2>1 DEF InUse
  <2> QED BY <1>3, <2>1, <2>2, ChannelKept
<1>5. CASE c = object[o].chnum
  <2>1. InUse(c)
    BY <1>2, <1>5 DEF InUse, Idle
  <2>2. /\ regs'[c].loaded = regs[c].loaded /\ regs'[c].CONBLK_AD = regs[c].CONBLK_AD
        /\ regs'[c].cb = regs[c].cb
        /\ regs'[c].ACTIVE => regs[c].loaded \/ regs[c].CONBLK_AD # 0
    BY <1>1, <1>5 DEF Enable, Disable, ChannelRegs
  <2>3. Works(c)'
    BY <1>3, <2>2 DEF Works, RowOf
  <2>4. Owned(c) => Owned(c)'
    BY <1>2, <1>3, <2>2 DEF Owned, Mine, Orphaned, Within, Foreign, InBuffer, hwdma_bus_address,
                       bufVars, process, dmabuf
  <2>5. Fetches(c)'
    BY <1>3, <2>1, <2>2, <2>4 DEF Fetches, RowOf
  <2> QED BY <2>3, <2>5
<1> QED BY <1>4, <1>5

-----------------------------------------------------------------------------
(* The engine.                                                             *)

\* What a step of the engine does to the registers of its channel; it does
\* nothing to another one.
LEMMA EngineEffect ==
  ASSUME regs \in [Channels -> ChannelRegs], NEW e \in Channels, EngineStep(e)
  PROVE  /\ \A c \in Channels \ {e} : regs'[c] = regs[c]
         /\ regs[e].ACTIVE
         /\ \/ /\ ~regs[e].loaded /\ regs'[e].loaded /\ regs'[e].ACTIVE
               /\ regs[e].CONBLK_AD \in CbAddrs \ {0}
               /\ regs'[e].CONBLK_AD = regs[e].CONBLK_AD
               /\ regs'[e].cb = memory[regs[e].CONBLK_AD]
            \/ /\ regs[e].loaded /\ regs[e].cb.TXFR_LEN.y > 0
               /\ regs'[e].loaded /\ regs'[e].ACTIVE
               /\ regs'[e].CONBLK_AD = regs[e].CONBLK_AD
               /\ regs'[e].cb.SOURCE_AD = regs[e].cb.SOURCE_AD + regs[e].cb.STRIDE.s
               /\ regs'[e].cb.DEST_AD = regs[e].cb.DEST_AD + regs[e].cb.STRIDE.d
               /\ regs'[e].cb.TI = regs[e].cb.TI
               /\ regs'[e].cb.TXFR_LEN.y = regs[e].cb.TXFR_LEN.y - 1
               /\ regs'[e].cb.TXFR_LEN.x = regs[e].cb.TXFR_LEN.x
               /\ regs'[e].cb.STRIDE = regs[e].cb.STRIDE
               /\ regs'[e].cb.NEXTCONBK = regs[e].cb.NEXTCONBK
            \/ /\ regs[e].loaded /\ regs[e].cb.TXFR_LEN.y = 0
               /\ ~regs'[e].loaded
               /\ regs'[e].ACTIVE <=> regs[e].cb.NEXTCONBK # 0
               /\ regs'[e].CONBLK_AD = regs[e].cb.NEXTCONBK
<1> DEFINE cb == regs[e].cb
<1>1. regs[e] \in ChannelRegs /\ cb \in ControlBlocks
  BY DEF ChannelRegs
<1>2. CASE EngineLoad(e)
  <2>1. regs' = [regs EXCEPT ![e] = [regs[e] EXCEPT !.loaded = TRUE,
                                        !.cb = memory[regs[e].CONBLK_AD]]]
    BY <1>1, <1>2 DEF EngineLoad, ChannelRegs
  <2> QED BY <1>1, <1>2, <2>1 DEF EngineLoad, ChannelRegs
<1>3. CASE EngineMove(e) /\ cb.TXFR_LEN.y > 0
  <2> DEFINE len == [cb.TXFR_LEN EXCEPT !.y = @ - 1]
             src == cb.SOURCE_AD + cb.STRIDE.s
             dst == cb.DEST_AD + cb.STRIDE.d
             new == [cb EXCEPT !.TXFR_LEN = len, !.SOURCE_AD = src, !.DEST_AD = dst]
             ch == [regs[e] EXCEPT !.cb = new]
  <2>1. regs[e].ACTIVE /\ regs[e].loaded
        /\ regs' = [regs EXCEPT ![e].cb.TXFR_LEN.y = cb.TXFR_LEN.y - 1,
                               ![e].cb.SOURCE_AD = src, ![e].cb.DEST_AD = dst]
    <3>1. /\ regs[e].ACTIVE /\ regs[e].loaded
          /\ regs' = [regs EXCEPT ![e].cb.TXFR_LEN.y = @ - 1,
                                  ![e].cb.SOURCE_AD = @ + cb.STRIDE.s,
                                  ![e].cb.DEST_AD = @ + cb.STRIDE.d]
      <4>1. cb.TXFR_LEN.y # 0
        BY <1>3
      <4> QED BY <1>3, <4>1 DEF EngineMove
    <3> QED BY <1>1, <3>1 DEF ChannelRegs, ControlBlocks
  <2>2. regs' = [regs EXCEPT ![e] = ch]
    <3> HIDE DEF src, dst
    <3> QED BY <1>1, <2>1, Zenon DEF ChannelRegs, ControlBlocks
  <2>3. cb.TXFR_LEN \in TxfrLen
    BY <1>1 DEF ControlBlocks
  <2>4. len.y = cb.TXFR_LEN.y - 1 /\ len.x = cb.TXFR_LEN.x
    BY <2>3 DEF TxfrLen
  <2>5. /\ new.TXFR_LEN = len /\ new.SOURCE_AD = src /\ new.DEST_AD = dst
        /\ new.TI = cb.TI /\ new.STRIDE = cb.STRIDE /\ new.NEXTCONBK = cb.NEXTCONBK
    <3> HIDE DEF len, src, dst, cb
    <3> QED BY <1>1 DEF ControlBlocks
  <2>6. /\ ch.cb = new /\ ch.ACTIVE = regs[e].ACTIVE /\ ch.loaded = regs[e].loaded
        /\ ch.CONBLK_AD = regs[e].CONBLK_AD
    <3> HIDE DEF new
    <3> QED BY <1>1 DEF ChannelRegs
  <2> HIDE DEF ch, new, len
  <2>7. regs'[e] = ch /\ \A c \in Channels \ {e} : regs'[c] = regs[c]
    BY <2>2
  <2> QED BY <1>3, <2>1, <2>4, <2>5, <2>6, <2>7
<1>4. CASE EngineMove(e) /\ ~(cb.TXFR_LEN.y > 0)
  <2> DEFINE ch == [ACTIVE |-> cb.NEXTCONBK # 0, CONBLK_AD |-> cb.NEXTCONBK,
                    loaded |-> FALSE, cb |-> BlankBlock]
  <2>1. /\ regs[e].ACTIVE /\ regs[e].loaded /\ cb.TXFR_LEN.y = 0
        /\ regs' = [regs EXCEPT ![e] = ch]
    BY <1>4 DEF EngineMove
  <2>2. regs'[e] = ch /\ \A c \in Channels \ {e} : regs'[c] = regs[c]
    BY <2>1
  <2> QED BY <2>1, <2>2
<1> QED BY <1>2, <1>3, <1>4 DEF EngineStep

\* From a row of a transfer to the next.
LEMMA NextRow ==
  ASSUME NEW p \in PreparedFields, NEW b, NEW b2, NEW done, NEW a,
         RowOf(b, p, done, a), b.TXFR_LEN.y > 0,
         b2.SOURCE_AD = b.SOURCE_AD + b.STRIDE.s, b2.DEST_AD = b.DEST_AD + b.STRIDE.d,
         b2.TI = b.TI, b2.TXFR_LEN.y = b.TXFR_LEN.y - 1, b2.TXFR_LEN.x = b.TXFR_LEN.x,
         b2.STRIDE = b.STRIDE, b2.NEXTCONBK = b.NEXTCONBK
  PROVE  RowOf(b2, p, done + 1, a)
<1>1. /\ p.addr \in Nat /\ p.inc \in Nat /\ p.periphaddr \in Nat /\ p.rows \in Nat
      /\ p.istx \in BOOLEAN
  BY DEF PreparedFields
<1>2. done \in 0 .. p.rows - 1 /\ b.TXFR_LEN.y = p.rows - 1 - done
  BY DEF RowOf
<1>3. /\ done + 1 \in 0 .. p.rows - 1
      /\ b2.TXFR_LEN.y = p.rows - 1 - (done + 1)
  BY <1>1, <1>2
<1>4. p.addr + done * p.inc \in Nat /\ (p.addr + done * p.inc) + p.inc = p.addr + (done + 1) * p.inc
  BY <1>1, <1>2
<1>5. CASE p.istx
  <2>1. /\ b.SOURCE_AD = p.addr + done * p.inc /\ b.DEST_AD = p.periphaddr
        /\ b.STRIDE.s = p.inc /\ b.STRIDE.d = 0
    BY <1>5 DEF RowOf
  <2>2. b2.SOURCE_AD = p.addr + (done + 1) * p.inc /\ b2.DEST_AD = p.periphaddr
    BY <1>1, <1>4, <2>1
  <2> QED BY <1>3, <1>5, <2>2 DEF RowOf
<1>6. CASE ~p.istx
  <2>1. /\ b.DEST_AD = p.addr + done * p.inc /\ b.SOURCE_AD = p.periphaddr
        /\ b.STRIDE.d = p.inc /\ b.STRIDE.s = 0
    BY <1>6 DEF RowOf
  <2>2. b2.DEST_AD = p.addr + (done + 1) * p.inc /\ b2.SOURCE_AD = p.periphaddr
    BY <1>1, <1>4, <2>1
  <2> QED BY <1>3, <1>6, <2>2 DEF RowOf
<1> QED BY <1>5, <1>6

\* The engine fetches what was prepared, moves it row by row, and begins a
\* circular transfer again with the control block it came from.
LEMMA EngineKeeps ==
  ASSUME PlainInv, DmaNext, NEW c \in Channels, Fetches(c), Works(c),
         NEW e \in Channels, EngineStep(e)
  PROVE  Fetches(c)' /\ Works(c)'
<1>1. regs \in [Channels -> ChannelRegs] /\ prepared \in [Channels -> PreparedFields]
  BY DEF PlainInv, DmaTypeOK, PreparedInv
<1>2. UNCHANGED <<bufVars, dmaProcess, memory, prepared>>
  BY DEF EngineStep, EngineLoad, EngineMove
<1>3. /\ starts' = starts /\ object' = object /\ app' = app /\ memory' = memory
      /\ prepared' = prepared
  BY <1>2 DEF bufVars, dmaProcess
<1>4. CASE c # e
  <2>1. regs'[c] = regs[c]
    BY <1>1, <1>4, EngineEffect
  <2>2. InUse(c)' => InUse(c)
    BY <1>3, <2>1 DEF InUse
  <2> QED BY <1>3, <2>1, <2>2, ChannelKept
<1>5. ASSUME c = e, regs'[c].CONBLK_AD = regs[c].CONBLK_AD
      PROVE  Fetches(c)'
  <2>1. InUse(c)
    BY <1>1, <1>5, EngineEffect DEF InUse
  <2>2. Owned(c) => Owned(c)'
    BY <1>2, <1>3, <1>5 DEF Owned, Mine, Orphaned, Within, Foreign, InBuffer, hwdma_bus_address,
                           bufVars, process, dmabuf
  <2> QED BY <1>3, <1>5, <2>1, <2>2 DEF Fetches, RowOf
<1> DEFINE a == regs[c].CONBLK_AD
           p == prepared[c]
           cb == regs[c].cb
           done == p.rows - 1 - cb.TXFR_LEN.y
<1>6. p \in PreparedFields /\ p.rows \in Nat
  BY <1>1 DEF PreparedFields
<1>7. CASE /\ c = e /\ ~regs[e].loaded /\ regs'[e].loaded /\ regs'[e].ACTIVE
           /\ regs[e].CONBLK_AD \in CbAddrs \ {0}
           /\ regs'[e].CONBLK_AD = regs[e].CONBLK_AD
           /\ regs'[e].cb = memory[regs[e].CONBLK_AD]
  <2>1. RowOf(memory[a], p, 0, a) /\ a # 0
    BY <1>1, <1>7, EngineEffect DEF Fetches, InUse
  <2>2. memory[a].TXFR_LEN.y = p.rows - 1 - 0 /\ p.rows - 1 - (p.rows - 1 - 0) = 0
    BY <1>6, <2>1 DEF RowOf
  <2>3. /\ regs'[c].cb = memory[a] /\ regs'[c].CONBLK_AD = a /\ prepared'[c] = p
        /\ p.rows - 1 - memory[a].TXFR_LEN.y = 0
    BY <1>3, <1>7, <2>2
  <2> HIDE DEF a, p
  <2>4. Works(c)'
    BY <1>3, <1>7, <2>1, <2>3 DEF Works, RowOf
  <2> QED BY <1>5, <1>7, <2>4
<1>8. CASE c = e /\ regs[e].loaded
  <2>1. RowOf(cb, p, done, a) /\ a # 0
    BY <1>8 DEF Works
  <2>2. CASE /\ cb.TXFR_LEN.y > 0 /\ regs'[c].loaded /\ regs'[c].ACTIVE
             /\ regs'[c].CONBLK_AD = a
             /\ regs'[c].cb.SOURCE_AD = cb.SOURCE_AD + cb.STRIDE.s
             /\ regs'[c].cb.DEST_AD = cb.DEST_AD + cb.STRIDE.d
             /\ regs'[c].cb.TI = cb.TI
             /\ regs'[c].cb.TXFR_LEN.y = cb.TXFR_LEN.y - 1
             /\ regs'[c].cb.TXFR_LEN.x = cb.TXFR_LEN.x
             /\ regs'[c].cb.STRIDE = cb.STRIDE
             /\ regs'[c].cb.NEXTCONBK = cb.NEXTCONBK
    <3> DEFINE b2 == regs'[c].cb
    <3>1. RowOf(b2, p, done + 1, a)
      <4> HIDE DEF p, done, a, b2, cb
      <4> QED BY <1>6, <2>1, <2>2, NextRow DEF b2
    <3>2. p.rows - 1 - b2.TXFR_LEN.y = done + 1
      <4>1. cb.TXFR_LEN.y \in Nat
        BY <1>6, <2>1, <2>2 DEF RowOf
      <4> QED BY <1>6, <2>2, <4>1
    <3>3. Works(c)'
      <4>1. /\ regs'[c].CONBLK_AD = a /\ prepared'[c] = p
        BY <1>3, <2>2
      <4> HIDE DEF a, p, done
      <4> QED BY <2>1, <2>2, <3>1, <3>2, <4>1 DEF Works, RowOf
    <3> QED BY <1>5, <1>8, <2>2, <3>3
  <2>3. CASE /\ ~regs'[c].loaded /\ (regs'[c].ACTIVE <=> cb.NEXTCONBK # 0)
             /\ regs'[c].CONBLK_AD = cb.NEXTCONBK
    <3>1. cb.NEXTCONBK = IF p.loop THEN a ELSE 0
      BY <2>1 DEF RowOf
    <3>2. Works(c)'
      BY <2>3 DEF Works
    <3>3. CASE p.loop
      BY <1>5, <1>8, <2>3, <3>1, <3>2, <3>3
    <3>4. CASE ~p.loop
      <4>1. regs'[c].CONBLK_AD = 0
        BY <2>3, <3>1, <3>4
      <4> QED BY <3>2, <4>1 DEF Fetches
    <3> QED BY <3>3, <3>4
  <2> QED BY <1>1, <1>8, <2>2, <2>3, EngineEffect
<1> QED BY <1>1, <1>4, <1>7, <1>8, EngineEffect

\* A transfer outlives its process: its control block, and the memory around
\* it, stay locked, and the next process has no handle for it.
LEMMA RestartKeeps ==
  ASSUME PlainInv, BufferBacked, NEW c \in Channels, Fetches(c), Works(c), DmaRestart
  PROVE  Fetches(c)' /\ Works(c)'
<1>1. /\ starts \in Nat /\ IsHistory(prepared[c]) /\ BufTypeOK
      /\ prepared \in [Channels -> PreparedFields]
  BY BufferAssumption DEF PlainInv, DmaTypeOK, BufTypeOK, PreparedInv
<1>2. /\ starts' = starts + 1 /\ regs' = regs /\ memory' = memory /\ prepared' = prepared
      /\ vpu' = vpu /\ g_dmabuf_mem_handle' = 0
      /\ \A o \in Objects : ~object'[o].initialized
  BY DEF DmaRestart, Restart, StartWith, engine, FreshObject
<1>3. prepared'[c].by # starts'
  BY <1>1, <1>2 DEF IsHistory, PreparedFields
<1>4. Works(c)'
  BY <1>2 DEF Works, RowOf
<1>5. ASSUME InUse(c)', regs[c].CONBLK_AD # 0
      PROVE  RowOf(memory[regs[c].CONBLK_AD], prepared[c], 0, regs[c].CONBLK_AD) /\ Owned(c)'
  <2>1. InUse(c)
    BY <1>2, <1>5 DEF InUse
  <2>2. /\ RowOf(memory[regs[c].CONBLK_AD], prepared[c], 0, regs[c].CONBLK_AD)
        /\ Owned(c)
    BY <1>5, <2>1 DEF Fetches
  <2>3. 0 \notin Handles
    BY BufferAssumption
  <2>4. CASE prepared[c].by = starts
    <3>1. PICK o \in Objects : /\ InBuffer(object[o].cb)
                               /\ regs[c].CONBLK_AD = hwdma_bus_address(object[o].cb)
      BY <2>2, <2>4 DEF Owned, Mine
    <3>2. /\ g_dmabuf_mem_handle \in Handles /\ vpu[g_dmabuf_mem_handle] = "locked"
          /\ Within(regs[c].CONBLK_AD, BusOf(g_dmabuf_mem_handle))
      BY <1>1, <3>1, BusInside
    <3>3. Orphaned(c)'
      BY <1>2, <2>3, <3>2 DEF Orphaned, Foreign, Within
    <3> QED BY <1>3, <2>2, <3>3 DEF Owned
  <2>5. CASE prepared[c].by # starts
    <3>1. Orphaned(c)'
      BY <1>2, <2>2, <2>3, <2>5 DEF Owned, Orphaned, Foreign, Within
    <3> QED BY <1>3, <2>2, <3>1 DEF Owned
  <2> QED BY <2>4, <2>5
<1>6. Fetches(c)'
  BY <1>2, <1>5 DEF Fetches, RowOf
<1> QED BY <1>4, <1>6

-----------------------------------------------------------------------------
(* TransferInv is an invariant.                                            *)

\* Nothing is prepared at the start.
LEMMA TransferInvInit == DmaInit => TransferInv
<1> SUFFICES ASSUME DmaInit PROVE TransferInv
  OBVIOUS
<1>1. WrittenInv
  BY DEF DmaInit, Idle, WrittenInv
<1>2. ASSUME NEW c \in Channels PROVE Fetches(c) /\ Works(c)
  <2>1. ~regs[c].ACTIVE /\ ~regs[c].loaded /\ regs[c].CONBLK_AD = 0
    BY DEF DmaInit, ResetChannel
  <2> QED BY <2>1 DEF Fetches, Works
<1> QED BY <1>1, <1>2 DEF TransferInv

\* Every step keeps TransferInv.
LEMMA TransferInvStep ==
  ASSUME CountsFit, PlainInv, BufferBacked, TransferInv, [DmaNext]_dmaVars
  PROVE  TransferInv'
<1>1. CASE DmaNext
  <2>1. WrittenInv'
    BY <1>1, WrittenStep DEF TransferInv
  <2>2. ASSUME NEW c \in Channels PROVE Fetches(c)' /\ Works(c)'
    <3>1. Fetches(c) /\ Works(c) /\ WrittenInv
      BY DEF TransferInv
    <3>2. CASE \/ \E n \in AllocSizes : Allocate(n)
               \/ BufferStep \/ InitAllocate
               \/ \E o \in Objects :
                    \/ \E b \in BOOLEAN, a \in PeriphAddrs : Prepare(o, b, a)
                    \/ \E x \in Transfers(object[o].istx) : PrepareTransfer(o, x)
      BY <1>1, <3>1, <3>2, OtherStepsKeep
    <3>3. CASE \E o \in Objects, n \in ChannelArgs : InitBegin(o, n)
      BY <1>1, <3>1, <3>3, InitBeginKeeps
    <3>4. CASE \E o \in Objects : Enable(o) \/ Disable(o)
      BY <1>1, <3>1, <3>4, EnableKeeps
    <3>5. CASE InitTakeBlock \/ InitRegs
      BY <1>1, <3>1, <3>5, InitTakeBlockKeeps, InitRegsKeeps
    <3>6. CASE WriteField \/ WriteConblk
      BY <1>1, <3>1, <3>6, WriteFieldKeeps, WriteConblkKeeps
    <3>7. CASE DmaRestart
      BY <3>1, <3>7, RestartKeeps
    <3>8. CASE \E e \in Channels : EngineStep(e)
      BY <1>1, <3>1, <3>8, EngineKeeps
    <3> QED BY <1>1, <3>2, <3>3, <3>4, <3>5, <3>6, <3>7, <3>8 DEF DmaNext
  <2> QED BY <2>1, <2>2 DEF TransferInv
<1>2. CASE UNCHANGED dmaVars
  <2>1. /\ UNCHANGED <<starts, vpu, g_dma_buffer, g_dma_buffer_size, g_dmabuf_bus_addr,
                       g_dmabuf_mem_handle, object, app, regs, memory, prepared>>
    BY <1>2 DEF dmaVars, bufVars, process, dmabuf, dmaProcess, engine
  <2>2. WrittenInv'
    BY <2>1 DEF TransferInv, WrittenInv, hwdma_bus_address, ControlBlock, BlockOf, Stride,
                Increment, NextBlock
  <2>3. ASSUME NEW c \in Channels PROVE Fetches(c)' /\ Works(c)'
    BY <2>1 DEF TransferInv, Fetches, Works, InUse, RowOf, Owned, Mine, Orphaned, Foreign,
                Within, InBuffer, hwdma_bus_address
  <2> QED BY <2>2, <2>3 DEF TransferInv
<1> QED BY <1>1, <1>2

\* TransferInv is an invariant of every behaviour in which a mapped buffer is
\* memory from the VPU.
THEOREM TransferCorrect ==
  ASSUME CountsFit
  PROVE  DmaSpec /\ []BufferBacked => []TransferInv
<1>1. TransferInv /\ PlainInv /\ BufferBacked /\ [DmaNext]_dmaVars => TransferInv'
  BY TransferInvStep
<1> QED BY <1>1, TransferInvInit, PlainCorrect, PTL DEF DmaSpec

\* The engine is at the row its client expects: direction, peripheral, width
\* and memory address are those asked for, however the stores of
\* PrepareTransfer and the fetches of the engine fall.
THEOREM RowsCorrect ==
  ASSUME CountsFit
  PROVE  DmaSpec /\ []BufferBacked => []RowsInOrder
<1>1. PlainInv /\ TransferInv => RowsInOrder
  <2> SUFFICES ASSUME PlainInv, TransferInv, NEW c \in Channels, regs[c].loaded
               PROVE  LET p    == prepared[c]
                          done == p.rows - 1 - regs[c].cb.TXFR_LEN.y
                      IN  /\ done \in 0 .. p.rows - 1
                          /\ MemorySide(c) = p.addr + done * p.inc
                          /\ PeriphSide(c) = p.periphaddr
                          /\ regs[c].cb.TI = IF p.istx THEN "DEST_DREQ" ELSE "SRC_DREQ"
    BY DEF RowsInOrder
  <2>1. RowOf(regs[c].cb, prepared[c], prepared[c].rows - 1 - regs[c].cb.TXFR_LEN.y,
              regs[c].CONBLK_AD)
    BY DEF TransferInv, Works
  <2> QED BY <2>1 DEF RowOf, MemorySide, PeriphSide
<1> QED BY <1>1, PlainCorrect, TransferCorrect, PTL

\* Remaining() counts the bytes of the rows still to come.
THEOREM RemainingCorrect ==
  ASSUME CountsFit
  PROVE  DmaSpec /\ []BufferBacked => []RemainingExact
<1>1. PlainInv /\ TransferInv => RemainingExact
  <2> SUFFICES ASSUME PlainInv, TransferInv, NEW c \in Channels, regs[c].loaded
               PROVE  /\ Remaining(c) = prepared[c].bytewidth * (regs[c].cb.TXFR_LEN.y + 1)
                      /\ Remaining(c) \in 1 .. prepared[c].bytewidth * prepared[c].rows
    BY DEF RemainingExact
  <2> DEFINE p == prepared[c]
             y == regs[c].cb.TXFR_LEN.y
  <2>1. RowOf(regs[c].cb, p, p.rows - 1 - y, regs[c].CONBLK_AD)
    BY DEF TransferInv, Works
  <2>2. /\ p.rows \in Nat /\ IsHistory(p) /\ y \in Nat
    BY DmaAssumption DEF PlainInv, PreparedInv, PreparedFields, DmaTypeOK, ChannelRegs,
                         ControlBlocks, TxfrLen
  <2>3. y <= p.rows - 1 /\ p.rows # 0 /\ regs[c].cb.TXFR_LEN.x = p.bytewidth
    BY <2>1, <2>2 DEF RowOf
  <2>4. p.bytewidth \in {1, 2, 4}
    BY <2>2, <2>3, DmaAssumption DEF IsHistory
  <2>5. Remaining(c) = p.bytewidth * y + p.bytewidth
    BY <2>3 DEF Remaining
  <2> HIDE DEF p, y
  <2>6. /\ p.bytewidth * y + p.bytewidth = p.bytewidth * (y + 1)
        /\ p.bytewidth * (y + 1) \in 1 .. p.bytewidth * p.rows
    BY <2>2, <2>3, <2>4
  <2> QED BY <2>5, <2>6 DEF p, y
<1> QED BY <1>1, PlainCorrect, TransferCorrect, PTL

-----------------------------------------------------------------------------
(* The channels do what DmaService promises.                               *)

\* The variables of DmaService.
Modes == [c \in Channels |-> ModeOf(c)]
Lefts == [c \in Channels |-> LeftOf(c)]
AskedOf(c) == [rows |-> prepared[c].rows, loop |-> prepared[c].loop]
AskedAll == [c \in Channels |-> AskedOf(c)]

\* A step that shows on no channel does not show in DmaService.
LEMMA NothingShows ==
  ASSUME \A c \in Channels : /\ ModeOf(c)' = ModeOf(c) /\ LeftOf(c)' = LeftOf(c)
                             /\ AskedOf(c)' = AskedOf(c)
  PROVE  UNCHANGED Service!svcVars
<1>1. Modes' = Modes /\ Lefts' = Lefts /\ AskedAll' = AskedAll
  BY DEF Modes, Lefts, AskedAll
<1> QED BY <1>1 DEF Service!svcVars, Modes, Lefts, AskedAll, AskedOf

\* What shows of a channel depends on its registers and its history.
LEMMA SameShows ==
  ASSUME NEW c \in Channels, prepared'[c] = prepared[c], regs'[c] = regs[c]
  PROVE  ModeOf(c)' = ModeOf(c) /\ LeftOf(c)' = LeftOf(c) /\ AskedOf(c)' = AskedOf(c)
BY DEF ModeOf, LeftOf, AskedOf

\* A step that shows on one channel.
LEMMA OneShows ==
  ASSUME NEW e \in Channels,
         \A c \in Channels \ {e} : prepared'[c] = prepared[c] /\ regs'[c] = regs[c]
  PROVE  /\ Modes' = [Modes EXCEPT ![e] = ModeOf(e)']
         /\ Lefts' = [Lefts EXCEPT ![e] = LeftOf(e)']
         /\ AskedAll' = [AskedAll EXCEPT ![e] = AskedOf(e)']
<1>1. \A c \in Channels \ {e} : /\ ModeOf(c)' = ModeOf(c) /\ LeftOf(c)' = LeftOf(c)
                                /\ AskedOf(c)' = AskedOf(c)
  BY SameShows
<1> QED BY <1>1 DEF Modes, Lefts, AskedAll

\* The steps of DmaService on channel e, from what shows of it.
LEMMA ServiceSteps ==
  ASSUME NEW e \in Channels,
         \A c \in Channels \ {e} : prepared'[c] = prepared[c] /\ regs'[c] = regs[c]
  PROVE  /\ ModeOf(e) # "running" /\ ModeOf(e)' = "stopped" /\ prepared'[e].loop \in BOOLEAN
            /\ prepared'[e].rows \in Counts \ {0} /\ LeftOf(e)' = prepared'[e].rows
              => Service!SvcNext
         /\ ModeOf(e) = "stopped" /\ ModeOf(e)' = "running" /\ LeftOf(e)' = LeftOf(e)
            /\ AskedOf(e)' = AskedOf(e) => Service!SvcNext
         /\ ModeOf(e) = "running" /\ ModeOf(e)' = "stopped" /\ LeftOf(e)' = LeftOf(e)
            /\ AskedOf(e)' = AskedOf(e) => Service!SvcNext
         /\ ModeOf(e)' = "idle" /\ LeftOf(e)' = 0 /\ AskedOf(e)' = [rows |-> 0, loop |-> FALSE]
              => Service!SvcNext
         /\ ModeOf(e) = "running" /\ AskedOf(e)' = AskedOf(e)
            /\ ( \/ ModeOf(e)' = "running" /\ LeftOf(e) > 1 /\ LeftOf(e)' = LeftOf(e) - 1
                 \/ ModeOf(e)' = "running" /\ LeftOf(e) = 1 /\ prepared[e].loop
                    /\ LeftOf(e)' = prepared[e].rows
                 \/ ModeOf(e)' = "idle" /\ LeftOf(e) = 1 /\ ~prepared[e].loop
                    /\ LeftOf(e)' = 0 )
              => Service!SvcNext
<1>1. /\ Modes' = [Modes EXCEPT ![e] = ModeOf(e)']
      /\ Lefts' = [Lefts EXCEPT ![e] = LeftOf(e)']
      /\ AskedAll' = [AskedAll EXCEPT ![e] = AskedOf(e)']
      /\ Modes[e] = ModeOf(e) /\ Lefts[e] = LeftOf(e) /\ AskedAll[e] = AskedOf(e)
  BY OneShows DEF Modes, Lefts, AskedAll
<1>2. ASSUME ModeOf(e) # "running", ModeOf(e)' = "stopped", prepared'[e].loop \in BOOLEAN,
             prepared'[e].rows \in Counts \ {0}, LeftOf(e)' = prepared'[e].rows
      PROVE  Service!SvcNext
  <2>1. PICK r \in [rows : Counts \ {0}, loop : BOOLEAN] :
          r = AskedOf(e)' /\ r.rows = prepared'[e].rows
    <3> DEFINE r0 == [rows |-> prepared'[e].rows, loop |-> prepared'[e].loop]
    <3>1. AskedOf(e)' = r0
      BY DEF AskedOf
    <3>2. r0 \in [rows : Counts \ {0}, loop : BOOLEAN] /\ r0.rows = prepared'[e].rows
      BY <1>2
    <3> HIDE DEF r0
    <3> QED BY <3>1, <3>2
  <2>2. Service!Prepare(e, r)
    BY <1>1, <1>2, <2>1 DEF Service!Prepare, Modes, Lefts, AskedAll, AskedOf
  <2> QED BY <2>1, <2>2 DEF Service!SvcNext
<1>3. ASSUME ModeOf(e) = "stopped", ModeOf(e)' = "running", LeftOf(e)' = LeftOf(e),
             AskedOf(e)' = AskedOf(e)
      PROVE  Service!SvcNext
  <2>1. Lefts' = Lefts /\ AskedAll' = AskedAll
    BY <1>1, <1>3 DEF Lefts, AskedAll
  <2>2. Service!Start(e)
    BY <1>1, <1>3, <2>1 DEF Service!Start, Modes, Lefts, AskedAll, AskedOf
  <2> QED BY <2>2 DEF Service!SvcNext
<1>4. ASSUME ModeOf(e) = "running", ModeOf(e)' = "stopped", LeftOf(e)' = LeftOf(e),
             AskedOf(e)' = AskedOf(e)
      PROVE  Service!SvcNext
  <2>1. Lefts' = Lefts /\ AskedAll' = AskedAll
    BY <1>1, <1>4 DEF Lefts, AskedAll
  <2>2. Service!Stop(e)
    BY <1>1, <1>4, <2>1 DEF Service!Stop, Modes, Lefts, AskedAll, AskedOf
  <2> QED BY <2>2 DEF Service!SvcNext
<1>5. ASSUME ModeOf(e)' = "idle", LeftOf(e)' = 0, AskedOf(e)' = [rows |-> 0, loop |-> FALSE]
      PROVE  Service!SvcNext
  <2>1. Service!Reset(e)
    BY <1>1, <1>5 DEF Service!Reset, Modes, Lefts, AskedAll, AskedOf
  <2> QED BY <2>1 DEF Service!SvcNext
<1>6. ASSUME ModeOf(e) = "running", AskedOf(e)' = AskedOf(e),
             \/ ModeOf(e)' = "running" /\ LeftOf(e) > 1 /\ LeftOf(e)' = LeftOf(e) - 1
             \/ /\ ModeOf(e)' = "running" /\ LeftOf(e) = 1 /\ prepared[e].loop
                /\ LeftOf(e)' = prepared[e].rows
             \/ ModeOf(e)' = "idle" /\ LeftOf(e) = 1 /\ ~prepared[e].loop /\ LeftOf(e)' = 0
      PROVE  Service!SvcNext
  <2>1. AskedAll' = AskedAll /\ (ModeOf(e)' = "running" => Modes' = Modes)
    BY <1>1, <1>6 DEF AskedAll, Modes
  <2>2. Service!Move(e)
    BY <1>1, <1>6, <2>1 DEF Service!Move, Modes, Lefts, AskedAll, AskedOf
  <2> QED BY <2>2 DEF Service!SvcNext
<1> QED BY <1>2, <1>3, <1>4, <1>5, <1>6

\* A control block is prepared and the channel pointed at it: the whole of
\* PrepareTransfer is one step of the service.
LEMMA WriteConblkServes ==
  ASSUME PlainInv, BufferBacked, WriteConblk
  PROVE  Service!SvcNext
<1>1. /\ object \in [Objects -> ObjectFields] /\ app \in Apps /\ CallsInv /\ BufTypeOK
      /\ regs \in [Channels -> ChannelRegs] /\ InitializedHasBlock
      /\ prepared \in [Channels -> PreparedFields]
  BY DEF PlainInv, DmaTypeOK, CallsInv, PreparedInv
<1>2. /\ app.o \in Objects /\ app.at = "prepare" /\ app.written = 6 /\ app.xfer \in Asked
  BY <1>1, AppFields, SixFields DEF WriteConblk
<1> DEFINE d == object[app.o]
<1>3. /\ d \in ObjectFields /\ d.chnum \in Channels /\ Quiet(d.chnum) /\ InBuffer(d.cb)
  BY <1>1, <1>2 DEF CallsInv, InitializedHasBlock
<1>4. PICK e \in Channels : e = d.chnum
  BY <1>3
<1>5. PICK a : a = hwdma_bus_address(d.cb)
  OBVIOUS
<1>6. PICK p : p = AsPrepared(d, app.xfer)
  OBVIOUS
<1>7. a # 0
  BY <1>1, <1>3, <1>5, BusInside
<1>8. /\ regs' = [regs EXCEPT ![e].CONBLK_AD = a]
      /\ prepared' = [prepared EXCEPT ![e] = p]
  BY <1>4, <1>5, <1>6 DEF WriteConblk
<1>9. p.rows \in Counts \ {0} /\ p.loop \in BOOLEAN
  BY <1>2, <1>6 DEF AsPrepared, Asked
<1>10. Quiet(e)
  BY <1>3, <1>4
<1>11. /\ ~regs'[e].ACTIVE /\ ~regs'[e].loaded /\ regs'[e].CONBLK_AD = a
       /\ ~regs[e].ACTIVE /\ prepared'[e] = p
       /\ \A c \in Channels \ {e} : prepared'[c] = prepared[c] /\ regs'[c] = regs[c]
  BY <1>1, <1>8, <1>10 DEF Quiet, ChannelRegs
<1>12. ModeOf(e) # "running" /\ ModeOf(e)' = "stopped" /\ LeftOf(e)' = prepared'[e].rows
  BY <1>7, <1>11 DEF ModeOf, LeftOf
<1> QED BY <1>9, <1>11, <1>12, ServiceSteps

\* Start and stop: a channel that works, or has nothing to do, stays as it is.
LEMMA EnableServes ==
  ASSUME PlainInv, NEW o \in Objects, Works(object[o].chnum), Enable(o) \/ Disable(o)
  PROVE  Service!SvcNext \/ UNCHANGED Service!svcVars
<1>1. /\ regs \in [Channels -> ChannelRegs] /\ InitializedHasBlock
  BY DEF PlainInv, DmaTypeOK
<1>2. PICK e \in Channels : e = object[o].chnum
  BY <1>1 DEF Enable, Disable, Ready, InitializedHasBlock
<1>3. /\ regs'[e].loaded = regs[e].loaded /\ regs'[e].CONBLK_AD = regs[e].CONBLK_AD
      /\ regs'[e].cb = regs[e].cb /\ prepared' = prepared
      /\ \A c \in Channels \ {e} : regs'[c] = regs[c]
      /\ \/ regs'[e].ACTIVE <=> regs[e].loaded \/ regs[e].CONBLK_AD # 0
         \/ ~regs'[e].ACTIVE
  BY <1>1, <1>2 DEF Enable, Disable, ChannelRegs
<1>4. regs[e].ACTIVE => regs[e].loaded \/ regs[e].CONBLK_AD # 0
  BY <1>2 DEF Works
<1>5. LeftOf(e)' = LeftOf(e) /\ AskedOf(e)' = AskedOf(e)
  BY <1>3 DEF LeftOf, AskedOf
<1>6. CASE regs'[e].ACTIVE <=> regs[e].ACTIVE
  <2>1. ModeOf(e)' = ModeOf(e)
    BY <1>3, <1>6 DEF ModeOf
  <2> QED BY <1>3, <1>5, <2>1, SameShows, NothingShows
<1>7. CASE regs'[e].ACTIVE /\ ~regs[e].ACTIVE
  <2>1. ModeOf(e) = "stopped" /\ ModeOf(e)' = "running"
    BY <1>3, <1>7 DEF ModeOf
  <2> QED BY <1>2, <1>3, <1>5, <2>1, ServiceSteps
<1>8. CASE ~regs'[e].ACTIVE /\ regs[e].ACTIVE
  <2>1. ModeOf(e) = "running" /\ ModeOf(e)' = "stopped"
    BY <1>3, <1>4, <1>8 DEF ModeOf
  <2> QED BY <1>2, <1>3, <1>5, <2>1, ServiceSteps
<1> QED BY <1>6, <1>7, <1>8

\* The engine: fetching shows nothing, a row moved is a step of the service,
\* and so is the end of a transfer, circular or not.
LEMMA EngineServes ==
  ASSUME PlainInv, NEW e \in Channels, Fetches(e), Works(e), EngineStep(e)
  PROVE  Service!SvcNext \/ UNCHANGED Service!svcVars
<1>1. regs \in [Channels -> ChannelRegs] /\ prepared \in [Channels -> PreparedFields]
  BY DEF PlainInv, DmaTypeOK, PreparedInv
<1>2. prepared' = prepared /\ prepared[e].rows \in Nat
  BY <1>1 DEF EngineStep, EngineLoad, EngineMove, PreparedFields
<1>3. /\ \A c \in Channels \ {e} : prepared'[c] = prepared[c] /\ regs'[c] = regs[c]
      /\ regs[e].ACTIVE
  BY <1>1, <1>2, EngineEffect
<1>4. AskedOf(e)' = AskedOf(e) /\ ModeOf(e) = "running"
  BY <1>2, <1>3 DEF AskedOf, ModeOf
<1>5. CASE /\ ~regs[e].loaded /\ regs'[e].loaded /\ regs'[e].ACTIVE
           /\ regs[e].CONBLK_AD \in CbAddrs \ {0}
           /\ regs'[e].cb = memory[regs[e].CONBLK_AD]
  <2>1. memory[regs[e].CONBLK_AD].TXFR_LEN.y = prepared[e].rows - 1 - 0
    BY <1>3, <1>5 DEF Fetches, InUse, RowOf
  <2>2. ModeOf(e)' = ModeOf(e)
    BY <1>3, <1>5 DEF ModeOf
  <2>3. LeftOf(e) = prepared[e].rows
    BY <1>5 DEF LeftOf
  <2>4. LeftOf(e)' = (prepared[e].rows - 1 - 0) + 1
    BY <1>5, <2>1 DEF LeftOf
  <2>5. LeftOf(e)' = LeftOf(e)
    BY <1>2, <2>3, <2>4
  <2> QED BY <1>3, <1>4, <2>2, <2>5, SameShows, NothingShows
<1>6. CASE regs[e].loaded
  <2>1. /\ RowOf(regs[e].cb, prepared[e], prepared[e].rows - 1 - regs[e].cb.TXFR_LEN.y,
                 regs[e].CONBLK_AD)
        /\ regs[e].CONBLK_AD # 0
    BY <1>6 DEF Works
  <2>2. LeftOf(e) = regs[e].cb.TXFR_LEN.y + 1
    BY <1>6 DEF LeftOf
  <2>3. CASE /\ regs[e].cb.TXFR_LEN.y > 0 /\ regs'[e].loaded /\ regs'[e].ACTIVE
             /\ regs'[e].cb.TXFR_LEN.y = regs[e].cb.TXFR_LEN.y - 1
    <3>1. regs[e].cb.TXFR_LEN.y \in Nat
      BY <1>1, DmaAssumption DEF ChannelRegs, ControlBlocks, TxfrLen
    <3>2. LeftOf(e)' = (regs[e].cb.TXFR_LEN.y - 1) + 1 /\ ModeOf(e)' = "running"
      BY <2>3 DEF LeftOf, ModeOf
    <3>3. LeftOf(e) > 1 /\ LeftOf(e)' = LeftOf(e) - 1
      BY <2>2, <2>3, <3>1, <3>2
    <3> QED BY <1>3, <1>4, <3>2, <3>3, ServiceSteps
  <2>4. CASE /\ regs[e].cb.TXFR_LEN.y = 0 /\ ~regs'[e].loaded
             /\ regs'[e].ACTIVE <=> regs[e].cb.NEXTCONBK # 0
             /\ regs'[e].CONBLK_AD = regs[e].cb.NEXTCONBK
    <3>1. regs[e].cb.NEXTCONBK = IF prepared[e].loop THEN regs[e].CONBLK_AD ELSE 0
      BY <2>1 DEF RowOf
    <3>2. LeftOf(e) = 1
      BY <2>2, <2>4
    <3>3. CASE prepared[e].loop
      <4>1. ModeOf(e)' = "running" /\ LeftOf(e)' = prepared[e].rows
        BY <1>2, <2>1, <2>4, <3>1, <3>3 DEF ModeOf, LeftOf
      <4> QED BY <1>3, <1>4, <3>2, <3>3, <4>1, ServiceSteps
    <3>4. CASE ~prepared[e].loop
      <4>1. ModeOf(e)' = "idle" /\ LeftOf(e)' = 0
        BY <2>4, <3>1, <3>4 DEF ModeOf, LeftOf
      <4> QED BY <1>3, <1>4, <3>2, <3>4, <4>1, ServiceSteps
    <3> QED BY <3>3, <3>4
  <2> QED BY <1>1, <1>6, <2>3, <2>4, EngineEffect
<1> QED BY <1>1, <1>5, <1>6, EngineEffect

\* Every step is one of the service, or does not show in it.
LEMMA ServiceStep ==
  ASSUME PlainInv, BufferBacked, TransferInv, [DmaNext]_dmaVars
  PROVE  [Service!SvcNext]_(Service!svcVars)
<1>1. CASE UNCHANGED <<regs, prepared>>
  BY <1>1, SameShows, NothingShows
<1>2. CASE DmaNext
  <2>1. CASE \/ \E n \in AllocSizes : Allocate(n)
             \/ BufferStep \/ InitAllocate \/ InitTakeBlock \/ WriteField \/ DmaRestart
             \/ \E o \in Objects :
                  \/ \E n \in ChannelArgs : InitBegin(o, n)
                  \/ \E b \in BOOLEAN, a \in PeriphAddrs : Prepare(o, b, a)
                  \/ \E x \in Transfers(object[o].istx) : PrepareTransfer(o, x)
    <3>1. UNCHANGED <<regs, prepared>>
      <4>1. CASE \/ \E n \in AllocSizes : Allocate(n)
                 \/ BufferStep \/ InitAllocate \/ InitTakeBlock \/ WriteField \/ DmaRestart
        BY <4>1 DEF Allocate, BufferStep, InitAllocate, InitTakeBlock, TakeBlock, WriteField,
                    DmaRestart, engine
      <4>2. CASE \E o \in Objects :
                   \/ \E n \in ChannelArgs : InitBegin(o, n)
                   \/ \E b \in BOOLEAN, a \in PeriphAddrs : Prepare(o, b, a)
                   \/ \E x \in Transfers(object[o].istx) : PrepareTransfer(o, x)
        BY <4>2 DEF InitBegin, InitWithin, Prepare, PrepareTransfer, engine
      <4> QED BY <2>1, <4>1, <4>2
    <3> QED BY <1>1, <3>1
  <2>2. CASE InitRegs
    <3> DEFINE d == object[app.o].chnum
    <3>1. CASE UNCHANGED <<regs, prepared>>
      BY <1>1, <3>1
    <3>2. CASE /\ regs' = [c \in Channels |-> IF c \in {d} THEN ResetChannel ELSE regs[c]]
               /\ prepared' = [prepared EXCEPT ![d] = NothingPrepared]
      <4>1. /\ d \in Channels /\ prepared \in [Channels -> PreparedFields]
        BY <2>2, AppFields DEF InitRegs, Reset, PlainInv, CallsInv, PreparedInv
      <4> PICK e \in Channels : e = d
        BY <4>1
      <4>2. /\ regs'[e] = ResetChannel /\ prepared'[e] = NothingPrepared
            /\ \A c \in Channels \ {e} : prepared'[c] = prepared[c] /\ regs'[c] = regs[c]
        BY <3>2, <4>1
      <4>3. /\ ModeOf(e)' = "idle" /\ LeftOf(e)' = 0
            /\ AskedOf(e)' = [rows |-> 0, loop |-> FALSE]
        BY <4>2 DEF ModeOf, LeftOf, AskedOf, ResetChannel, NothingPrepared
      <4> QED BY <4>1, <4>2, <4>3, ServiceSteps
    <3> QED BY <2>2, <3>1, <3>2 DEF InitRegs, Reset
  <2>3. CASE WriteConblk
    BY <2>3, WriteConblkServes
  <2>4. CASE \E o \in Objects : Enable(o) \/ Disable(o)
    <3>1. PICK o \in Objects : Enable(o) \/ Disable(o)
      BY <2>4
    <3>2. object[o].chnum \in Channels
      BY <3>1 DEF Enable, Disable, Ready, PlainInv, InitializedHasBlock
    <3>3. Works(object[o].chnum)
      BY <3>2 DEF TransferInv
    <3> QED BY <3>1, <3>3, EnableServes
  <2>5. CASE \E e \in Channels : EngineStep(e)
    BY <2>5, EngineServes DEF TransferInv
  <2> QED BY <1>2, <2>1, <2>2, <2>3, <2>4, <2>5 DEF DmaNext
<1>3. CASE UNCHANGED dmaVars
  BY <1>1, <1>3 DEF dmaVars, engine
<1> QED BY <1>2, <1>3

\* The channels, with control blocks written field by field and fetched by an
\* engine that runs beside the process, do what DmaService promises.
THEOREM ServiceCorrect ==
  ASSUME CountsFit
  PROVE  DmaSpec /\ []BufferBacked => ServiceSafety
<1>1. DmaInit => Service!SvcInit
  <2> SUFFICES ASSUME DmaInit PROVE Service!SvcInit
    OBVIOUS
  <2>1. \A c \in Channels : regs[c] = ResetChannel /\ prepared[c] = NothingPrepared
    BY DEF DmaInit
  <2>2. \A c \in Channels :
          /\ ModeOf(c) = "idle" /\ LeftOf(c) = 0
          /\ prepared[c].rows = 0 /\ prepared[c].loop = FALSE
    BY <2>1 DEF ModeOf, LeftOf, ResetChannel, NothingPrepared
  <2> QED BY <2>2 DEF Service!SvcInit
<1>2. PlainInv /\ BufferBacked /\ TransferInv /\ [DmaNext]_dmaVars =>
        [Service!SvcNext]_(Service!svcVars)
  BY ServiceStep
<1> QED BY <1>1, <1>2, PlainCorrect, TransferCorrect, PTL DEF DmaSpec, ServiceSafety
=============================================================================
