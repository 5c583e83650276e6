-------------------------- MODULE HwDmaDataProofs --------------------------
(***************************************************************************)
(* Theorems about the memory that the transfers of HwDma touch: a piece of *)
(* the client's while the process lives, and never the buffer of a later   *)
(* process.  They hold when clients pass addresses that the allocator gave *)
(* them (ForeignAddrs is empty), and a mapped buffer is memory the VPU     *)
(* gave (BufferBacked): the code checks neither.                           *)
(***************************************************************************)
EXTENDS HwDmaTransferProofs

-----------------------------------------------------------------------------
(* The inductive invariant.                                                *)

\* Pieces that hold no control block and will not be taken for one.
ClientBlocks ==
  {b \in DataBlocks : ~(app.at = "initcb" /\ pc = "idle" /\ b.ptr = ret)}

\* A transfer of rows at bus address addr fits a piece of its client.
FitsPiece(addr, inc, rows, bytewidth) ==
  \E b \in ClientBlocks :
    addr = hwdma_bus_address(b.ptr) /\ inc * (rows - 1) + bytewidth <= b.len

\* ... or memory that an earlier process left locked, or, its address being 0,
\* the size of the buffer.
FitsOrphan(addr, inc, rows, bytewidth) ==
  \E base \in {0} \cup {BusOf(h) : h \in {k \in Handles : Foreign(k)}} :
    base <= addr /\ addr + inc * (rows - 1) + bytewidth <= base + HWDMA_BUFFER_SIZE

\* The memory side of what is being prepared, and of what was.
DataInv ==
  /\ \A b \in blocks : b.ptr # NULL
  /\ app.at = "prepare" =>
       FitsPiece(hwdma_bus_address(app.xfer.addr), Increment(object[app.o].istx, app.xfer),
                 app.xfer.count, app.xfer.bytewidth)
  /\ \A c \in Channels : prepared[c].by # 0 =>
       IF prepared[c].by = starts
         THEN /\ g_dma_buffer # NULL
              /\ FitsPiece(prepared[c].addr, prepared[c].inc, prepared[c].rows,
                           prepared[c].bytewidth)
         ELSE FitsOrphan(prepared[c].addr, prepared[c].inc, prepared[c].rows,
                         prepared[c].bytewidth)

-----------------------------------------------------------------------------
(* The memory that transfers touch.                                        *)

\* The memory side of a transfer is not empty.
LEMMA NotEmpty ==
  /\ \A p \in PreparedFields : IsHistory(p) /\ p.by # 0 =>
       /\ p.inc \in Nat /\ p.rows \in Nat \ {0} /\ p.bytewidth \in {1, 2, 4}
       /\ p.inc * (p.rows - 1) \in Nat
  /\ \A d \in ObjectFields, x \in Asked :
       /\ Increment(d.istx, x) \in Nat /\ x.count \in Nat \ {0} /\ x.bytewidth \in {1, 2, 4}
       /\ Increment(d.istx, x) * (x.count - 1) \in Nat
<1>1. ASSUME NEW p \in PreparedFields, IsHistory(p), p.by # 0
      PROVE  /\ p.inc \in Nat /\ p.rows \in Nat \ {0} /\ p.bytewidth \in {1, 2, 4}
             /\ p.inc * (p.rows - 1) \in Nat
  <2>1. p.inc \in Nat
    BY DEF PreparedFields
  <2>2. p.rows \in Nat \ {0} /\ p.bytewidth \in {1, 2, 4}
    BY <1>1, DmaAssumption DEF IsHistory
  <2> QED BY <2>1, <2>2
<1>2. ASSUME NEW d \in ObjectFields, NEW x \in Asked
      PROVE  /\ Increment(d.istx, x) \in Nat /\ x.count \in Nat \ {0}
             /\ x.bytewidth \in {1, 2, 4} /\ Increment(d.istx, x) * (x.count - 1) \in Nat
  <2>1. x.count \in Nat \ {0} /\ x.bytewidth \in {1, 2, 4}
    BY DmaAssumption DEF Asked
  <2>2. Increment(d.istx, x) \in Nat
    BY <2>1 DEF Increment
  <2> QED BY <2>1, <2>2
<1> QED BY <1>1, <1>2

\* Pieces are added by the allocator, above the others, and never at NULL.
LEMMA PiecesAdded ==
  ASSUME PlainInv, DmaNext, starts' = starts
  PROVE  /\ blocks \subseteq blocks'
         /\ \A b \in blocks' \ blocks : b.ptr # NULL
         /\ \/ ret' = ret /\ (app'.at = "initcb" /\ pc' = "idle" => app.at = "initcb" /\ pc = "idle")
            \/ ret' = NULL \/ \A b \in blocks : b.ptr + b.len <= ret'
<1>1. BufTypeOK /\ AllocatorInv /\ starts \in Nat /\ CallsInv /\ app \in Apps
  BY BufferAssumption DEF PlainInv, DmaTypeOK, BufTypeOK, CallsInv
<1>2. CASE Bump
  <2>1. \/ ret' = NULL \/ ret' = g_dma_buffer + g_dma_buffer_allocated
    BY <1>2 DEF Bump, GiveOut
  <2>2. blocks \subseteq blocks' /\ \A b \in blocks' \ blocks : b.ptr # NULL
    BY <1>2 DEF Bump, GiveOut
  <2> QED BY <1>1, <2>1, <2>2, PiecesBelow
<1>3. CASE BufferStep /\ (AllocVpuMem \/ LockVpuMem \/ MapBuffer)
  <2>1. UNCHANGED allocator /\ app' = app /\ pc # "idle"
    BY <1>3 DEF BufferStep, AllocVpuMem, LockVpuMem, StoreAddresses, MapBuffer, dmaProcess
  <2>2. app.at = "initcb" => pc' # "idle"
    BY <1>1, <1>3 DEF CallsInv, AllocVpuMem, LockVpuMem, StoreAddresses, MapBuffer, AfterInit
  <2> QED BY <2>1, <2>2 DEF allocator
<1>4. CASE InitAllocate
  <2>1. UNCHANGED allocator
    BY <1>4 DEF InitAllocate, bufVars, process, Call, CallWith
  <2>2. app'.at = "initcb" => pc' # "idle"
    <3>1. app.at = "init" /\ app \in [at : {"init", "initcb", "initregs"}, o : Objects]
      BY <1>1, <1>4, AppFields DEF InitAllocate
    <3>2. CASE Call("allocate", CbSize)
      BY <3>2 DEF Call, CallWith, AfterInit
    <3>3. CASE app' = [app EXCEPT !.at = "initregs"]
      BY <3>1, <3>3
    <3> QED BY <1>4, <3>2, <3>3 DEF InitAllocate
  <2> QED BY <2>1, <2>2 DEF allocator
<1>5. CASE InitTakeBlock
  <2>1. app \in [at : {"init", "initcb", "initregs"}, o : Objects]
    BY <1>1, <1>5, AppFields DEF InitTakeBlock, TakeBlock
  <2>2. UNCHANGED allocator /\ app'.at # "initcb"
    BY <1>5, <2>1 DEF InitTakeBlock, TakeBlock, bufVars, process, Idle
  <2> QED BY <2>2 DEF allocator
<1>6. CASE \/ \E n \in AllocSizes : Allocate(n)
           \/ \E o \in Objects, n \in ChannelArgs : InitBegin(o, n)
  <2>1. UNCHANGED allocator /\ app'.at # "initcb"
    <3>1. CASE \E n \in AllocSizes : Allocate(n)
      BY <3>1 DEF Allocate, Call, CallWith, dmaProcess, Free, Idle
    <3>2. CASE \E o \in Objects, n \in ChannelArgs : InitBegin(o, n)
      BY <3>2 DEF InitBegin, InitWithin, bufVars, process, Call, CallWith, Free, Idle
    <3> QED BY <1>6, <3>1, <3>2
  <2> QED BY <2>1 DEF allocator
<1>7. CASE InitRegs \/ WriteField \/ WriteConblk
  <2>1. UNCHANGED allocator
    BY <1>7 DEF InitRegs, Reset, WriteField, WriteConblk, bufVars, process
  <2>2. app'.at # "initcb"
    <3>1. CASE InitRegs \/ WriteConblk
      BY <3>1 DEF InitRegs, Reset, WriteConblk, Idle
    <3>2. CASE WriteField
      <4>1. app \in [at : {"prepare"}, o : Objects, xfer : Asked, written : 0 .. 6]
        BY <1>1, <3>2, AppFields DEF WriteField
      <4> QED BY <3>2, <4>1 DEF WriteField
    <3> QED BY <1>7, <3>1, <3>2
  <2> QED BY <2>1, <2>2 DEF allocator
<1>8. CASE \E o \in Objects : \/ \E b \in BOOLEAN, a \in PeriphAddrs : Prepare(o, b, a)
                              \/ \E x \in Transfers(object[o].istx) : PrepareTransfer(o, x)
                              \/ Enable(o) \/ Disable(o)
  <2>1. UNCHANGED allocator /\ app'.at # "initcb"
    <3>1. CASE \E o \in Objects, b \in BOOLEAN, a \in PeriphAddrs : Prepare(o, b, a)
      BY <3>1 DEF Prepare, Free, Idle, bufVars, process
    <3>2. CASE \E o \in Objects : \E x \in Transfers(object[o].istx) : PrepareTransfer(o, x)
      BY <3>2 DEF PrepareTransfer, bufVars, process
    <3>3. CASE \E o \in Objects : Enable(o) \/ Disable(o)
      BY <3>3 DEF Enable, Disable, Ready, Free, Idle, dmaProcess, bufVars, process
    <3> QED BY <1>8, <3>1, <3>2, <3>3
  <2> QED BY <2>1 DEF allocator
<1>9. CASE \E c \in Channels : EngineStep(c)
  BY <1>9 DEF EngineStep, EngineLoad, EngineMove, dmaProcess, bufVars, process, allocator
<1>10. ~DmaRestart
  BY <1>1 DEF DmaRestart, Restart, StartWith
<1> QED BY <1>2, <1>3, <1>4, <1>5, <1>6, <1>7, <1>8, <1>9, <1>10
        DEF DmaNext, BufferStep, BufStep

\* An object gets its control block in InitTakeBlock, and nowhere else, while the
\* process goes on.
LEMMA CbKept ==
  ASSUME PlainInv, DmaNext, starts' = starts, ~InitTakeBlock, NEW p \in Objects
  PROVE  object'[p].cb = object[p].cb
<1>1. object \in [Objects -> ObjectFields] /\ app \in Apps /\ starts \in Nat
  BY BufferAssumption DEF PlainInv, DmaTypeOK, BufTypeOK, CallsInv
<1>2. CASE object' = object
  BY <1>2
<1>3. CASE \E o \in Objects, n \in ChannelArgs : InitBegin(o, n)
  BY <1>1, <1>3 DEF InitBegin, InitWithin, ObjectFields
<1>4. CASE \E o \in Objects, b \in BOOLEAN, a \in PeriphAddrs : Prepare(o, b, a)
  BY <1>1, <1>4 DEF Prepare, ObjectFields
<1>5. CASE InitRegs
  BY <1>1, <1>5, AppFields DEF InitRegs, Reset, ObjectFields
<1>6. CASE \E o \in Objects : \/ \E x \in Transfers(object[o].istx) : PrepareTransfer(o, x)
                              \/ Enable(o) \/ Disable(o)
  BY <1>2, <1>6 DEF PrepareTransfer, Enable, Disable, dmaProcess
<1>7. CASE \/ \E n \in AllocSizes : Allocate(n)
           \/ BufferStep \/ InitAllocate \/ WriteField \/ WriteConblk
           \/ \E c \in Channels : EngineStep(c)
  BY <1>2, <1>7 DEF Allocate, BufferStep, InitAllocate, WriteField, WriteConblk, EngineStep,
                    EngineLoad, EngineMove, dmaProcess
<1>8. ~DmaRestart
  BY <1>1 DEF DmaRestart, Restart, StartWith
<1> QED BY <1>3, <1>4, <1>5, <1>6, <1>7, <1>8 DEF DmaNext

\* A transfer goes on fitting its piece while the process does.
LEMMA FitsKept ==
  ASSUME PlainInv, DataInv, DmaNext, starts' = starts,
         UNCHANGED <<g_dma_buffer, g_dma_buffer_size, g_dmabuf_bus_addr>>,
         NEW addr, NEW inc \in Nat, NEW rows \in Nat \ {0}, NEW bytewidth \in {1, 2, 4},
         FitsPiece(addr, inc, rows, bytewidth)
  PROVE  FitsPiece(addr, inc, rows, bytewidth)'
<1>1. PICK b \in ClientBlocks : /\ addr = hwdma_bus_address(b.ptr)
                               /\ inc * (rows - 1) + bytewidth <= b.len
  BY DEF FitsPiece
<1>2. /\ b \in blocks /\ b.ptr \in Nat /\ b.len \in Nat /\ b.ptr # NULL
      /\ object \in [Objects -> ObjectFields] /\ app \in Apps
  BY <1>1 DEF ClientBlocks, DataBlocks, DataInv, PlainInv, DmaTypeOK, BufTypeOK, Blocks, CallsInv
<1>3. b.len > 0
  <2>1. inc * (rows - 1) \in Nat
    OBVIOUS
  <2> QED BY <1>1, <1>2, <2>1
<1>4. b \in blocks'
  BY <1>2, PiecesAdded
<1>5. \A o \in Objects : object[o].cb # b.ptr
  BY <1>1 DEF ClientBlocks, DataBlocks
<1>6. \A o \in Objects : object'[o].cb # b.ptr
  <2>1. CASE InitTakeBlock
    <3>1. b.ptr # ret
      BY <1>1, <2>1 DEF ClientBlocks, InitTakeBlock, TakeBlock
    <3>2. \A o \in Objects : object'[o].cb \in {object[o].cb, ret}
      BY <1>2, <2>1 DEF InitTakeBlock, TakeBlock, ObjectFields
    <3> QED BY <1>5, <3>1, <3>2
  <2>2. CASE ~InitTakeBlock
    <3>1. \A o \in Objects : object'[o].cb = object[o].cb
      BY <1>2, <2>2, CbKept
    <3> QED BY <1>5, <3>1
  <2> QED BY <2>1, <2>2
<1>7. ~(app'.at = "initcb" /\ pc' = "idle" /\ b.ptr = ret')
  <2>1. CASE ret' = ret /\ (app'.at = "initcb" /\ pc' = "idle" => app.at = "initcb" /\ pc = "idle")
    BY <1>1, <2>1 DEF ClientBlocks
  <2>2. CASE ret' = NULL
    BY <1>2, <2>2
  <2>3. CASE \A a \in blocks : a.ptr + a.len <= ret'
    <3>1. b.ptr + b.len <= ret'
      BY <1>2, <2>3
    <3> QED BY <1>2, <1>3, <3>1
  <2> QED BY <2>1, <2>2, <2>3, PiecesAdded
<1>8. b \in ClientBlocks'
  BY <1>4, <1>6, <1>7 DEF ClientBlocks, DataBlocks
<1>9. addr = hwdma_bus_address(b.ptr)'
  BY <1>1 DEF hwdma_bus_address
<1> QED BY <1>1, <1>8, <1>9 DEF FitsPiece

\* What a step of a running process leaves in the history of a channel.
LEMMA PreparedChange ==
  ASSUME PlainInv, DmaNext, starts' = starts, NEW c \in Channels
  PROVE  \/ prepared'[c] = prepared[c]
         \/ prepared'[c] = NothingPrepared
         \/ WriteConblk /\ prepared'[c] = AsPrepared(object[app.o], app.xfer)
<1>1. prepared \in [Channels -> PreparedFields] /\ starts \in Nat
  BY BufferAssumption DEF PlainInv, PreparedInv, DmaTypeOK, BufTypeOK
<1>2. CASE prepared' = prepared
  BY <1>2
<1>3. CASE InitRegs
  BY <1>1, <1>3 DEF InitRegs, Reset
<1>4. CASE WriteConblk
  <2> DEFINE new == AsPrepared(object[app.o], app.xfer)
             d == object[app.o].chnum
  <2>1. prepared' = [prepared EXCEPT ![d] = new]
    BY <1>4 DEF WriteConblk
  <2> HIDE DEF new, d
  <2>2. prepared'[c] = prepared[c] \/ prepared'[c] = new
    BY <1>1, <2>1
  <2> QED BY <1>4, <2>2 DEF new
<1>5. CASE \/ \E n \in AllocSizes : Allocate(n)
           \/ BufferStep \/ InitAllocate \/ InitTakeBlock \/ WriteField
           \/ \E e \in Channels : EngineStep(e)
  BY <1>2, <1>5 DEF Allocate, BufferStep, InitAllocate, InitTakeBlock, TakeBlock, WriteField,
                    EngineStep, EngineLoad, EngineMove, engine
<1>6. CASE \E o \in Objects :
             \/ \E n \in ChannelArgs : InitBegin(o, n)
             \/ \E b \in BOOLEAN, a \in PeriphAddrs : Prepare(o, b, a)
             \/ \E x \in Transfers(object[o].istx) : PrepareTransfer(o, x)
             \/ Enable(o) \/ Disable(o)
  BY <1>2, <1>6 DEF InitBegin, InitWithin, Prepare, PrepareTransfer, Enable, Disable, engine
<1>7. ~DmaRestart
  BY <1>1 DEF DmaRestart, Restart, StartWith
<1> QED BY <1>3, <1>4, <1>5, <1>6, <1>7 DEF DmaNext

\* The transfer a client asks for fits a piece of its own.
LEMMA AskedFits ==
  ASSUME ForeignAddrs = {}, PlainInv,
         NEW o \in Objects, NEW x \in Transfers(object[o].istx), PrepareTransfer(o, x)
  PROVE  FitsPiece(hwdma_bus_address(x.addr), Increment(object[o].istx, x),
                   x.count, x.bytewidth)
<1>1. PICK b \in DataBlocks :
        /\ b.ptr = x.addr
        /\ Increment(object[o].istx, x) * (x.count - 1) + x.bytewidth <= b.len
  BY DEF Transfers
<1>2. b \in ClientBlocks
  BY DEF PrepareTransfer, Ready, Free, Idle, ClientBlocks
<1> QED BY <1>1, <1>2 DEF FitsPiece

\* Inside PrepareTransfer the transfer goes on fitting its piece.
LEMMA AskedStep ==
  ASSUME ForeignAddrs = {}, PlainInv, DataInv, DmaNext, app'.at = "prepare"
  PROVE  FitsPiece(hwdma_bus_address(app.xfer.addr), Increment(object[app.o].istx, app.xfer),
                   app.xfer.count, app.xfer.bytewidth)'
<1>1. /\ object \in [Objects -> ObjectFields] /\ app \in Apps
  BY DEF PlainInv, DmaTypeOK, CallsInv
<1>2. CASE \E o \in Objects : \E x \in Transfers(object[o].istx) : PrepareTransfer(o, x)
  <2>1. PICK o \in Objects : \E x \in Transfers(object[o].istx) : PrepareTransfer(o, x)
    BY <1>2
  <2>2. PICK x \in Transfers(object[o].istx) : PrepareTransfer(o, x)
    BY <2>1
  <2>3. FitsPiece(hwdma_bus_address(x.addr), Increment(object[o].istx, x),
                  x.count, x.bytewidth)
    BY <2>2, AskedFits
  <2>4. /\ app' = [at |-> "prepare", o |-> o, xfer |-> x, written |-> 0]
        /\ UNCHANGED <<object, g_dma_buffer, g_dma_buffer_size, g_dmabuf_bus_addr, blocks>>
    BY <2>2 DEF PrepareTransfer, bufVars, process, dmabuf, allocator
  <2>5. app'.o = o /\ app'.xfer = x /\ app'.at # "initcb"
    BY <2>4
  <2>6. ClientBlocks \subseteq ClientBlocks'
    BY <2>4, <2>5 DEF ClientBlocks, DataBlocks
  <2>7. PICK b \in ClientBlocks :
          /\ hwdma_bus_address(x.addr) = hwdma_bus_address(b.ptr)
          /\ Increment(object[o].istx, x) * (x.count - 1) + x.bytewidth <= b.len
    BY <2>3 DEF FitsPiece
  <2>8. /\ b \in ClientBlocks'
        /\ Increment(object'[o].istx, x) * (x.count - 1) + x.bytewidth <= b.len
    BY <2>4, <2>6, <2>7
  <2>9. hwdma_bus_address(x.addr)' = hwdma_bus_address(b.ptr)'
    BY <2>4, <2>7 DEF hwdma_bus_address
  <2> QED BY <2>5, <2>8, <2>9 DEF FitsPiece, hwdma_bus_address, Increment
<1>3. CASE WriteField \/ \E c \in Channels : EngineStep(c)
  <2>1. /\ UNCHANGED <<bufVars, object>> /\ app.at = "prepare"
        /\ app'.o = app.o /\ app'.xfer = app.xfer
    <3>1. CASE WriteField
      <4>1. app'.o = app.o /\ app'.xfer = app.xfer
        BY <3>1, FieldStored
      <4> QED BY <3>1, <4>1 DEF WriteField
    <3>2. CASE \E c \in Channels : EngineStep(c)
      BY <3>2 DEF EngineStep, EngineLoad, EngineMove, dmaProcess
    <3> QED BY <1>3, <3>1, <3>2
  <2>2. /\ starts' = starts
        /\ UNCHANGED <<g_dma_buffer, g_dma_buffer_size, g_dmabuf_bus_addr>>
    BY <2>1 DEF bufVars, process, dmabuf
  <2>3. /\ app.o \in Objects /\ app.xfer \in Asked /\ object[app.o] \in ObjectFields
    BY <1>1, <2>1, AppFields
  <2> DEFINE addr == hwdma_bus_address(app.xfer.addr)
             inc == Increment(object[app.o].istx, app.xfer)
  <2>4. /\ inc \in Nat /\ app.xfer.count \in Nat \ {0} /\ app.xfer.bytewidth \in {1, 2, 4}
    BY <2>3, NotEmpty
  <2>5. FitsPiece(addr, inc, app.xfer.count, app.xfer.bytewidth)
    BY <2>1 DEF DataInv
  <2>6. /\ addr' = addr /\ inc' = inc
        /\ app'.xfer.count = app.xfer.count /\ app'.xfer.bytewidth = app.xfer.bytewidth
    BY <2>1, <2>2 DEF hwdma_bus_address, Increment
  <2> HIDE DEF addr, inc
  <2>7. PICK i \in Nat, n \in Nat \ {0}, w \in {1, 2, 4} :
          i = inc /\ n = app.xfer.count /\ w = app.xfer.bytewidth
    BY <2>4
  <2>8. PICK b \in ClientBlocks : addr = hwdma_bus_address(b.ptr)
    BY <2>5 DEF FitsPiece
  <2>9. hwdma_bus_address(b.ptr) \in Nat
    BY BusAddressTypes DEF ClientBlocks, DataBlocks, PlainInv, DmaTypeOK, BufTypeOK, Blocks
  <2>10. PICK a \in Nat : a = addr
    BY <2>8, <2>9
  <2>11. FitsPiece(a, i, n, w)
    BY <2>5, <2>7, <2>10
  <2>12. FitsPiece(a, i, n, w)'
    BY <2>2, <2>11, FitsKept
  <2>13. addr' = a /\ inc' = i /\ app'.xfer.count = n /\ app'.xfer.bytewidth = w
    BY <2>6, <2>7, <2>10
  <2>14. FitsPiece(addr, inc, app.xfer.count, app.xfer.bytewidth)'
    BY <2>12, <2>13 DEF FitsPiece
  <2> QED BY <2>14 DEF addr, inc
<1> QED BY <1>2, <1>3, InsidePrepare

\* Nothing is prepared at the start.
LEMMA DataInvInit == DmaInit => DataInv
<1> SUFFICES ASSUME DmaInit PROVE DataInv
  OBVIOUS
<1>1. blocks = {} /\ app.at = "idle" /\ \A c \in Channels : prepared[c].by = 0
  BY DEF DmaInit, BufInit, Idle, NothingPrepared
<1> QED BY <1>1 DEF DataInv

\* While the process goes on, a transfer of its own fits its piece, and one of
\* an earlier process stays in the memory that process left.
LEMMA PreparedGoesOn ==
  ASSUME PlainInv, DataInv, DmaNext, starts' = starts, NEW c \in Channels,
         prepared'[c].by # 0
  PROVE  IF prepared'[c].by = starts
           THEN /\ g_dma_buffer' # NULL
                /\ FitsPiece(prepared[c].addr, prepared[c].inc, prepared[c].rows,
                             prepared[c].bytewidth)'
           ELSE FitsOrphan(prepared[c].addr, prepared[c].inc, prepared[c].rows,
                           prepared[c].bytewidth)'
<1>1. /\ prepared[c] \in PreparedFields /\ IsHistory(prepared[c])
      /\ object \in [Objects -> ObjectFields] /\ app \in Apps /\ CallsInv
  BY DEF PlainInv, PreparedInv, DmaTypeOK, CallsInv
<1>2. ASSUME prepared'[c] = prepared[c], prepared[c].by = starts
      PROVE  /\ g_dma_buffer' # NULL
             /\ FitsPiece(prepared[c].addr, prepared[c].inc, prepared[c].rows,
                          prepared[c].bytewidth)'
  <2>1. /\ g_dma_buffer # NULL
        /\ FitsPiece(prepared[c].addr, prepared[c].inc, prepared[c].rows,
                     prepared[c].bytewidth)
    BY <1>2 DEF DataInv
  <2>2. UNCHANGED <<g_dma_buffer, g_dma_buffer_size, g_dmabuf_bus_addr>>
    BY <2>1, ProcessGoesOn
  <2>3. PICK p \in PreparedFields : p = prepared[c]
    BY <1>1
  <2>4. p.inc \in Nat /\ p.rows \in Nat \ {0} /\ p.bytewidth \in {1, 2, 4}
    BY <1>1, <1>2, <2>3, NotEmpty
  <2>5. FitsPiece(p.addr, p.inc, p.rows, p.bytewidth)'
    BY <2>1, <2>2, <2>3, <2>4, FitsKept
  <2>6. prepared'[c] = p
    BY <1>2, <2>3
  <2>7. FitsPiece(prepared[c].addr, prepared[c].inc, prepared[c].rows,
                  prepared[c].bytewidth)'
    BY <2>5, <2>6 DEF FitsPiece
  <2> QED BY <2>1, <2>2, <2>7
<1>3. ASSUME prepared'[c] = prepared[c], prepared[c].by # starts
      PROVE  FitsOrphan(prepared[c].addr, prepared[c].inc, prepared[c].rows,
                        prepared[c].bytewidth)'
  <2>1. FitsOrphan(prepared[c].addr, prepared[c].inc, prepared[c].rows,
                   prepared[c].bytewidth)
    BY <1>3 DEF DataInv
  <2>2. \A h \in Handles : Foreign(h) => Foreign(h)'
    BY ProcessGoesOn
  <2> QED BY <1>3, <2>1, <2>2 DEF FitsOrphan
<1>4. CASE WriteConblk /\ prepared'[c] = AsPrepared(object[app.o], app.xfer)
  <2> DEFINE d == object[app.o]
             addr == hwdma_bus_address(app.xfer.addr)
             inc == Increment(d.istx, app.xfer)
  <2>1. /\ app.o \in Objects /\ app.at = "prepare" /\ app.written = 6 /\ app.xfer \in Asked
        /\ d \in ObjectFields
    BY <1>1, <1>4, AppFields, SixFields DEF WriteConblk
  <2>2. g_dma_buffer # NULL /\ UNCHANGED <<g_dma_buffer, g_dma_buffer_size, g_dmabuf_bus_addr>>
    BY <1>1, <1>4, <2>1 DEF CallsInv, InBuffer, WriteConblk, bufVars, process, dmabuf
  <2>3. FitsPiece(addr, inc, app.xfer.count, app.xfer.bytewidth)
    BY <2>1 DEF DataInv
  <2>4. inc \in Nat /\ app.xfer.count \in Nat \ {0} /\ app.xfer.bytewidth \in {1, 2, 4}
    BY <2>1, NotEmpty
  <2>5. /\ prepared'[c].addr = addr /\ prepared'[c].inc = inc
        /\ prepared'[c].rows = app.xfer.count /\ prepared'[c].bytewidth = app.xfer.bytewidth
        /\ prepared'[c].by = starts
    BY <1>4 DEF AsPrepared
  <2> HIDE DEF addr, inc
  <2>6. PICK a, i \in Nat, n \in Nat \ {0}, w \in {1, 2, 4} :
          a = addr /\ i = inc /\ n = app.xfer.count /\ w = app.xfer.bytewidth
    <3>1. hwdma_bus_address(app.xfer.addr) \in Nat
      BY <2>1, BusAddressTypes DEF PlainInv, DmaTypeOK, Asked
    <3> QED BY <2>4, <3>1 DEF addr
  <2>7. FitsPiece(a, i, n, w)
    BY <2>3, <2>6
  <2>8. FitsPiece(a, i, n, w)'
    BY <2>2, <2>6, <2>7, FitsKept
  <2>9. /\ prepared'[c].addr = a /\ prepared'[c].inc = i
        /\ prepared'[c].rows = n /\ prepared'[c].bytewidth = w
    BY <2>5, <2>6
  <2>10. FitsPiece(prepared[c].addr, prepared[c].inc, prepared[c].rows,
                   prepared[c].bytewidth)'
    BY <2>8, <2>9 DEF FitsPiece
  <2> QED BY <2>2, <2>5, <2>10
<1>5. prepared'[c] # NothingPrepared
  BY DEF NothingPrepared
<1> QED BY <1>2, <1>3, <1>4, <1>5, PreparedChange

\* A piece of the buffer, as the engine sees it when its process is gone.
LEMMA PieceLeft ==
  ASSUME PlainInv, BufferBacked, g_dma_buffer # NULL, NEW b \in blocks
  PROVE  \/ hwdma_bus_address(b.ptr) = 0 /\ b.len <= HWDMA_BUFFER_SIZE
         \/ /\ g_dmabuf_mem_handle \in Handles /\ vpu[g_dmabuf_mem_handle] = "locked"
            /\ BusOf(g_dmabuf_mem_handle) <= hwdma_bus_address(b.ptr)
            /\ hwdma_bus_address(b.ptr) + b.len
                 <= BusOf(g_dmabuf_mem_handle) + HWDMA_BUFFER_SIZE
<1> DEFINE S == HWDMA_BUFFER_SIZE
           B == BusOf(g_dmabuf_mem_handle)
<1>1. /\ g_dma_buffer = MapBase /\ MapBase \in Nat /\ S \in Nat /\ S < MapBase
      /\ g_dma_buffer_size \in {0, S} /\ g_dma_buffer_allocated \in 0 .. g_dma_buffer_size
      /\ b.ptr \in Nat /\ b.len \in Nat
  BY BufferAssumption DEF PlainInv, DmaTypeOK, BufTypeOK, Blocks, NULL
<1>2. /\ g_dmabuf_mem_handle \in Handles /\ vpu[g_dmabuf_mem_handle] = "locked"
      /\ g_dmabuf_bus_addr = B /\ B \in Nat
  BY BlocksApart DEF BufferBacked
<1>3. CASE b.ptr + b.len <= g_dma_buffer_allocated
  <2>1. b.ptr < MapBase /\ b.len <= S
    BY <1>1, <1>3
  <2> QED BY <1>1, <2>1 DEF hwdma_bus_address
<1>4. CASE MapBase <= b.ptr /\ b.ptr + b.len <= MapBase + g_dma_buffer_allocated
  <2>1. /\ g_dma_buffer_allocated \in Nat /\ g_dma_buffer_allocated <= g_dma_buffer_size
        /\ g_dma_buffer_size \in Nat /\ g_dma_buffer_size <= S
    BY <1>1
  <2>2. /\ ~(b.ptr < MapBase) /\ ~(b.ptr > MapBase + g_dma_buffer_size)
        /\ b.ptr + b.len <= MapBase + S
    BY <1>1, <1>4, <2>1
  <2>3. hwdma_bus_address(b.ptr) = B + (b.ptr - MapBase)
    BY <1>1, <1>2, <2>2 DEF hwdma_bus_address
  <2> HIDE DEF B, S
  <2>4. B <= hwdma_bus_address(b.ptr) /\ hwdma_bus_address(b.ptr) + b.len <= B + S
    BY <1>1, <1>2, <1>4, <2>2, <2>3
  <2> QED BY <1>2, <2>4 DEF B, S
<1> QED BY <1>3, <1>4 DEF PlainInv, AllocatorInv

\* When a process dies its transfers become those of an earlier process, in the
\* memory it leaves.
LEMMA PreparedLeft ==
  ASSUME PlainInv, BufferBacked, DataInv, DmaRestart, NEW c \in Channels,
         prepared[c].by # 0
  PROVE  FitsOrphan(prepared[c].addr, prepared[c].inc, prepared[c].rows,
                    prepared[c].bytewidth)'
<1>1. /\ prepared' = prepared /\ vpu' = vpu /\ g_dmabuf_mem_handle' = 0 /\ 0 \notin Handles
  BY BufferAssumption DEF DmaRestart, Restart, StartWith, engine
<1>2. PICK p \in PreparedFields : p = prepared[c]
  BY DEF PlainInv, PreparedInv
<1>3. /\ p.inc * (p.rows - 1) \in Nat /\ p.bytewidth \in {1, 2, 4} /\ p.addr \in Nat
  BY <1>2, NotEmpty DEF PlainInv, PreparedInv, PreparedFields
<1>4. HWDMA_BUFFER_SIZE \in Nat
  BY BufferAssumption
<1>5. ASSUME NEW h \in Handles, vpu[h] = "locked"
      PROVE  Foreign(h)'
  BY <1>1, <1>5 DEF Foreign
<1>6. CASE prepared[c].by = starts
  <2>1. g_dma_buffer # NULL /\ FitsPiece(p.addr, p.inc, p.rows, p.bytewidth)
    BY <1>2, <1>6 DEF DataInv
  <2>2. PICK b \in ClientBlocks : /\ p.addr = hwdma_bus_address(b.ptr)
                                  /\ p.inc * (p.rows - 1) + p.bytewidth <= b.len
    BY <2>1 DEF FitsPiece
  <2>3. b \in blocks /\ b.len \in Nat
    BY DEF ClientBlocks, DataBlocks, PlainInv, DmaTypeOK, BufTypeOK, Blocks
  <2>4. CASE p.addr = 0 /\ b.len <= HWDMA_BUFFER_SIZE
    <3>1. 0 <= p.addr /\ p.addr + p.inc * (p.rows - 1) + p.bytewidth <= 0 + HWDMA_BUFFER_SIZE
      BY <1>3, <1>4, <2>2, <2>3, <2>4
    <3> QED BY <1>1, <1>2, <3>1 DEF FitsOrphan
  <2>5. CASE \E h \in Handles : /\ vpu[h] = "locked" /\ BusOf(h) <= p.addr
                                /\ p.addr + b.len <= BusOf(h) + HWDMA_BUFFER_SIZE
    <3>1. PICK h \in Handles : /\ vpu[h] = "locked" /\ BusOf(h) <= p.addr
                               /\ p.addr + b.len <= BusOf(h) + HWDMA_BUFFER_SIZE
      BY <2>5
    <3>2. BusOf(h) \in Nat
      BY BlocksApart
    <3>3. p.addr + p.inc * (p.rows - 1) + p.bytewidth <= BusOf(h) + HWDMA_BUFFER_SIZE
      BY <1>3, <1>4, <2>2, <2>3, <3>1, <3>2
    <3> QED BY <1>1, <1>2, <1>5, <3>1, <3>3 DEF FitsOrphan
  <2> QED BY <2>1, <2>2, <2>3, <2>4, <2>5, PieceLeft
<1>7. CASE prepared[c].by # starts
  <2>1. FitsOrphan(p.addr, p.inc, p.rows, p.bytewidth)
    BY <1>2, <1>7 DEF DataInv
  <2>2. \A h \in Handles : Foreign(h) => Foreign(h)'
    BY <1>5 DEF Foreign
  <2> QED BY <1>1, <1>2, <2>1, <2>2 DEF FitsOrphan
<1> QED BY <1>6, <1>7

\* Every step keeps DataInv.
LEMMA DataInvStep ==
  ASSUME ForeignAddrs = {}, PlainInv, BufferBacked, DataInv, [DmaNext]_dmaVars
  PROVE  DataInv'
<1>1. CASE DmaNext /\ starts' = starts
  <2>1. \A b \in blocks' : b.ptr # NULL
    BY <1>1, PiecesAdded DEF DataInv
  <2>2. app'.at = "prepare" =>
          FitsPiece(hwdma_bus_address(app.xfer.addr), Increment(object[app.o].istx, app.xfer),
                    app.xfer.count, app.xfer.bytewidth)'
    BY <1>1, AskedStep
  <2>3. \A c \in Channels : prepared'[c].by # 0 =>
          IF prepared'[c].by = starts
            THEN /\ g_dma_buffer' # NULL
                 /\ FitsPiece(prepared[c].addr, prepared[c].inc, prepared[c].rows,
                              prepared[c].bytewidth)'
            ELSE FitsOrphan(prepared[c].addr, prepared[c].inc, prepared[c].rows,
                            prepared[c].bytewidth)'
    BY <1>1, PreparedGoesOn
  <2> QED BY <1>1, <2>1, <2>2, <2>3 DEF DataInv
<1>2. CASE DmaNext /\ starts' # starts
  <2>1. DmaRestart
    <3>1. CASE \/ \E n \in AllocSizes : Allocate(n)
               \/ BufferStep \/ InitAllocate \/ InitTakeBlock \/ InitRegs
               \/ WriteField \/ WriteConblk \/ \E e \in Channels : EngineStep(e)
      <4>1. CASE BufferStep
        BY <1>2, <4>1 DEF BufferStep, BufStep, AllocVpuMem, LockVpuMem, StoreAddresses, MapBuffer,
                          Bump, GiveOut
      <4>2. CASE ~BufferStep
        BY <1>2, <3>1, <4>2
           DEF Allocate, InitAllocate, InitTakeBlock, TakeBlock, InitRegs, Reset, WriteField,
               WriteConblk, EngineStep, EngineLoad, EngineMove, Call, CallWith, bufVars
      <4> QED BY <4>1, <4>2
    <3>2. CASE \E o \in Objects :
                 \/ \E n \in ChannelArgs : InitBegin(o, n)
                 \/ \E b \in BOOLEAN, a \in PeriphAddrs : Prepare(o, b, a)
                 \/ \E x \in Transfers(object[o].istx) : PrepareTransfer(o, x)
                 \/ Enable(o) \/ Disable(o)
      BY <1>2, <3>2 DEF InitBegin, InitWithin, Prepare, PrepareTransfer, Enable, Disable, Call,
                        CallWith, bufVars
    <3> QED BY <1>2, <3>1, <3>2 DEF DmaNext
  <2>2. /\ blocks' = {} /\ app'.at = "idle" /\ prepared' = prepared /\ starts' = starts + 1
    BY <2>1 DEF DmaRestart, Restart, StartWith, engine, Idle
  <2>3. starts \in Nat /\ \A c \in Channels : prepared[c].by \in Nat /\ prepared[c].by <= starts
    BY BufferAssumption DEF PlainInv, PreparedInv, PreparedFields, IsHistory, DmaTypeOK, BufTypeOK
  <2>4. \A c \in Channels : prepared'[c].by # starts'
    BY <2>2, <2>3
  <2>5. \A c \in Channels : prepared'[c].by # 0 =>
          FitsOrphan(prepared[c].addr, prepared[c].inc, prepared[c].rows, prepared[c].bytewidth)'
    BY <2>1, <2>2, PreparedLeft
  <2> QED BY <2>2, <2>4, <2>5 DEF DataInv
<1>3. CASE UNCHANGED dmaVars
  <2>1. UNCHANGED <<starts, vpu, g_dma_buffer, g_dma_buffer_size, g_dmabuf_bus_addr,
                    g_dmabuf_mem_handle, pc, ret, blocks, object, app, prepared>>
    BY <1>3 DEF dmaVars, bufVars, process, dmabuf, allocator, dmaProcess, engine
  <2> QED BY <2>1 DEF DataInv, FitsPiece, FitsOrphan, ClientBlocks, DataBlocks, Foreign,
                      hwdma_bus_address, Increment
<1> QED BY <1>1, <1>2, <1>3

\* DataInv is an invariant when the clients pass addresses they were given.
THEOREM DataCorrect ==
  ASSUME ForeignAddrs = {}
  PROVE  DmaSpec /\ []BufferBacked => []DataInv
<1>1. PlainInv /\ BufferBacked /\ DataInv /\ [DmaNext]_dmaVars => DataInv'
  BY DataInvStep
<1> QED BY <1>1, DataInvInit, PlainCorrect, PTL DEF DmaSpec

\* The rest of a loaded transfer lies within the memory of the whole of it.
LEMMA RestOfRows ==
  ASSUME PlainInv, TransferInv, NEW c \in Channels, regs[c].loaded
  PROVE  /\ prepared[c].by # 0 /\ FirstByte(c) \in Nat /\ LastByte(c) \in Nat
         /\ FirstByte(c) <= LastByte(c)
         /\ prepared[c].addr <= FirstByte(c)
         /\ LastByte(c) < prepared[c].addr + prepared[c].inc * (prepared[c].rows - 1)
                            + prepared[c].bytewidth
<1> DEFINE p == prepared[c]
           y == regs[c].cb.TXFR_LEN.y
           done == p.rows - 1 - y
<1>1. p \in PreparedFields /\ IsHistory(p)
  BY DEF PlainInv, PreparedInv
<1>2. RowOf(regs[c].cb, p, done, regs[c].CONBLK_AD)
  BY DEF TransferInv, Works
<1>3. /\ p.addr \in Nat /\ p.inc \in Nat /\ p.rows \in Nat /\ p.istx \in BOOLEAN /\ p.by \in Nat
  BY <1>1 DEF PreparedFields
<1>4. /\ regs[c].cb.TXFR_LEN.x = p.bytewidth /\ done \in 0 .. p.rows - 1
      /\ MemorySide(c) = p.addr + done * p.inc
  BY <1>2, <1>3 DEF RowOf, MemorySide
<1>5. regs[c].cb.TXFR_LEN.y \in Int
  BY DmaAssumption DEF PlainInv, DmaTypeOK, ChannelRegs, ControlBlocks, TxfrLen
<1>6. p.by # 0
  BY <1>1, <1>3, <1>4 DEF IsHistory
<1>7. p.bytewidth \in {1, 2, 4}
  BY <1>1, <1>6, NotEmpty
<1>8. FirstByte(c) = p.addr + done * p.inc /\ LastByte(c) = p.addr + done * p.inc + p.inc * y + p.bytewidth - 1
  BY <1>4 DEF FirstByte, LastByte
<1>9. /\ y \in Nat /\ done \in Nat /\ p.rows - 1 = done + y
  BY <1>3, <1>4, <1>5
<1>10. PICK a \in Nat, i \in Nat, w \in {1, 2, 4}, n \in Nat, k \in Nat :
         a = p.addr /\ i = p.inc /\ w = p.bytewidth /\ n = done /\ k = y
  BY <1>3, <1>7, <1>9
<1>11. i * (n + k) = n * i + i * k /\ n * i \in Nat /\ i * k \in Nat
  OBVIOUS
<1>12. /\ FirstByte(c) = a + n * i /\ LastByte(c) = a + n * i + i * k + w - 1
       /\ p.inc * (p.rows - 1) = i * (n + k)
  BY <1>8, <1>9, <1>10
<1> QED BY <1>6, <1>10, <1>11, <1>12

\* A transfer of this process only touches a piece of the buffer that holds no
\* control block, whatever its direction, width, rows and increments are.
THEOREM MovesCorrect ==
  ASSUME CountsFit, ForeignAddrs = {}
  PROVE  DmaSpec /\ []BufferBacked => []MovesStayInData
<1>1. PlainInv /\ TransferInv /\ DataInv => MovesStayInData
  <2> SUFFICES ASSUME PlainInv, TransferInv, DataInv,
                      NEW c \in Channels, regs[c].loaded, prepared[c].by = starts
               PROVE  \E b \in DataBlocks :
                        /\ hwdma_bus_address(b.ptr) <= FirstByte(c)
                        /\ LastByte(c) < hwdma_bus_address(b.ptr) + b.len
    BY DEF MovesStayInData
  <2> DEFINE span == prepared[c].inc * (prepared[c].rows - 1)
  <2>1. FitsPiece(prepared[c].addr, prepared[c].inc, prepared[c].rows, prepared[c].bytewidth)
    BY RestOfRows DEF DataInv
  <2>2. PICK b \in ClientBlocks : /\ prepared[c].addr = hwdma_bus_address(b.ptr)
                                  /\ span + prepared[c].bytewidth <= b.len
    BY <2>1 DEF FitsPiece
  <2>3. b \in DataBlocks /\ b.len \in Nat
    BY DEF ClientBlocks, DataBlocks, PlainInv, DmaTypeOK, BufTypeOK, Blocks
  <2>4. /\ prepared[c].addr \in Nat /\ prepared[c].bytewidth \in Nat /\ span \in Nat
    BY RestOfRows, NotEmpty DEF PlainInv, PreparedInv, PreparedFields
  <2>5. /\ FirstByte(c) \in Nat /\ LastByte(c) \in Nat /\ prepared[c].addr <= FirstByte(c)
        /\ LastByte(c) < prepared[c].addr + span + prepared[c].bytewidth
    BY RestOfRows
  <2> HIDE DEF span
  <2> QED BY <2>2, <2>3, <2>4, <2>5
<1> QED BY <1>1, PlainCorrect, TransferCorrect, DataCorrect, PTL

\* A transfer that outlived its process never touches the buffer of the process
\* that runs now, neither for data nor for a control block, however many
\* processes there were.
THEOREM OrphansCorrect ==
  ASSUME CountsFit, ForeignAddrs = {}
  PROVE  DmaSpec /\ []BufferBacked => []OrphansStayOut
<1>1. PlainInv /\ BufferBacked /\ TransferInv /\ DataInv => OrphansStayOut
  <2> SUFFICES ASSUME PlainInv, BufferBacked, TransferInv, DataInv, g_dma_buffer # NULL
               PROVE  OrphansStayOut
    BY DEF OrphansStayOut
  <2> DEFINE mine == g_dmabuf_bus_addr .. g_dmabuf_bus_addr + g_dma_buffer_size - 1
  <2>0. \A m \in mine : m \in Nat
    <3>1. g_dmabuf_bus_addr \in Nat
      BY BlocksApart DEF BufferBacked
    <3>2. g_dma_buffer_size \in Nat
      BY BufferAssumption DEF PlainInv, DmaTypeOK, BufTypeOK
    <3> QED BY <3>1, <3>2
  <2> SUFFICES ASSUME NEW c \in Channels, regs[c].ACTIVE, prepared[c].by # starts,
                      NEW m \in Nat, m \in mine
               PROVE  /\ regs[c].CONBLK_AD # m
                      /\ regs[c].loaded => FirstByte(c) # m /\ LastByte(c) # m
    BY <2>0 DEF OrphansStayOut
  <2> DEFINE S == HWDMA_BUFFER_SIZE
             B == BusOf(g_dmabuf_mem_handle)
  <2>1. /\ g_dmabuf_mem_handle \in Handles /\ g_dmabuf_bus_addr = B /\ B \in Nat /\ B >= S
        /\ S \in Nat
    BY BlocksApart, BufferAssumption DEF BufferBacked
  <2>2. B <= m /\ m < B + S
    <3>1. g_dma_buffer_size \in {0, S}
      BY DEF PlainInv, DmaTypeOK, BufTypeOK
    <3> QED BY <2>1, <3>1
  <2>3. ASSUME NEW h \in Handles, Foreign(h)
        PROVE  BusOf(h) \in Nat /\ (m < BusOf(h) \/ BusOf(h) + S <= m)
    <3>1. h # g_dmabuf_mem_handle
      BY <2>3 DEF Foreign
    <3>2. BusOf(h) \in Nat /\ (BusOf(h) + S <= B \/ B + S <= BusOf(h))
      BY <2>1, <3>1, BlocksApart
    <3> HIDE DEF B
    <3> QED BY <2>1, <2>2, <3>2
  <2>4. regs[c].CONBLK_AD # m
    <3>1. regs[c].CONBLK_AD # 0 /\ InUse(c)
      BY DEF TransferInv, Works, InUse
    <3>2. Orphaned(c)
      BY <3>1 DEF TransferInv, Fetches, Owned
    <3>3. PICK h \in Handles : Foreign(h) /\ Within(regs[c].CONBLK_AD, BusOf(h))
      BY <3>2 DEF Orphaned
    <3> QED BY <2>1, <2>3, <3>3 DEF Within
  <2>5. ASSUME regs[c].loaded
        PROVE  FirstByte(c) # m /\ LastByte(c) # m
    <3> DEFINE span == prepared[c].inc * (prepared[c].rows - 1)
    <3>1. FitsOrphan(prepared[c].addr, prepared[c].inc, prepared[c].rows, prepared[c].bytewidth)
      BY <2>5, RestOfRows DEF DataInv
    <3>2. PICK base \in {0} \cup {BusOf(h) : h \in {k \in Handles : Foreign(k)}} :
            /\ base <= prepared[c].addr
            /\ prepared[c].addr + span + prepared[c].bytewidth <= base + S
      BY <3>1 DEF FitsOrphan
    <3>3. base \in Nat /\ (m < base \/ base + S <= m)
      <4>1. CASE base = 0
        BY <2>1, <2>2, <4>1
      <4>2. CASE \E h \in Handles : Foreign(h) /\ base = BusOf(h)
        BY <2>3, <4>2
      <4> QED BY <3>2, <4>1, <4>2
    <3>4. /\ prepared[c].addr \in Nat /\ prepared[c].bytewidth \in Nat /\ span \in Nat
      BY <2>5, RestOfRows, NotEmpty DEF PlainInv, PreparedInv, PreparedFields
    <3>5. /\ FirstByte(c) \in Nat /\ LastByte(c) \in Nat /\ FirstByte(c) <= LastByte(c)
          /\ prepared[c].addr <= FirstByte(c)
          /\ LastByte(c) < prepared[c].addr + span + prepared[c].bytewidth
      BY <2>5, RestOfRows
    <3> HIDE DEF span
    <3> QED BY <2>1, <3>2, <3>3, <3>4, <3>5
  <2> QED BY <2>4, <2>5
<1> QED BY <1>1, PlainCorrect, TransferCorrect, DataCorrect, PTL

\* When the mailbox works, the VPU has blocks, and the clients keep to what they
\* were given, all of it holds over all deaths, restarts and failing mappings.
THEOREM DmaCorrect ==
  ASSUME MailboxWorks, CountsFit, ForeignAddrs = {}
  PROVE  DmaSpec /\ []VpuHasBlock =>
           /\ ServiceSafety
           /\ [](RowsInOrder /\ RemainingExact /\ MovesStayInData /\ OrphansStayOut)
BY BackedCorrect, ServiceCorrect, RowsCorrect, RemainingCorrect, MovesCorrect, OrphansCorrect,
   PTL

\* When nothing fails, and the VPU starts with a block for every process, all of
\* it holds of every behaviour.
THEOREM DmaUnfailing ==
  ASSUME NothingFails, CountsFit, ForeignAddrs = {}
  PROVE  DmaSpec =>
           /\ ServiceSafety
           /\ [](RowsInOrder /\ RemainingExact /\ MovesStayInData /\ OrphansStayOut)
<1>1. MailboxWorks
  BY DEF NothingFails, MailboxWorks
<1> QED BY <1>1, BlocksSuffice, DmaCorrect, PTL
=============================================================================
