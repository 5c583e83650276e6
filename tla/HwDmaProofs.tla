----------------------------- MODULE HwDmaProofs -----------------------------
(***************************************************************************)
(* Theorems about HwDma, for any number of objects and channels, any size  *)
(* of the buffer, any transfers, faults and restarts.                      *)
(***************************************************************************)
EXTENDS HwDma, DmaBufferProofs

-----------------------------------------------------------------------------
(* Types and the order of the calls.                                       *)

\* What a client asks of PrepareTransfer.
Asked == [addr : Nat, bytewidth : ByteWidths, count : Counts \ {0}, flags : FlagSets]

\* What app holds at each point of a call.
Apps ==
  {Idle, [at |-> "dead"]}
    \cup [at : {"init", "initcb", "initregs"}, o : Objects]
    \cup [at : {"prepare"}, o : Objects, xfer : Asked, written : 0 .. 6]

\* The type of a channel's history, and what it holds: nothing, or a transfer
\* of this process or an earlier one.
PreparedFields ==
  [rows : Nat, loop : BOOLEAN, istx : BOOLEAN, addr : Nat, inc : {0, 1, 2, 4},
   bytewidth : {0, 1, 2, 4}, periphaddr : Nat, by : Nat]
IsHistory(p) ==
  /\ p.by <= starts
  /\ p.by = 0 => p.rows = 0
  /\ p.by # 0 => p.rows \in Counts \ {0} /\ p.bytewidth \in ByteWidths
PreparedInv ==
  prepared \in [Channels -> PreparedFields] /\ \A c \in Channels : IsHistory(prepared[c])

\* Inside Init the object has its channel and is not yet initialised; while the
\* control block is allocated it has none; PrepareTransfer runs on a channel
\* that is quiet, and once it has stored a field, the block is in the buffer.
CallsInv ==
  /\ app \in Apps
  /\ app.at \in {"prepare", "initregs", "dead"} => pc = "idle"
  /\ app.at \in {"init", "initcb", "initregs"} =>
       object[app.o].chnum \in Channels /\ ~object[app.o].initialized
  /\ app.at = "init" => pc # "bump" /\ call.fn = "init"
  /\ app.at = "initcb" => object[app.o].cb = NULL
  /\ app.at = "initcb" /\ pc # "idle" => call = [fn |-> "allocate", asize |-> CbSize]
  /\ app.at = "initregs" => object[app.o].cb # NULL
  /\ app.at = "prepare" =>
       /\ object[app.o].initialized /\ Quiet(object[app.o].chnum)
       /\ app.written > 0 => InBuffer(object[app.o].cb)

\* A pointer into the mapped buffer is on a granule.
OnGranule(p) == p >= MapBase => (p - MapBase) % Granule = 0

\* There is a piece of memory of the size of a control block at p.
IsControlBlock(p) == \E b \in blocks : b.ptr = p /\ b.len = CbSize

\* The allocation mark and what is given out are on granules; each object with
\* a control block has a piece of memory of its own for it, and so has the one
\* that Init is about to take.
BlocksInv ==
  /\ g_dma_buffer_allocated % Granule = 0
  /\ OnGranule(ret)
  /\ \A o \in Objects : object[o].cb # NULL =>
       /\ IsControlBlock(object[o].cb) /\ OnGranule(object[o].cb)
       /\ \A p \in Objects : o # p => object[o].cb # object[p].cb
  /\ app.at = "initcb" /\ pc = "idle" /\ ret # NULL =>
       IsControlBlock(ret) /\ \A o \in Objects : object[o].cb # ret

\* An initialised object has its registers and a pointer for its control block,
\* which after a failed mapping may be no pointer into the buffer.
InitializedHasBlock ==
  \A o \in Objects : object[o].initialized =>
    g_dma_channel_regs /\ object[o].cb # NULL /\ object[o].chnum \in Channels

\* Two objects never have the same channel.
ChannelsDistinct ==
  \A o, p \in Objects :
    o # p /\ object[o].chnum \in Channels => object[o].chnum # object[p].chnum

\* What holds whatever fails, in this process or an earlier one.
PlainInv ==
  /\ DmaTypeOK /\ AllocatorInv /\ PreparedInv /\ CallsInv /\ BlocksInv
  /\ InitializedHasBlock /\ ChannelsDistinct

\* What the steps of each call do to the buffer is a step of DmaBuffer, other
\* than one of the application's use of the mailbox.
LEMMA BufferActs ==
  ASSUME DmaNext
  PROVE  OwnAction /\ BufAction
<1> SUFFICES OwnAction
  BY DEF OwnAction, BufAction, BufNext, BufOwnNext
<1>1. \A n \in AllocSizes \cup {0, CbSize} : n \in 0 .. WordMod - 1
  BY BufferAssumption, DmaAssumption DEF CbSize, Granule
<1>2. CASE \E n \in AllocSizes : Allocate(n)
  BY <1>1, <1>2 DEF Allocate, OwnAction
<1>3. CASE BufferStep
  BY <1>3 DEF BufferStep, OwnAction
<1>4. CASE \E o \in Objects, n \in ChannelArgs : InitBegin(o, n)
  BY <1>1, <1>4 DEF InitBegin, InitWithin, OwnAction
<1>5. CASE InitAllocate
  BY <1>1, <1>5 DEF InitAllocate, OwnAction
<1>6. CASE \E o \in Objects : \/ \E b \in BOOLEAN, a \in PeriphAddrs : Prepare(o, b, a)
                              \/ \E x \in Transfers(object[o].istx) : PrepareTransfer(o, x)
                              \/ Enable(o) \/ Disable(o)
  BY <1>6 DEF Prepare, PrepareTransfer, Enable, Disable, OwnAction
<1>7. CASE InitTakeBlock \/ InitRegs \/ WriteField \/ WriteConblk
  BY <1>7 DEF InitTakeBlock, TakeBlock, InitRegs, Reset, WriteField, WriteConblk, OwnAction
<1>8. CASE DmaRestart
  BY <1>8 DEF DmaRestart, OwnAction
<1>9. CASE \E c \in Channels : EngineStep(c)
  BY <1>9 DEF EngineStep, EngineLoad, EngineMove, OwnAction
<1> QED BY <1>2, <1>3, <1>4, <1>5, <1>6, <1>7, <1>8, <1>9 DEF DmaNext

\* What app holds follows from where the call is.
LEMMA AppFields ==
  ASSUME app \in Apps
  PROVE  /\ app.at \in {"idle", "init", "initcb", "initregs", "prepare", "dead"}
         /\ app.at \in {"init", "initcb", "initregs"} =>
              app \in [at : {"init", "initcb", "initregs"}, o : Objects]
         /\ app.at = "prepare" =>
              app \in [at : {"prepare"}, o : Objects, xfer : Asked, written : 0 .. 6]
BY DEF Apps, Idle

\* The objects keep their types, whichever call of the program, or step of the
\* engine, comes next.
LEMMA ObjectsStep ==
  ASSUME PlainInv, DmaNext
  PROVE  object' \in [Objects -> ObjectFields] /\ g_dma_channel_regs' \in BOOLEAN
<1>1. /\ object \in [Objects -> ObjectFields] /\ g_dma_channel_regs \in BOOLEAN
      /\ ret \in Nat /\ app \in Apps
  BY DEF PlainInv, DmaTypeOK, BufTypeOK, CallsInv
<1>2. CASE UNCHANGED dmaProcess
  BY <1>1, <1>2 DEF dmaProcess
<1>3. ASSUME NEW o \in Objects, NEW n \in ChannelArgs, InitBegin(o, n)
      PROVE  object' \in [Objects -> ObjectFields] /\ g_dma_channel_regs' \in BOOLEAN
  <2>1. PICK k \in Channels \cup {-1} :
          object' = [object EXCEPT ![o].initialized = FALSE, ![o].chnum = k]
    BY <1>3 DEF InitBegin, InitWithin
  <2>2. object' \in [Objects -> ObjectFields]
    <3> DEFINE new == [object[o] EXCEPT !.initialized = FALSE, !.chnum = k]
    <3>1. new \in ObjectFields
      BY <1>1 DEF ObjectFields
    <3>2. object' = [object EXCEPT ![o] = new]
      BY <1>1, <2>1
    <3> HIDE DEF new
    <3> QED BY <1>1, <3>1, <3>2
  <2> QED BY <1>1, <1>3, <2>2 DEF InitBegin, InitWithin
<1>4. CASE InitAllocate
  BY <1>1, <1>4 DEF InitAllocate
<1>5. CASE InitTakeBlock
  BY <1>1, <1>5, AppFields DEF InitTakeBlock, TakeBlock, ObjectFields
<1>6. CASE InitRegs
  <2>1. app.o \in Objects
    BY <1>1, <1>6, AppFields DEF InitRegs, Reset
  <2>2. object' = object \/ object' = [object EXCEPT ![app.o].initialized = TRUE]
    BY <1>6 DEF InitRegs, Reset
  <2>3. object' \in [Objects -> ObjectFields]
    BY <1>1, <2>1, <2>2 DEF ObjectFields
  <2> QED BY <1>1, <1>6, <2>3 DEF InitRegs, Reset
<1>7. ASSUME NEW o \in Objects, NEW b \in BOOLEAN, NEW a \in PeriphAddrs, Prepare(o, b, a)
      PROVE  object' \in [Objects -> ObjectFields] /\ g_dma_channel_regs' \in BOOLEAN
  BY <1>1, <1>7 DEF Prepare, ObjectFields
<1>8. CASE \E o \in Objects : \/ \E x \in Transfers(object[o].istx) : PrepareTransfer(o, x)
                              \/ Enable(o) \/ Disable(o)
  BY <1>1, <1>8 DEF PrepareTransfer, Enable, Disable, dmaProcess
<1>9. CASE WriteField \/ WriteConblk
  BY <1>1, <1>9 DEF WriteField, WriteConblk
<1>10. CASE DmaRestart
  BY <1>10 DEF DmaRestart, FreshObject, ObjectFields, NULL
<1>11. CASE \/ \E n \in AllocSizes : Allocate(n)
            \/ BufferStep \/ \E c \in Channels : EngineStep(c)
  BY <1>2, <1>11 DEF Allocate, BufferStep, EngineStep, EngineLoad, EngineMove
<1> QED BY <1>3, <1>4, <1>5, <1>6, <1>7, <1>8, <1>9, <1>10, <1>11 DEF DmaNext

\* The objects of a process never share a channel.
LEMMA DistinctStep ==
  ASSUME PlainInv, DmaNext
  PROVE  ChannelsDistinct'
<1>1. /\ object \in [Objects -> ObjectFields] /\ app \in Apps /\ ChannelsDistinct
      /\ -1 \notin Channels
  BY DEF PlainInv, DmaTypeOK, CallsInv, Channels
<1>2. CASE /\ \A o \in Objects : object'[o].chnum = object[o].chnum
  BY <1>1, <1>2 DEF ChannelsDistinct
<1>3. ASSUME NEW o \in Objects, NEW n \in ChannelArgs, InitBegin(o, n)
      PROVE  ChannelsDistinct'
  <2>1. PICK k : /\ k = -1 \/ \A p \in Objects \ {o} : object[p].chnum # k
                 /\ object' = [object EXCEPT ![o].initialized = FALSE, ![o].chnum = k]
    BY <1>3 DEF InitBegin, InitWithin
  <2>2. object'[o].chnum = k /\ \A p \in Objects \ {o} : object'[p].chnum = object[p].chnum
    BY <1>1, <2>1 DEF ObjectFields
  <2> QED BY <1>1, <2>1, <2>2 DEF ChannelsDistinct
<1>4. CASE InitAllocate \/ WriteField \/ WriteConblk
  BY <1>2, <1>4 DEF InitAllocate, WriteField, WriteConblk
<1>5. CASE InitTakeBlock \/ InitRegs
  BY <1>1, <1>2, <1>5, AppFields DEF InitTakeBlock, TakeBlock, InitRegs, Reset, ObjectFields
<1>6. ASSUME NEW o \in Objects, NEW b \in BOOLEAN, NEW a \in PeriphAddrs, Prepare(o, b, a)
      PROVE  ChannelsDistinct'
  BY <1>1, <1>2, <1>6 DEF Prepare, ObjectFields
<1>7. CASE \E o \in Objects : \/ \E x \in Transfers(object[o].istx) : PrepareTransfer(o, x)
                              \/ Enable(o) \/ Disable(o)
  BY <1>2, <1>7 DEF PrepareTransfer, Enable, Disable, dmaProcess
<1>8. CASE DmaRestart
  BY <1>1, <1>8 DEF DmaRestart, FreshObject, ChannelsDistinct
<1>9. CASE \/ \E n \in AllocSizes : Allocate(n)
           \/ BufferStep \/ \E c \in Channels : EngineStep(c)
  BY <1>2, <1>9 DEF Allocate, BufferStep, EngineStep, EngineLoad, EngineMove, dmaProcess
<1> QED BY <1>3, <1>4, <1>5, <1>6, <1>7, <1>8, <1>9 DEF DmaNext

\* An object becomes initialised at the end of an Init that has found its
\* registers mapped, and has its control block.
LEMMA UsableStep ==
  ASSUME PlainInv, DmaNext
  PROVE  InitializedHasBlock'
<1>1. /\ object \in [Objects -> ObjectFields] /\ app \in Apps /\ CallsInv
      /\ InitializedHasBlock
  BY DEF PlainInv, DmaTypeOK, CallsInv
<1>2. CASE object' = object /\ g_dma_channel_regs' = g_dma_channel_regs
  BY <1>1, <1>2 DEF InitializedHasBlock
<1>3. ASSUME NEW o \in Objects, NEW n \in ChannelArgs, InitBegin(o, n)
      PROVE  InitializedHasBlock'
  <2>1. /\ ~object'[o].initialized /\ \A p \in Objects \ {o} : object'[p] = object[p]
        /\ g_dma_channel_regs' = g_dma_channel_regs
    BY <1>1, <1>3 DEF InitBegin, InitWithin, ObjectFields
  <2> QED BY <1>1, <2>1 DEF InitializedHasBlock
<1>4. CASE InitAllocate
  BY <1>1, <1>4 DEF InitAllocate, InitializedHasBlock
<1>5. CASE InitTakeBlock
  <2>1. PICK o \in Objects : /\ ~object'[o].initialized
                             /\ \A p \in Objects \ {o} : object'[p] = object[p]
    BY <1>1, <1>5, AppFields DEF InitTakeBlock, TakeBlock, ObjectFields, CallsInv
  <2> QED BY <1>1, <1>5, <2>1 DEF InitializedHasBlock, InitTakeBlock, TakeBlock
<1>6. CASE InitRegs
  <2>1. app.o \in Objects
    BY <1>1, <1>6, AppFields DEF InitRegs, Reset
  <2>2. CASE g_dma_channel_regs /\ object' = [object EXCEPT ![app.o].initialized = TRUE]
    <3>1. object'[app.o].cb = object[app.o].cb /\ object'[app.o].chnum = object[app.o].chnum
          /\ \A p \in Objects \ {app.o} : object'[p] = object[p]
      BY <1>1, <2>1, <2>2 DEF ObjectFields
    <3> QED BY <1>1, <1>6, <2>1, <2>2, <3>1 DEF InitRegs, Reset, CallsInv, InitializedHasBlock
  <2> QED BY <1>2, <1>6, <2>2 DEF InitRegs, Reset
<1>7. ASSUME NEW o \in Objects, NEW b \in BOOLEAN, NEW a \in PeriphAddrs, Prepare(o, b, a)
      PROVE  InitializedHasBlock'
  <2>1. \A p \in Objects : /\ object'[p].initialized = object[p].initialized
                           /\ object'[p].cb = object[p].cb /\ object'[p].chnum = object[p].chnum
    BY <1>1, <1>7 DEF Prepare, ObjectFields
  <2> QED BY <1>1, <1>7, <2>1 DEF Prepare, InitializedHasBlock
<1>8. CASE \E o \in Objects : \/ \E x \in Transfers(object[o].istx) : PrepareTransfer(o, x)
                              \/ Enable(o) \/ Disable(o)
  BY <1>2, <1>8 DEF PrepareTransfer, Enable, Disable, dmaProcess
<1>9. CASE WriteField \/ WriteConblk
  BY <1>2, <1>9 DEF WriteField, WriteConblk
<1>10. CASE DmaRestart
  BY <1>10 DEF DmaRestart, FreshObject, InitializedHasBlock
<1>11. CASE \/ \E n \in AllocSizes : Allocate(n)
            \/ BufferStep \/ \E c \in Channels : EngineStep(c)
  BY <1>2, <1>11 DEF Allocate, BufferStep, EngineStep, EngineLoad, EngineMove, dmaProcess
<1> QED BY <1>3, <1>4, <1>5, <1>6, <1>7, <1>8, <1>9, <1>10, <1>11 DEF DmaNext

\* A transfer a client asks for is of the right type.
LEMMA TransfersAsked ==
  ASSUME BufTypeOK, NEW istx, NEW x \in Transfers(istx), x.count # 0
  PROVE  x \in Asked
<1>1. /\ x \in [addr : {b.ptr : b \in DataBlocks} \cup ForeignAddrs,
                bytewidth : ByteWidths, count : Counts, flags : FlagSets]
  BY DEF Transfers
<1>2. \A b \in DataBlocks : b.ptr \in Nat
  BY DEF DataBlocks, BufTypeOK, Blocks
<1>3. ForeignAddrs \subseteq Nat
  BY DmaAssumption
<1>4. x.addr \in Nat
  BY <1>1, <1>2, <1>3
<1> QED BY <1>1, <1>4 DEF Asked

\* The engine does not touch a channel that is quiet.
LEMMA EngineLeavesQuiet ==
  ASSUME regs \in [Channels -> ChannelRegs], NEW c \in Channels, EngineStep(c),
         NEW d \in Channels, Quiet(d)
  PROVE  regs'[d] = regs[d]
<1>1. c # d /\ regs[c] \in ChannelRegs
  BY DEF EngineStep, EngineLoad, EngineMove, Quiet
<1>2. CASE EngineLoad(c)
  BY <1>1, <1>2 DEF EngineLoad
<1>3. CASE EngineMove(c)
  BY <1>1, <1>3 DEF EngineMove
<1> QED BY <1>2, <1>3 DEF EngineStep

\* There are six fields.
LEMMA SixFields == Len(CbFields) = 6
BY DEF CbFields

\* The order of the calls is kept.
LEMMA CallsStep ==
  ASSUME PlainInv, DmaNext
  PROVE  CallsInv'
<1>1. /\ object \in [Objects -> ObjectFields] /\ CallsInv /\ BufTypeOK
      /\ regs \in [Channels -> ChannelRegs]
      /\ \A o \in Objects : object[o].initialized => object[o].chnum \in Channels
  BY DEF PlainInv, DmaTypeOK, InitializedHasBlock
<1>2. /\ app \in Apps
      /\ app.at \in {"init", "initcb", "initregs"} =>
           app.o \in Objects /\ app = [at |-> app.at, o |-> app.o]
      /\ app.at = "prepare" =>
           /\ app.o \in Objects
           /\ app \in [at : {"prepare"}, o : Objects, xfer : Asked, written : 0 .. 6]
  BY <1>1, AppFields DEF CallsInv
<1>3. CASE app' = Idle
  BY <1>3 DEF CallsInv, Apps, Idle
<1>4. CASE app' = [at |-> "dead"] /\ pc' = "idle"
  BY <1>4 DEF CallsInv, Apps
<1>5. CASE \E n \in AllocSizes : Allocate(n)
  BY <1>3, <1>5 DEF Allocate, Free, dmaProcess
<1>6. CASE BufferStep
  <2>1. /\ app' = app /\ object' = object /\ regs' = regs /\ call' = call
        /\ pc \in {"alloc", "lock", "map", "bump"}
    BY <1>6 DEF BufferStep, dmaProcess, engine, BufStep, AllocVpuMem, LockVpuMem,
                StoreAddresses, MapBuffer, Bump, GiveOut
  <2>2. call.fn = "init" /\ pc # "bump" => pc' # "bump"
    BY <1>6 DEF BufferStep, BufStep, AllocVpuMem, LockVpuMem,
                StoreAddresses, MapBuffer, Bump, GiveOut, AfterInit
  <2> QED BY <1>1, <2>1, <2>2 DEF CallsInv
<1>7. ASSUME NEW o \in Objects, NEW n \in ChannelArgs, InitBegin(o, n)
      PROVE  CallsInv'
  <2>1. CASE UNCHANGED <<app, bufVars>>
    BY <1>3, <1>7, <2>1 DEF InitBegin, InitWithin, Free
  <2>2. CASE /\ n \in Channels /\ app' = [at |-> "init", o |-> o] /\ Call("init", 0)
             /\ object' = [object EXCEPT ![o].initialized = FALSE, ![o].chnum = n]
    <3>1. object'[o].chnum = n /\ ~object'[o].initialized
      BY <1>1, <2>2 DEF ObjectFields
    <3>2. call'.fn = "init" /\ pc' # "bump"
      BY <2>2 DEF Call, CallWith, AfterInit
    <3>3. app' \in Apps
      BY <2>2 DEF Apps
    <3> QED BY <2>2, <3>1, <3>2, <3>3 DEF CallsInv
  <2> QED BY <1>7, <2>1, <2>2 DEF InitBegin, InitWithin
<1>8. CASE InitAllocate
  <2>1. /\ app.o \in Objects /\ app = [at |-> "init", o |-> app.o] /\ object' = object
        /\ object[app.o].chnum \in Channels /\ ~object[app.o].initialized
    BY <1>1, <1>2, <1>8 DEF InitAllocate, CallsInv
  <2>2. CASE /\ object[app.o].cb = NULL /\ Call("allocate", CbSize)
             /\ app' = [app EXCEPT !.at = "initcb"]
    <3>1. app' = [at |-> "initcb", o |-> app.o] /\ app' \in Apps
      BY <2>1, <2>2 DEF Apps
    <3>2. call' = [fn |-> "allocate", asize |-> CbSize]
      BY <2>2 DEF Call, CallWith
    <3> QED BY <2>1, <2>2, <3>1, <3>2 DEF CallsInv
  <2>3. CASE /\ object[app.o].cb # NULL /\ UNCHANGED bufVars
             /\ app' = [app EXCEPT !.at = "initregs"]
    <3>1. app' = [at |-> "initregs", o |-> app.o] /\ app' \in Apps
      BY <2>1, <2>3 DEF Apps
    <3>2. pc' = "idle"
      BY <1>8, <2>3 DEF InitAllocate, bufVars, process
    <3> QED BY <2>1, <2>3, <3>1, <3>2 DEF CallsInv
  <2> QED BY <1>8, <2>2, <2>3 DEF InitAllocate
<1>9. CASE InitTakeBlock
  <2>1. /\ app.o \in Objects /\ app = [at |-> "initcb", o |-> app.o]
        /\ object[app.o].chnum \in Channels /\ ~object[app.o].initialized
    BY <1>1, <1>2, <1>9 DEF InitTakeBlock, TakeBlock, CallsInv
  <2>2. CASE ret # NULL
    <3>1. app' = [at |-> "initregs", o |-> app.o] /\ app' \in Apps
      BY <1>9, <2>1, <2>2 DEF InitTakeBlock, TakeBlock, Apps
    <3>2. /\ object'[app.o].cb = ret /\ object'[app.o].chnum = object[app.o].chnum
          /\ object'[app.o].initialized = object[app.o].initialized
      BY <1>1, <1>9, <2>1 DEF InitTakeBlock, TakeBlock, ObjectFields
    <3>3. pc' = "idle"
      BY <1>9 DEF InitTakeBlock, TakeBlock, bufVars, process
    <3> QED BY <2>1, <2>2, <3>1, <3>2, <3>3 DEF CallsInv
  <2> QED BY <1>3, <1>9, <2>2 DEF InitTakeBlock, TakeBlock
<1>10. CASE InitRegs
  <2>1. pc' = "idle"
    BY <1>1, <1>10 DEF InitRegs, Reset, CallsInv, bufVars, process
  <2> QED BY <1>3, <1>4, <1>10, <2>1 DEF InitRegs, Reset
<1>11. CASE \E o \in Objects : \/ \E b \in BOOLEAN, a \in PeriphAddrs : Prepare(o, b, a)
                               \/ Enable(o) \/ Disable(o)
  BY <1>3, <1>11 DEF Prepare, Enable, Disable, dmaProcess, Ready, Free
<1>12. ASSUME NEW o \in Objects, NEW x \in Transfers(object[o].istx), PrepareTransfer(o, x)
       PROVE  CallsInv'
  <2>1. x \in Asked
    BY <1>1, <1>12, TransfersAsked DEF PrepareTransfer
  <2>2. app' = [at |-> "prepare", o |-> o, xfer |-> x, written |-> 0] /\ app' \in Apps
    BY <1>12, <2>1 DEF PrepareTransfer, Apps
  <2>3. object' = object /\ regs' = regs /\ pc' = "idle"
    BY <1>12 DEF PrepareTransfer, engine, bufVars, process, Ready, Free
  <2> QED BY <1>12, <2>2, <2>3 DEF CallsInv, PrepareTransfer, Ready, Quiet
<1>13. CASE WriteField
  <2>1. /\ app.o \in Objects /\ pc' = "idle" /\ object' = object /\ regs' = regs
        /\ app \in [at : {"prepare"}, o : Objects, xfer : Asked, written : 0 .. 6]
        /\ app.written < 6
    BY <1>1, <1>2, <1>13, SixFields DEF WriteField, CallsInv, bufVars, process
  <2>2. CASE InBuffer(object[app.o].cb) /\ app' = [app EXCEPT !.written = @ + 1]
    <3>1. app' \in [at : {"prepare"}, o : Objects, xfer : Asked, written : 0 .. 6]
          /\ app'.o = app.o
      BY <2>1, <2>2
    <3>2. app' \in Apps /\ app'.at = "prepare"
      BY <3>1 DEF Apps
    <3>3. InBuffer(object[app.o].cb)'
      BY <1>13, <2>1, <2>2, <3>1 DEF WriteField, InBuffer, bufVars, process
    <3>4. object[app.o].initialized /\ Quiet(object[app.o].chnum)
      BY <1>1, <1>13 DEF CallsInv, WriteField
    <3> QED BY <2>1, <3>1, <3>2, <3>3, <3>4 DEF CallsInv, Quiet
  <2> QED BY <1>4, <1>13, <2>1, <2>2 DEF WriteField
<1>14. CASE WriteConblk
  BY <1>3, <1>14 DEF WriteConblk
<1>15. CASE DmaRestart
  BY <1>3, <1>15 DEF DmaRestart
<1>16. ASSUME NEW c \in Channels, EngineStep(c)
       PROVE  CallsInv'
  <2>1. UNCHANGED <<bufVars, dmaProcess>>
    BY <1>16 DEF EngineStep, EngineLoad, EngineMove
  <2>2. app.at = "prepare" => Quiet(object[app.o].chnum)'
    <3> SUFFICES ASSUME app.at = "prepare" PROVE Quiet(object[app.o].chnum)'
      OBVIOUS
    <3>1. object[app.o].chnum \in Channels /\ Quiet(object[app.o].chnum)
      BY <1>1, <1>2 DEF CallsInv
    <3>2. regs'[object[app.o].chnum] = regs[object[app.o].chnum]
      BY <1>1, <1>16, <3>1, EngineLeavesQuiet
    <3> QED BY <2>1, <3>1, <3>2 DEF Quiet, dmaProcess
  <2> QED BY <1>1, <2>1, <2>2 DEF CallsInv, InBuffer, bufVars, process, dmaProcess, allocator
<1> QED BY <1>5, <1>6, <1>7, <1>8, <1>9, <1>10, <1>11, <1>12, <1>13, <1>14, <1>15,
           <1>16 DEF DmaNext

-----------------------------------------------------------------------------
(* The control blocks.                                                     *)

\* What is asked for is rounded to granules; a control block is one already.
LEMMA RoundUpGranules ==
  /\ \A n \in 0 .. WordMod - 1 : RoundUp(n) \in Nat /\ RoundUp(n) % Granule = 0
  /\ CbSize \in 0 .. WordMod - 1 /\ RoundUp(CbSize) = CbSize
<1>1. ASSUME NEW n \in 0 .. WordMod - 1
      PROVE  RoundUp(n) \in Nat /\ RoundUp(n) % Granule = 0
  <2> DEFINE sum == (n + 31) % WordMod
  <2>1. sum \in Nat
    BY BufferAssumption
  <2>2. RoundUp(n) = sum - (sum % 32)
    BY DEF RoundUp, Granule
  <2> HIDE DEF sum
  <2>3. (sum - (sum % 32)) \in Nat /\ (sum - (sum % 32)) % 32 = 0
    BY <2>1
  <2> QED BY <2>2, <2>3 DEF Granule
<1>2. WordMod \in Nat /\ 63 < WordMod
  BY BufferAssumption, DmaAssumption DEF CbSize, Granule
<1>3. 63 % WordMod = 63
  BY <1>2
<1>4. RoundUp(32) = 63 - (63 % 32)
  BY <1>3 DEF RoundUp, Granule
<1>5. 63 % 32 = 31
  OBVIOUS
<1> QED BY <1>1, <1>2, <1>4, <1>5 DEF CbSize

\* Every piece given out before the running Bump lies below the new one.
LEMMA PiecesBelow ==
  ASSUME BufTypeOK, AllocatorInv, NEW b \in blocks
  PROVE  /\ b.ptr \in Nat /\ b.len \in Nat
         /\ b.ptr + b.len <= g_dma_buffer + g_dma_buffer_allocated
<1>1. /\ b.ptr \in Nat /\ b.len \in Nat /\ g_dma_buffer_allocated \in Nat
      /\ MapBase \in Nat
      /\ g_dma_buffer \in {0, MapBase} /\ g_dma_buffer_allocated \in 0 .. HWDMA_BUFFER_SIZE
  BY BufferAssumption DEF BufTypeOK, Blocks, NULL
<1>2. \/ b.ptr + b.len <= g_dma_buffer_allocated
      \/ /\ g_dma_buffer = MapBase
         /\ b.ptr + b.len <= MapBase + g_dma_buffer_allocated
  BY DEF AllocatorInv
<1> QED BY <1>1, <1>2

\* BlocksInv is kept by a step that gives out nothing and takes no block.
LEMMA BlocksKept ==
  ASSUME BlocksInv, UNCHANGED allocator,
         \A o \in Objects : object'[o].cb = object[o].cb,
         app'.at = "initcb" /\ pc' = "idle" => app.at = "initcb" /\ pc = "idle"
  PROVE  BlocksInv'
BY DEF BlocksInv, OnGranule, IsControlBlock, allocator

\* The allocator gives out a piece that belongs to nobody.
LEMMA BumpKeepsBlocks ==
  ASSUME PlainInv, Bump, UNCHANGED dmaProcess
  PROVE  BlocksInv'
<1> DEFINE asize == RoundUp(call.asize)
           next  == g_dma_buffer + g_dma_buffer_allocated
           new   == [ptr |-> next, len |-> asize, req |-> call.asize]
<1>1. /\ BufTypeOK /\ AllocatorInv /\ CallsInv /\ BlocksInv
      /\ object \in [Objects -> ObjectFields] /\ app' = app /\ object' = object
  BY DEF PlainInv, DmaTypeOK, dmaProcess
<1>2. /\ g_dma_buffer \in {0, MapBase} /\ g_dma_buffer_allocated \in 0 .. HWDMA_BUFFER_SIZE
      /\ MapBase \in Nat /\ HWDMA_BUFFER_SIZE < MapBase /\ HWDMA_BUFFER_SIZE \in Nat
      /\ g_dma_buffer_allocated % 32 = 0 /\ call.asize \in 0 .. WordMod - 1
  BY <1>1, BufferAssumption DEF BufTypeOK, BlocksInv, Granule, NULL
<1>3. asize \in Nat /\ asize % 32 = 0
  BY <1>2, RoundUpGranules DEF Granule
<1>4. OnGranule(next)
  BY <1>2 DEF OnGranule, Granule
<1>5. CASE ret' = NULL /\ UNCHANGED <<g_dma_buffer_allocated, blocks>>
  BY <1>1, <1>2, <1>5 DEF BlocksInv, OnGranule, IsControlBlock, NULL
<1>6. CASE /\ ret' = next /\ g_dma_buffer_allocated' = g_dma_buffer_allocated + asize
           /\ blocks' = blocks \cup (IF next = NULL THEN {} ELSE {new})
  <2>1. g_dma_buffer_allocated' % 32 = 0
    <3> HIDE DEF asize
    <3> QED BY <1>2, <1>3, <1>6
  <2>2. \A p : IsControlBlock(p) => IsControlBlock(p)'
    BY <1>6 DEF IsControlBlock
  <2>3. \A o \in Objects : object[o].cb # NULL =>
          /\ IsControlBlock(object[o].cb) /\ OnGranule(object[o].cb)
          /\ \A p \in Objects : o # p => object[o].cb # object[p].cb
    BY <1>1 DEF BlocksInv
  <2>4. ASSUME app.at = "initcb", next # NULL
        PROVE  /\ \E b \in blocks' : b.ptr = next /\ b.len = CbSize
               /\ \A o \in Objects : object[o].cb # next
    <3>1. call.asize = CbSize
      BY <1>1, <2>4 DEF Bump, GiveOut, CallsInv
    <3>2. new.ptr = next /\ new.len = CbSize /\ new \in blocks'
      BY <1>6, <2>4, <3>1, RoundUpGranules
    <3>3. ASSUME NEW o \in Objects PROVE object[o].cb # next
      <4>1. CASE object[o].cb = NULL
        BY <2>4, <4>1
      <4>2. CASE object[o].cb # NULL
        <5>1. PICK b \in blocks : b.ptr = object[o].cb /\ b.len = CbSize
          BY <2>3, <4>2 DEF IsControlBlock
        <5>2. b.ptr \in Nat /\ b.ptr + CbSize <= next
          BY <1>1, <5>1, PiecesBelow
        <5>3. next \in Nat
          BY <1>2
        <5> HIDE DEF next
        <5> QED BY <5>1, <5>2, <5>3 DEF CbSize
      <4> QED BY <4>1, <4>2
    <3> HIDE DEF new, next
    <3> QED BY <3>2, <3>3
  <2>5. ret' # NULL /\ app'.at = "initcb" =>
          IsControlBlock(ret)' /\ \A o \in Objects : object'[o].cb # ret'
    BY <1>1, <1>6, <2>4 DEF IsControlBlock
  <2>6. \A o \in Objects : object'[o].cb # NULL =>
          /\ IsControlBlock(object[o].cb)' /\ OnGranule(object'[o].cb)
          /\ \A p \in Objects : o # p => object'[o].cb # object'[p].cb
    BY <1>1, <2>2, <2>3 DEF IsControlBlock
  <2>7. OnGranule(ret')
    BY <1>4, <1>6
  <2> QED BY <2>1, <2>5, <2>6, <2>7 DEF BlocksInv, OnGranule, Granule
<1> QED BY <1>5, <1>6 DEF Bump, GiveOut

\* Each object keeps a control block of its own.
LEMMA BlocksStep ==
  ASSUME PlainInv, DmaNext
  PROVE  BlocksInv'
<1>1. /\ object \in [Objects -> ObjectFields] /\ CallsInv /\ BlocksInv /\ app \in Apps
      /\ BufTypeOK
  BY DEF PlainInv, DmaTypeOK, CallsInv
<1>2. CASE \E n \in AllocSizes : Allocate(n)
  BY <1>1, <1>2, BlocksKept DEF Allocate, Call, CallWith, dmaProcess, Free, Idle
<1>3. CASE BufferStep
  <2>1. CASE Bump
    BY <1>3, <2>1, BumpKeepsBlocks DEF BufferStep
  <2>2. CASE AllocVpuMem \/ LockVpuMem \/ MapBuffer
    <3>1. UNCHANGED allocator /\ UNCHANGED dmaProcess
      BY <1>3, <2>2 DEF BufferStep, AllocVpuMem, LockVpuMem, StoreAddresses, MapBuffer
    <3>2. app.at = "initcb" => pc' # "idle"
      BY <1>1, <2>2 DEF CallsInv, AllocVpuMem, LockVpuMem, StoreAddresses, MapBuffer, AfterInit
    <3> QED BY <1>1, <3>1, <3>2, BlocksKept DEF dmaProcess
  <2> QED BY <1>3, <2>1, <2>2 DEF BufferStep, BufStep
<1>4. ASSUME NEW o \in Objects, NEW n \in ChannelArgs, InitBegin(o, n)
      PROVE  BlocksInv'
  <2>1. \A p \in Objects : object'[p].cb = object[p].cb
    BY <1>1, <1>4 DEF InitBegin, InitWithin, ObjectFields
  <2>2. UNCHANGED allocator /\ app'.at # "initcb"
    BY <1>4 DEF InitBegin, InitWithin, bufVars, process, Call, CallWith, Free, Idle
  <2> QED BY <1>1, <2>1, <2>2, BlocksKept
<1>5. CASE InitAllocate
  <2>1. UNCHANGED allocator /\ object' = object
    BY <1>5 DEF InitAllocate, bufVars, process, Call, CallWith
  <2>2. app'.at = "initcb" => pc' # "idle"
    <3>1. app.at = "init" /\ app \in [at : {"init", "initcb", "initregs"}, o : Objects]
      BY <1>1, <1>5, AppFields DEF InitAllocate
    <3>2. CASE Call("allocate", CbSize)
      BY <3>2 DEF Call, CallWith, AfterInit
    <3>3. CASE app' = [app EXCEPT !.at = "initregs"]
      BY <3>1, <3>3
    <3> QED BY <1>5, <3>2, <3>3 DEF InitAllocate
  <2> QED BY <1>1, <2>1, <2>2, BlocksKept
<1>6. CASE InitTakeBlock
  <2>1. /\ app \in [at : {"init", "initcb", "initregs"}, o : Objects] /\ app.o \in Objects
        /\ app.at = "initcb" /\ object[app.o].cb = NULL
    BY <1>1, <1>6, AppFields DEF InitTakeBlock, TakeBlock, CallsInv
  <2>2. /\ object'[app.o].cb = ret
        /\ \A p \in Objects \ {app.o} : object'[p].cb = object[p].cb
    BY <1>1, <1>6, <2>1 DEF InitTakeBlock, TakeBlock, ObjectFields
  <2>3. UNCHANGED allocator /\ app'.at # "initcb"
    BY <1>6, <2>1 DEF InitTakeBlock, TakeBlock, bufVars, process, Idle
  <2>4. ret # NULL => /\ IsControlBlock(ret) /\ OnGranule(ret)
                      /\ \A o \in Objects : object[o].cb # ret
    BY <1>1, <1>6 DEF BlocksInv, InitTakeBlock, TakeBlock
  <2>5. ASSUME NEW o \in Objects, object'[o].cb # NULL
        PROVE  /\ IsControlBlock(object'[o].cb) /\ OnGranule(object'[o].cb)
               /\ \A p \in Objects : o # p => object'[o].cb # object'[p].cb
    <3>1. CASE o = app.o
      BY <2>2, <2>4, <2>5, <3>1
    <3>2. CASE o # app.o
      BY <1>1, <2>2, <2>4, <2>5, <3>2 DEF BlocksInv
    <3> QED BY <3>1, <3>2
  <2>6. \A p : IsControlBlock(p) => IsControlBlock(p)'
    BY <2>3 DEF IsControlBlock, allocator
  <2> QED BY <1>1, <2>3, <2>5, <2>6 DEF BlocksInv, OnGranule, allocator
<1>7. CASE InitRegs
  <2>1. \A p \in Objects : object'[p].cb = object[p].cb
    BY <1>1, <1>7, AppFields DEF InitRegs, Reset, ObjectFields
  <2> QED BY <1>1, <1>7, <2>1, BlocksKept DEF InitRegs, Reset, bufVars, process, Idle
<1>8. ASSUME NEW o \in Objects, NEW b \in BOOLEAN, NEW a \in PeriphAddrs, Prepare(o, b, a)
      PROVE  BlocksInv'
  <2>1. \A p \in Objects : object'[p].cb = object[p].cb
    BY <1>1, <1>8 DEF Prepare, ObjectFields
  <2> QED BY <1>1, <1>8, <2>1, BlocksKept DEF Prepare, bufVars, process
<1>9. CASE \E o \in Objects : \/ \E x \in Transfers(object[o].istx) : PrepareTransfer(o, x)
                              \/ Enable(o) \/ Disable(o)
  BY <1>1, <1>9, BlocksKept DEF PrepareTransfer, Enable, Disable, dmaProcess, bufVars, process
<1>10. CASE WriteField \/ WriteConblk
  <2>1. app'.at # "initcb"
    <3>1. app \in [at : {"prepare"}, o : Objects, xfer : Asked, written : 0 .. 6]
      BY <1>1, <1>10, AppFields DEF WriteField, WriteConblk
    <3> QED BY <1>10, <3>1 DEF WriteField, WriteConblk, Idle
  <2> QED BY <1>1, <1>10, <2>1, BlocksKept DEF WriteField, WriteConblk, bufVars, process
<1>11. CASE DmaRestart
  <2>1. /\ g_dma_buffer_allocated' = 0 /\ ret' = NULL
        /\ \A o \in Objects : object'[o].cb = NULL
    BY <1>11 DEF DmaRestart, Restart, StartWith, FreshObject
  <2>2. OnGranule(ret')
    BY <2>1, BufferAssumption DEF OnGranule, NULL
  <2> QED BY <2>1, <2>2 DEF BlocksInv, Granule, OnGranule
<1>12. CASE \E c \in Channels : EngineStep(c)
  BY <1>1, <1>12, BlocksKept
     DEF EngineStep, EngineLoad, EngineMove, dmaProcess, bufVars, process
<1> QED BY <1>2, <1>3, <1>4, <1>5, <1>6, <1>7, <1>8, <1>9, <1>10, <1>11, <1>12
        DEF DmaNext

-----------------------------------------------------------------------------
(* Bus addresses, registers and control blocks.                            *)

\* The bus address of a granule in the buffer is one of a control block; of
\* any pointer it is a natural number.
LEMMA BusAddressTypes ==
  ASSUME BufTypeOK
  PROVE  /\ \A p : InBuffer(p) /\ OnGranule(p) => hwdma_bus_address(p) \in CbAddrs
         /\ \A p \in Nat : hwdma_bus_address(p) \in Nat
         /\ 0 \in CbAddrs
<1> DEFINE S == HWDMA_BUFFER_SIZE
<1>1. /\ S \in Nat /\ S > 0 /\ S % 32 = 0 /\ MapBase \in Nat /\ S < MapBase
      /\ g_dma_buffer \in {0, MapBase} /\ g_dma_buffer_size \in {0, S}
      /\ g_dmabuf_bus_addr \in BusAddrs
  BY BufferAssumption DEF BufTypeOK, Granule, NULL
<1>2. g_dmabuf_bus_addr \in Nat
  BY <1>1, BufferMapped
<1>3. S \div 32 >= 1
  <2> HIDE DEF S
  <2> QED BY <1>1
<1>4. ASSUME NEW p, InBuffer(p), OnGranule(p)
      PROVE  hwdma_bus_address(p) \in CbAddrs
  <2> DEFINE off == p - MapBase
             k == off \div 32
  <2>1. /\ g_dma_buffer = MapBase /\ g_dma_buffer_size = S
        /\ p \in MapBase .. MapBase + S - 1
    BY <1>1, <1>4 DEF InBuffer, NULL
  <2>2. off \in 0 .. S - 1 /\ off % 32 = 0
    BY <1>1, <1>4, <2>1 DEF OnGranule, Granule
  <2>3. hwdma_bus_address(p) = g_dmabuf_bus_addr + off
    BY <1>1, <2>1 DEF hwdma_bus_address
  <2>4. off = 32 * k /\ k \in 0 .. (S \div 32) - 1
    <3> HIDE DEF S, off
    <3> QED BY <1>1, <2>2
  <2> HIDE DEF S, off, k
  <2>5. hwdma_bus_address(p) = g_dmabuf_bus_addr + CbSize * k
    BY <2>3, <2>4 DEF CbSize
  <2>6. g_dmabuf_bus_addr \in {0} \cup {BusOf(h) : h \in Handles}
    BY <1>1 DEF BusAddrs
  <2> QED BY <2>4, <2>5, <2>6 DEF CbAddrs, S, CbSize
<1>5. \A p \in Nat : hwdma_bus_address(p) \in Nat
  BY <1>1, <1>2 DEF hwdma_bus_address
<1>6. 0 \in CbAddrs
  <2>1. 0 = 0 + CbSize * 0 /\ 0 \in 0 .. (S \div CbSize) - 1
    <3> HIDE DEF S
    <3> QED BY <1>1, <1>3 DEF CbSize
  <2> QED BY <2>1 DEF CbAddrs
<1> QED BY <1>4, <1>5, <1>6

\* A blank control block, and a channel after reset, are of the right type.
LEMMA BlankTypes ==
  ASSUME BufTypeOK
  PROVE  BlankBlock \in ControlBlocks /\ ResetChannel \in ChannelRegs
<1>1. 0 \in CbAddrs /\ 0 \in 0 .. LenMod - 1
  BY BusAddressTypes, DmaAssumption
<1>2. BlankBlock \in ControlBlocks
  BY <1>1 DEF BlankBlock, ControlBlocks, TxfrLen, Addresses
<1> QED BY <1>1, <1>2 DEF ResetChannel, ChannelRegs

\* What PrepareTransfer writes is a control block.
LEMMA ControlBlockType ==
  ASSUME BufTypeOK, NEW d \in ObjectFields, NEW x \in Asked,
         InBuffer(d.cb), OnGranule(d.cb)
  PROVE  ControlBlock(d, x) \in ControlBlocks
<1>1. /\ hwdma_bus_address(d.cb) \in CbAddrs /\ hwdma_bus_address(x.addr) \in Nat
      /\ 0 \in CbAddrs
  BY BusAddressTypes DEF Asked
<1>2. d.periphaddr \in Nat /\ d.istx \in BOOLEAN
  <2>1. \A a \in PeriphAddrs \cup {0} : a \in Nat
    BY DmaAssumption
  <2>2. d.periphaddr \in PeriphAddrs \cup {0}
    BY DEF ObjectFields
  <2>3. d.istx \in BOOLEAN
    BY DEF ObjectFields
  <2> QED BY <2>1, <2>2, <2>3
<1>3. x.bytewidth \in {1, 2, 4} /\ x.count \in Nat /\ x.count # 0 /\ LenMod \in Nat \ {0}
  BY DmaAssumption DEF Asked
<1>4. (x.count - 1) % LenMod \in 0 .. LenMod - 1
  BY <1>3
<1>5. Stride(d, x) \in [d : {0, 1, 2, 4}, s : {0, 1, 2, 4}]
  BY <1>3 DEF Stride, Increment
<1>6. NextBlock(d, x) \in CbAddrs
  BY <1>1 DEF NextBlock
<1> QED
  BY <1>1, <1>2, <1>3, <1>4, <1>5, <1>6
     DEF ControlBlock, BlockOf, ControlBlocks, TxfrLen, Addresses

\* A control block in which one field is replaced by that of another.
LEMMA FieldReplaced ==
  ASSUME NEW b \in ControlBlocks, NEW v \in ControlBlocks, NEW i \in 1 .. 6
  PROVE  /\ [b EXCEPT ![CbFields[i]] = v[CbFields[i]]] \in ControlBlocks
         /\ [b EXCEPT ![CbFields[i]] = v[CbFields[i]]][CbFields[i]] = v[CbFields[i]]
         /\ \A j \in (1 .. 6) \ {i} :
              [b EXCEPT ![CbFields[i]] = v[CbFields[i]]][CbFields[j]] = b[CbFields[j]]
<1>1. /\ CbFields[1] = "SOURCE_AD" /\ CbFields[2] = "DEST_AD" /\ CbFields[3] = "TI"
      /\ CbFields[4] = "TXFR_LEN" /\ CbFields[5] = "STRIDE" /\ CbFields[6] = "NEXTCONBK"
  BY DEF CbFields
<1>2. i \in {1, 2, 3, 4, 5, 6} /\ 1 .. 6 = {1, 2, 3, 4, 5, 6}
  OBVIOUS
<1>3. CASE i = 1
  BY <1>1, <1>2, <1>3 DEF ControlBlocks
<1>4. CASE i = 2
  BY <1>1, <1>2, <1>4 DEF ControlBlocks
<1>5. CASE i = 3
  BY <1>1, <1>2, <1>5 DEF ControlBlocks
<1>6. CASE i = 4
  BY <1>1, <1>2, <1>6 DEF ControlBlocks
<1>7. CASE i = 5
  BY <1>1, <1>2, <1>7 DEF ControlBlocks
<1>8. CASE i = 6
  BY <1>1, <1>2, <1>8 DEF ControlBlocks
<1> QED BY <1>2, <1>3, <1>4, <1>5, <1>6, <1>7, <1>8

\* A row is moved, or the transfer is over: the channel stays of its type.
LEMMA MoveTypes ==
  ASSUME BufTypeOK, regs \in [Channels -> ChannelRegs], NEW c \in Channels, EngineMove(c)
  PROVE  regs' \in [Channels -> ChannelRegs]
<1> DEFINE cb == regs[c].cb
<1>1. regs[c] \in ChannelRegs /\ cb \in ControlBlocks
  BY DEF ChannelRegs
<1>2. /\ cb.TXFR_LEN.y \in 0 .. LenMod - 1 /\ cb.SOURCE_AD \in Nat /\ cb.DEST_AD \in Nat
      /\ cb.STRIDE.s \in Nat /\ cb.STRIDE.d \in Nat /\ cb.NEXTCONBK \in CbAddrs
      /\ cb.TXFR_LEN \in TxfrLen /\ LenMod \in Nat
  BY <1>1, DmaAssumption DEF ControlBlocks, TxfrLen, Addresses
<1>3. CASE /\ cb.TXFR_LEN.y > 0
           /\ regs' = [regs EXCEPT ![c].cb.TXFR_LEN.y = @ - 1,
                                   ![c].cb.SOURCE_AD = @ + cb.STRIDE.s,
                                   ![c].cb.DEST_AD = @ + cb.STRIDE.d]
  <2> DEFINE len == [cb.TXFR_LEN EXCEPT !.y = @ - 1]
             src == cb.SOURCE_AD + cb.STRIDE.s
             dst == cb.DEST_AD + cb.STRIDE.d
             new == [cb EXCEPT !.TXFR_LEN = len, !.SOURCE_AD = src, !.DEST_AD = dst]
             ch == [regs[c] EXCEPT !.cb = new]
  <2>1. len \in TxfrLen
    BY <1>2, <1>3 DEF TxfrLen
  <2>2. src \in Nat /\ dst \in Nat
    BY <1>2
  <2>3. regs' = [regs EXCEPT ![c] = ch]
    <3>1. regs' = [regs EXCEPT ![c].cb.TXFR_LEN.y = cb.TXFR_LEN.y - 1,
                               ![c].cb.SOURCE_AD = src, ![c].cb.DEST_AD = dst]
      BY <1>1, <1>3 DEF ChannelRegs, ControlBlocks
    <3> HIDE DEF src, dst
    <3> QED BY <1>1, <3>1, Zenon DEF ChannelRegs, ControlBlocks
  <2>4. new \in ControlBlocks
    <3> HIDE DEF cb, len, src, dst
    <3> QED BY <1>1, <2>1, <2>2 DEF ControlBlocks, Addresses
  <2>5. ch \in ChannelRegs
    <3> HIDE DEF new, cb
    <3> QED BY <1>1, <2>4 DEF ChannelRegs
  <2> HIDE DEF ch
  <2> QED BY <2>3, <2>5
<1>4. CASE regs' = [regs EXCEPT ![c] = [ACTIVE |-> cb.NEXTCONBK # 0,
                                        CONBLK_AD |-> cb.NEXTCONBK,
                                        loaded |-> FALSE, cb |-> BlankBlock]]
  <2>1. [ACTIVE |-> cb.NEXTCONBK # 0, CONBLK_AD |-> cb.NEXTCONBK,
         loaded |-> FALSE, cb |-> BlankBlock] \in ChannelRegs
    BY <1>2, BlankTypes DEF ChannelRegs
  <2> QED BY <1>4, <2>1
<1> QED BY <1>3, <1>4 DEF EngineMove

\* The registers keep their types: the engine is only ever pointed at a
\* control block.
LEMMA RegsStep ==
  ASSUME PlainInv, DmaNext
  PROVE  regs' \in [Channels -> ChannelRegs]
<1>1. /\ regs \in [Channels -> ChannelRegs] /\ memory \in [CbAddrs -> ControlBlocks]
      /\ BufTypeOK /\ CallsInv /\ BlocksInv /\ app \in Apps
      /\ object \in [Objects -> ObjectFields]
  BY DEF PlainInv, DmaTypeOK, CallsInv
<1>2. CASE regs' = regs
  BY <1>1, <1>2
<1>3. CASE InitRegs
  <2>1. ResetChannel \in ChannelRegs
    BY <1>1, BlankTypes
  <2>2. regs' = regs \/ \E s : regs' = [c \in Channels |-> IF c \in s THEN ResetChannel ELSE regs[c]]
    BY <1>3 DEF InitRegs, Reset
  <2> QED BY <1>1, <2>1, <2>2
<1>4. CASE WriteConblk
  <2>1. /\ app \in [at : {"prepare"}, o : Objects, xfer : Asked, written : 0 .. 6]
        /\ app.written = 6
    BY <1>1, <1>4, AppFields, SixFields DEF WriteConblk
  <2>2. InBuffer(object[app.o].cb) /\ OnGranule(object[app.o].cb)
    <3>1. InBuffer(object[app.o].cb)
      BY <1>1, <2>1 DEF CallsInv
    <3>2. object[app.o].cb # NULL
      BY <1>1, <3>1, BufferAssumption DEF InBuffer, BufTypeOK, NULL
    <3> QED BY <1>1, <2>1, <3>1, <3>2 DEF BlocksInv
  <2>3. hwdma_bus_address(object[app.o].cb) \in CbAddrs
    BY <1>1, <2>2, BusAddressTypes
  <2>4. regs' = [regs EXCEPT ![object[app.o].chnum].CONBLK_AD =
                               hwdma_bus_address(object[app.o].cb)]
    BY <1>4 DEF WriteConblk
  <2> QED BY <1>1, <2>3, <2>4 DEF ChannelRegs
<1>5. CASE \E o \in Objects : Enable(o) \/ Disable(o)
  <2>1. PICK o \in Objects : Enable(o) \/ Disable(o)
    BY <1>5
  <2> DEFINE c == object[o].chnum
             v == regs[c].loaded \/ regs[c].CONBLK_AD # 0
  <2>2. regs' = [regs EXCEPT ![c].ACTIVE = v] \/ regs' = [regs EXCEPT ![c].ACTIVE = FALSE]
    BY <2>1 DEF Enable, Disable
  <2>3. v \in BOOLEAN
    OBVIOUS
  <2> HIDE DEF c, v
  <2> QED BY <1>1, <2>2, <2>3 DEF ChannelRegs
<1>6. ASSUME NEW c \in Channels, EngineStep(c)
      PROVE  regs' \in [Channels -> ChannelRegs]
  <2>1. CASE EngineLoad(c)
    <3>1. memory[regs[c].CONBLK_AD] \in ControlBlocks
      BY <1>1, <2>1 DEF EngineLoad
    <3>2. regs' = [regs EXCEPT ![c] = [regs[c] EXCEPT !.loaded = TRUE,
                                          !.cb = memory[regs[c].CONBLK_AD]]]
      BY <1>1, <2>1 DEF EngineLoad, ChannelRegs
    <3>3. [regs[c] EXCEPT !.loaded = TRUE, !.cb = memory[regs[c].CONBLK_AD]] \in ChannelRegs
      BY <1>1, <3>1 DEF ChannelRegs
    <3> QED BY <1>1, <3>2, <3>3
  <2>2. CASE EngineMove(c)
    BY <1>1, <2>2, MoveTypes
  <2> QED BY <1>6, <2>1, <2>2 DEF EngineStep
<1>7. CASE \/ \E n \in AllocSizes : Allocate(n)
           \/ BufferStep \/ \E o \in Objects, n \in ChannelArgs : InitBegin(o, n)
           \/ InitAllocate \/ InitTakeBlock
  BY <1>2, <1>7 DEF Allocate, BufferStep, InitBegin, InitWithin, InitAllocate,
                    InitTakeBlock, TakeBlock, engine
<1>8. CASE \/ \E o \in Objects : \/ \E b \in BOOLEAN, a \in PeriphAddrs : Prepare(o, b, a)
                                 \/ \E x \in Transfers(object[o].istx) : PrepareTransfer(o, x)
           \/ WriteField \/ DmaRestart
  BY <1>2, <1>8 DEF Prepare, PrepareTransfer, WriteField, DmaRestart, engine
<1> QED BY <1>3, <1>4, <1>5, <1>6, <1>7, <1>8 DEF DmaNext

\* The control blocks in memory keep their types, field by field.
LEMMA MemoryStep ==
  ASSUME PlainInv, DmaNext
  PROVE  memory' \in [CbAddrs -> ControlBlocks]
<1>1. /\ memory \in [CbAddrs -> ControlBlocks]
      /\ BufTypeOK /\ CallsInv /\ BlocksInv /\ app \in Apps
      /\ object \in [Objects -> ObjectFields]
  BY DEF PlainInv, DmaTypeOK, CallsInv
<1>2. CASE memory' = memory
  BY <1>1, <1>2
<1>3. CASE WriteField
  <2> DEFINE d == object[app.o]
             a == hwdma_bus_address(d.cb)
             v == ControlBlock(d, app.xfer)
             i == app.written + 1
  <2>1. /\ app \in [at : {"prepare"}, o : Objects, xfer : Asked, written : 0 .. 6]
        /\ i \in 1 .. 6 /\ d \in ObjectFields /\ app.xfer \in Asked
    BY <1>1, <1>3, AppFields, SixFields DEF WriteField
  <2>2. CASE /\ InBuffer(d.cb)
             /\ memory' = [memory EXCEPT ![a][CbFields[i]] = v[CbFields[i]]]
    <3>1. d.cb # NULL
      BY <1>1, <2>2, BufferAssumption DEF InBuffer, BufTypeOK, NULL
    <3>2. OnGranule(d.cb)
      BY <1>1, <2>1, <3>1 DEF BlocksInv
    <3>3. a \in CbAddrs /\ v \in ControlBlocks
      BY <1>1, <2>1, <2>2, <3>2, BusAddressTypes, ControlBlockType
    <3> DEFINE f == CbFields[i]
    <3>4. memory' = [memory EXCEPT ![a] = [memory[a] EXCEPT ![f] = v[f]]]
      BY <2>2
    <3>5. memory[a] \in ControlBlocks
      BY <1>1, <3>3
    <3> HIDE DEF a, v, i, d
    <3>6. [memory[a] EXCEPT ![f] = v[f]] \in ControlBlocks
      BY <2>1, <3>3, <3>5, FieldReplaced
    <3> HIDE DEF f
    <3> QED BY <1>1, <3>3, <3>4, <3>6
  <2> QED BY <1>2, <1>3, <2>2 DEF WriteField
<1>4. CASE \/ \E n \in AllocSizes : Allocate(n)
           \/ BufferStep \/ \E o \in Objects, n \in ChannelArgs : InitBegin(o, n)
           \/ InitAllocate \/ InitTakeBlock \/ InitRegs
  BY <1>2, <1>4 DEF Allocate, BufferStep, InitBegin, InitWithin, InitAllocate,
                    InitTakeBlock, TakeBlock, InitRegs, Reset, engine
<1>5. CASE \/ \E o \in Objects : \/ \E b \in BOOLEAN, a \in PeriphAddrs : Prepare(o, b, a)
                                 \/ \E x \in Transfers(object[o].istx) : PrepareTransfer(o, x)
                                 \/ Enable(o) \/ Disable(o)
           \/ WriteConblk \/ DmaRestart \/ \E c \in Channels : EngineStep(c)
  BY <1>2, <1>5 DEF Prepare, PrepareTransfer, Enable, Disable, WriteConblk, DmaRestart,
                    EngineStep, EngineLoad, EngineMove, engine
<1> QED BY <1>3, <1>4, <1>5 DEF DmaNext

\* What WriteConblk records is the history of a transfer of this process.
LEMMA AsPreparedType ==
  ASSUME BufTypeOK, NEW d \in ObjectFields, NEW x \in Asked
  PROVE  AsPrepared(d, x) \in PreparedFields /\ IsHistory(AsPrepared(d, x))
<1>1. /\ x.addr \in Nat /\ x.count \in Counts \ {0} /\ x.bytewidth \in ByteWidths
  BY DEF Asked
<1>2. x.count \in Nat /\ x.bytewidth \in {1, 2, 4}
  BY <1>1, DmaAssumption
<1>3. hwdma_bus_address(x.addr) \in Nat
  BY <1>1, BusAddressTypes
<1>4. d.periphaddr \in Nat
  <2>1. \A a \in PeriphAddrs \cup {0} : a \in Nat
    BY DmaAssumption
  <2> QED BY <2>1 DEF ObjectFields
<1>5. d.istx \in BOOLEAN
  BY DEF ObjectFields
<1>6. Increment(d.istx, x) \in {0, 1, 2, 4}
  BY <1>2 DEF Increment
<1>7. starts \in Nat /\ starts # 0
  BY BufferAssumption DEF BufTypeOK
<1>8. AsPrepared(d, x) \in PreparedFields
  BY <1>2, <1>3, <1>4, <1>5, <1>6, <1>7 DEF AsPrepared, PreparedFields
<1> QED BY <1>1, <1>7, <1>8 DEF AsPrepared, IsHistory

\* The histories keep their types.
LEMMA PreparedStep ==
  ASSUME PlainInv, DmaNext
  PROVE  PreparedInv'
<1>1. /\ prepared \in [Channels -> PreparedFields] /\ BufTypeOK /\ app \in Apps
      /\ object \in [Objects -> ObjectFields] /\ starts \in Nat
      /\ \A c \in Channels : IsHistory(prepared[c])
  BY BufferAssumption DEF PlainInv, DmaTypeOK, CallsInv, PreparedInv, BufTypeOK
<1>2. CASE prepared' = prepared /\ starts' = starts
  BY <1>1, <1>2 DEF PreparedInv, IsHistory
<1>3. CASE InitRegs
  <2>1. NothingPrepared \in PreparedFields /\ IsHistory(NothingPrepared)
    BY <1>1 DEF NothingPrepared, PreparedFields, IsHistory
  <2>2. starts' = starts
    BY <1>3 DEF InitRegs, Reset, bufVars
  <2>3. \/ prepared' = prepared
        \/ prepared' = [prepared EXCEPT ![object[app.o].chnum] = NothingPrepared]
    BY <1>3 DEF InitRegs, Reset
  <2>4. \A c \in Channels : /\ prepared'[c] \in PreparedFields
                            /\ prepared'[c] \in {prepared[c], NothingPrepared}
    BY <1>1, <2>1, <2>3
  <2>5. prepared' \in [Channels -> PreparedFields]
    BY <1>1, <2>1, <2>3
  <2> QED BY <1>1, <2>1, <2>2, <2>4, <2>5 DEF PreparedInv, IsHistory
<1>4. CASE WriteConblk
  <2> DEFINE d == object[app.o]
             new == AsPrepared(d, app.xfer)
  <2>1. d \in ObjectFields /\ app.xfer \in Asked
    BY <1>1, <1>4, AppFields DEF WriteConblk
  <2>2. new \in PreparedFields /\ IsHistory(new)
    BY <1>1, <2>1, AsPreparedType
  <2>3. prepared' = [prepared EXCEPT ![d.chnum] = new] /\ starts' = starts
    BY <1>4 DEF WriteConblk, bufVars
  <2> HIDE DEF new, d
  <2>4. /\ prepared' \in [Channels -> PreparedFields]
        /\ \A c \in Channels : prepared'[c] \in {prepared[c], new}
    BY <1>1, <2>2, <2>3
  <2> QED BY <1>1, <2>2, <2>3, <2>4 DEF PreparedInv, IsHistory
<1>5. CASE DmaRestart
  <2>1. prepared' = prepared /\ starts' = starts + 1
    BY <1>5 DEF DmaRestart, Restart, StartWith, engine
  <2> QED BY <1>1, <2>1 DEF PreparedInv, IsHistory, PreparedFields
<1>6. CASE \/ \E n \in AllocSizes : Allocate(n)
           \/ \E o \in Objects, n \in ChannelArgs : InitBegin(o, n)
           \/ InitAllocate \/ InitTakeBlock
  BY <1>2, <1>6 DEF Allocate, InitBegin, InitWithin, InitAllocate, InitTakeBlock,
                    TakeBlock, engine, bufVars, Call, CallWith
<1>7. CASE BufferStep
  BY <1>2, <1>7 DEF BufferStep, BufStep, AllocVpuMem, LockVpuMem, StoreAddresses,
                    MapBuffer, Bump, GiveOut, engine
<1>8. CASE \/ \E o \in Objects : \/ \E b \in BOOLEAN, a \in PeriphAddrs : Prepare(o, b, a)
                                 \/ \E x \in Transfers(object[o].istx) : PrepareTransfer(o, x)
                                 \/ Enable(o) \/ Disable(o)
           \/ WriteField \/ \E c \in Channels : EngineStep(c)
  BY <1>2, <1>8 DEF Prepare, PrepareTransfer, Enable, Disable, WriteField,
                    EngineStep, EngineLoad, EngineMove, engine, bufVars
<1> QED BY <1>3, <1>4, <1>5, <1>6, <1>7, <1>8 DEF DmaNext

-----------------------------------------------------------------------------
(* What holds whatever fails.                                              *)

\* PlainInv holds at the start.
LEMMA PlainInvInit == DmaInit => PlainInv
<1> SUFFICES ASSUME DmaInit PROVE PlainInv
  OBVIOUS
<1>1. BufTypeOK /\ AllocatorInv
  BY BufTypeInit DEF DmaInit, BufInit, AllocatorInv, BlocksDisjoint
<1>2. object \in [Objects -> ObjectFields] /\ g_dma_channel_regs \in BOOLEAN
  BY DEF DmaInit, FreshObject, ObjectFields, NULL
<1>3. /\ regs \in [Channels -> ChannelRegs] /\ memory \in [CbAddrs -> ControlBlocks]
  BY <1>1, BlankTypes DEF DmaInit
<1>4. app = Idle /\ app \in Apps
  BY DEF DmaInit, Apps
<1>5. DmaTypeOK
  BY <1>1, <1>2, <1>3, <1>4 DEF DmaTypeOK, Idle
<1>6. PreparedInv
  BY BufferAssumption DEF DmaInit, BufInit, PreparedInv, NothingPrepared, PreparedFields, IsHistory
<1>7. CallsInv
  BY <1>4 DEF CallsInv, Idle
<1>8. \A o \in Objects : ~object[o].initialized /\ object[o].cb = NULL /\ object[o].chnum = -1
  BY DEF DmaInit, FreshObject
<1>9. BlocksInv
  BY <1>4, <1>8, BufferAssumption DEF DmaInit, BufInit, BlocksInv, OnGranule, Granule, NULL, Idle
<1>10. InitializedHasBlock /\ ChannelsDistinct
  BY <1>8 DEF InitializedHasBlock, ChannelsDistinct, Channels
<1> QED BY <1>1, <1>5, <1>6, <1>7, <1>9, <1>10 DEF PlainInv

\* Every step keeps PlainInv.
LEMMA PlainInvStep == PlainInv /\ [DmaNext]_dmaVars => PlainInv'
<1> SUFFICES ASSUME PlainInv, [DmaNext]_dmaVars PROVE PlainInv'
  OBVIOUS
<1>1. CASE DmaNext
  <2>1. BufTypeOK' /\ AllocatorInv'
    BY <1>1, BufferActs, BufTypeStep, AllocatorInvStep DEF PlainInv, DmaTypeOK
  <2>2. CallsInv'
    BY <1>1, CallsStep
  <2>3. app'.at \in {"idle", "init", "initcb", "initregs", "prepare", "dead"}
    BY <2>2 DEF CallsInv, Apps, Idle
  <2>4. DmaTypeOK'
    BY <1>1, <2>1, <2>3, ObjectsStep, RegsStep, MemoryStep DEF DmaTypeOK
  <2> QED BY <1>1, <2>1, <2>2, <2>4, PreparedStep, BlocksStep, UsableStep, DistinctStep
          DEF PlainInv
<1>2. CASE UNCHANGED dmaVars
  <2>1. UNCHANGED <<bufVars, dmaProcess, engine>>
    BY <1>2 DEF dmaVars
  <2>2. BufTypeOK' /\ AllocatorInv'
    BY <2>1, BufTypeStep, AllocatorInvStep DEF PlainInv, DmaTypeOK, BufAction
  <2>3. /\ DmaTypeOK'
    BY <2>1, <2>2 DEF PlainInv, DmaTypeOK, dmaProcess, engine
  <2>4. UNCHANGED <<process, allocator, starts>>
    BY <2>1 DEF bufVars, process
  <2>5. PreparedInv' /\ CallsInv' /\ BlocksInv'
    BY <2>1, <2>4 DEF PlainInv, PreparedInv, IsHistory, CallsInv, Quiet, InBuffer, BlocksInv,
                      OnGranule, IsControlBlock, dmaProcess, engine, process, allocator
  <2>6. InitializedHasBlock' /\ ChannelsDistinct'
    BY <2>1 DEF PlainInv, InitializedHasBlock, ChannelsDistinct, dmaProcess
  <2> QED BY <2>2, <2>3, <2>5, <2>6 DEF PlainInv
<1> QED BY <1>1, <1>2

\* PlainInv is an invariant.
THEOREM PlainCorrect == DmaSpec => []PlainInv
BY PlainInvInit, PlainInvStep, PTL DEF DmaSpec

\* Objects, registers and control blocks keep their types: no call indexes the
\* register block with a number that is none of a channel, no sequence of
\* calls, faults and deaths points the engine outside the memory where control
\* blocks can lie.
THEOREM DmaTypeCorrect == DmaSpec => []DmaTypeOK
BY PlainCorrect, PTL DEF PlainInv

\* A pointer to a control block is, when all pieces are of the mapped buffer,
\* that of a whole one in it, of which no client has a byte.
LEMMA BlockInBuffer ==
  ASSUME PlainInv, MappedInv, NEW o \in Objects, object[o].cb # NULL
  PROVE  /\ InBuffer(object[o].cb) /\ InBuffer(object[o].cb + CbSize - 1)
         /\ \A b \in DataBlocks :
              b.ptr + b.len <= object[o].cb \/ object[o].cb + CbSize <= b.ptr
<1>1. PICK k \in blocks : k.ptr = object[o].cb /\ k.len = CbSize
  BY DEF PlainInv, BlocksInv, IsControlBlock
<1>2. /\ BufTypeOK /\ AllocatorInv /\ k.ptr \in Nat /\ k.ptr >= MapBase
      /\ MapBase \in Nat /\ HWDMA_BUFFER_SIZE \in Nat /\ HWDMA_BUFFER_SIZE < MapBase
      /\ MapBase # NULL
  BY BufferAssumption DEF PlainInv, DmaTypeOK, BufTypeOK, Blocks, MappedInv, NULL
<1>3. /\ g_dma_buffer_allocated \in 0 .. g_dma_buffer_size
      /\ g_dma_buffer_size \in {0, HWDMA_BUFFER_SIZE}
  BY <1>2 DEF BufTypeOK
<1>4. g_dma_buffer = MapBase /\ k.ptr + CbSize <= MapBase + g_dma_buffer_allocated
  BY <1>1, <1>2, <1>3 DEF AllocatorInv, CbSize
<1>5. InBuffer(k.ptr) /\ InBuffer(k.ptr + CbSize - 1)
  BY <1>2, <1>3, <1>4 DEF InBuffer, CbSize
<1>6. ASSUME NEW b \in DataBlocks
      PROVE  b.ptr + b.len <= k.ptr \/ k.ptr + CbSize <= b.ptr
  <2>1. b \in blocks /\ b # k
    BY <1>1 DEF DataBlocks
  <2> QED BY <1>1, <1>2, <2>1 DEF AllocatorInv, BlocksDisjoint
<1> QED BY <1>1, <1>5, <1>6

\* While mappings succeed, an object that says it is initialised has its
\* registers mapped and a whole control block of its own in the mapped buffer,
\* whatever the mailbox does and however much of the buffer is given out.
THEOREM UsableCorrect ==
  ASSUME "mmap" \notin Faults
  PROVE  DmaSpec => []InitializedMeansUsable
<1>1. DmaInit => MappedInv
  BY DEF DmaInit, BufInit, MappedInv
<1>2. PlainInv /\ MappedInv /\ [DmaNext]_dmaVars => MappedInv'
  <2> SUFFICES ASSUME PlainInv, MappedInv, [DmaNext]_dmaVars PROVE MappedInv'
    OBVIOUS
  <2>1. BufAction
    BY BufferActs DEF BufAction, dmaVars
  <2> QED BY <2>1, MappedStep DEF PlainInv, DmaTypeOK
<1>3. PlainInv /\ MappedInv => InitializedMeansUsable
  <2> SUFFICES ASSUME PlainInv, MappedInv, NEW o \in Objects, object[o].initialized
               PROVE  LET cb == object[o].cb
                      IN  /\ g_dma_channel_regs /\ object[o].chnum \in Channels
                          /\ InBuffer(cb) /\ InBuffer(cb + CbSize - 1)
                          /\ \A p \in Objects \ {o} : object[p].cb # cb
                          /\ \A b \in DataBlocks : b.ptr + b.len <= cb \/ cb + CbSize <= b.ptr
    BY DEF InitializedMeansUsable
  <2>1. g_dma_channel_regs /\ object[o].cb # NULL /\ object[o].chnum \in Channels
    BY DEF PlainInv, InitializedHasBlock
  <2>2. \A p \in Objects \ {o} : object[p].cb # object[o].cb
    BY <2>1 DEF PlainInv, BlocksInv
  <2> QED BY <2>1, <2>2, BlockInBuffer
<1> QED BY <1>1, <1>2, <1>3, PlainCorrect, PTL DEF DmaSpec

\* A step that finds a block when it asks for one keeps the buffer backed.
LEMMA BackedInvStep ==
  ASSUME MailboxWorks, VpuHasBlock, PlainInv, BackedInv, [DmaNext]_dmaVars
  PROVE  BackedInv'
<1>1. OwnAction
  BY BufferActs DEF OwnAction, dmaVars
<1> QED BY <1>1, BackedStep DEF PlainInv, DmaTypeOK

\* When the mailbox works and the VPU has blocks, a mapped buffer is memory that
\* the VPU gave and locked, over all deaths, restarts and failing mappings: the
\* case in which the theorems about transfers hold.
THEOREM BackedCorrect ==
  ASSUME MailboxWorks
  PROVE  DmaSpec /\ []VpuHasBlock => []BufferBacked
<1>1. DmaInit => BackedInv
  BY BackedInit DEF DmaInit
<1>2. VpuHasBlock /\ PlainInv /\ BackedInv /\ [DmaNext]_dmaVars => BackedInv'
  BY BackedInvStep
<1>3. PlainInv /\ BackedInv => BufferBacked
  BY BackedMeans DEF PlainInv, DmaTypeOK
<1> QED BY <1>1, <1>2, <1>3, PlainCorrect, PTL DEF DmaSpec

\* When nothing fails and the VPU starts with a block for every process, it has
\* one whenever it is asked: no process asks twice.
THEOREM BlocksSuffice ==
  ASSUME NothingFails
  PROVE  DmaSpec => []VpuHasBlock
<1>1. DmaInit => BackedInv
  BY BackedInit DEF DmaInit
<1>2. PlainInv /\ BackedInv => VpuHasBlock
  BY BlockIsLeft DEF PlainInv, DmaTypeOK
<1>3. MailboxWorks
  BY DEF NothingFails, MailboxWorks
<1>4. VpuHasBlock /\ PlainInv /\ BackedInv /\ [DmaNext]_dmaVars => BackedInv'
  BY <1>3, BackedInvStep
<1> QED BY <1>1, <1>2, <1>4, PlainCorrect, PTL DEF DmaSpec
=============================================================================
