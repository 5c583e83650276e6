--------------------------- MODULE DmaBufferProofs ---------------------------
(***************************************************************************)
(* Theorems about the DMA buffer and its allocator, for every buffer size, *)
(* every set of requested sizes and every combination of faults.           *)
(***************************************************************************)
EXTENDS DmaBuffer, FiniteSetTheorems, TLAPS

\* The mapping that hw_memmap asks for covers what its caller asks for, unless
\* the size is one above an even number of pages (hw_utils.cpp:52).
THEOREM MappingCovers ==
  ASSUME NEW n \in Nat, n % (2 * MEM_PAGE_SIZE) # 1
  PROVE  MappedBytes(n) \in Nat /\ n <= MappedBytes(n)
<1> DEFINE P == MEM_PAGE_SIZE
           sum  == n + P - 1
           page == sum \div P
           low  == sum % P
           kept == IF page % 2 = 1 THEN page - 1 ELSE page
<1>0. P \in Nat \ {0}
  BY BufferAssumption
<1>1. sum = P * page + low /\ page \in Nat /\ low \in 0 .. P - 1
  BY <1>0
<1>2. kept \in Nat /\ MapLength(n) = P * kept + low
  <2>1. CASE page % 2 = 1
    <3>1. page >= 1
      BY <1>1, <2>1
    <3>2. P * page - P = P * (page - 1)
      BY <1>0, <1>1
    <3> QED BY <1>0, <1>1, <2>1, <3>1, <3>2 DEF MapLength
  <2>2. CASE page % 2 # 1
    BY <1>0, <1>1, <2>2 DEF MapLength
  <2> QED BY <2>1, <2>2
<1> HIDE DEF kept, page, low
<1>3. CASE low = 0
  <2>1. page % 2 # 1
    <3> SUFFICES ASSUME page % 2 = 1 PROVE FALSE
      OBVIOUS
    <3>1. PICK k \in Nat : page = 2 * k + 1
      BY <1>1
    <3>2. n = 2 * P * k + 1
      BY <1>0, <1>1, <1>3, <3>1
    <3>3. (2 * P * k + 1) % (2 * P) = 1
      BY <1>0
    <3> QED BY <3>2, <3>3
  <2>2. MapLength(n) + P - 1 = P * page + (P - 1)
    BY <1>0, <1>1, <1>2, <1>3, <2>1 DEF kept
  <2>3. (P * page + (P - 1)) \div P = page
    BY <1>0, <1>1
  <2> QED BY <1>0, <1>1, <1>3, <2>2, <2>3 DEF MappedBytes
<1>4. CASE low # 0
  <2>1. MapLength(n) + P - 1 = P * (kept + 1) + (low - 1)
    BY <1>0, <1>1, <1>2, <1>4
  <2>2. (P * (kept + 1) + (low - 1)) \div P = kept + 1
    BY <1>0, <1>1, <1>2, <1>4
  <2>3. kept + 1 >= page
    BY <1>1 DEF kept
  <2>4. (kept + 1) * P >= page * P
    BY <1>0, <1>1, <1>2, <2>3
  <2> QED BY <1>0, <1>1, <1>2, <1>4, <2>1, <2>2, <2>4 DEF MappedBytes
<1> QED BY <1>1, <1>3, <1>4

\* The buffer fits into its mapping, and mappings of it start on a page.
LEMMA BufferMapped ==
  /\ MappedBytes(HWDMA_BUFFER_SIZE) \in Nat
  /\ HWDMA_BUFFER_SIZE <= MappedBytes(HWDMA_BUFFER_SIZE)
  /\ \A h \in Handles : BusOf(h) \in Nat
  /\ \A a \in BusAddrs : a \in Nat /\ a % PhysMod \in Nat
<1>1. /\ MappedBytes(HWDMA_BUFFER_SIZE) \in Nat
      /\ HWDMA_BUFFER_SIZE <= MappedBytes(HWDMA_BUFFER_SIZE)
  BY MappingCovers, BufferAssumption
<1>2. \A h \in Handles : BusOf(h) \in Nat
  BY <1>1, BufferAssumption DEF BusOf
<1>3. \A a \in BusAddrs : a \in Nat /\ a % PhysMod \in Nat
  BY <1>2, BufferAssumption DEF BusAddrs
<1> QED BY <1>1, <1>2, <1>3

\* What RoundUp yields is a natural number, also when the sum wraps.
LEMMA RoundUpNat ==
  ASSUME NEW n \in 0 .. WordMod - 1
  PROVE  RoundUp(n) \in Nat
<1> DEFINE sum == (n + Granule - 1) % WordMod
<1>1. sum \in Nat
  BY BufferAssumption DEF Granule
<1>2. sum - (sum % 32) \in Nat
  <2> HIDE DEF sum
  <2> QED BY <1>1
<1> QED BY <1>2 DEF RoundUp, Granule

\* A step of the buffer by itself, or a call from whoever uses it; the same
\* when the application leaves the mailbox alone.
BufAction ==
  \/ BufNext
  \/ \E fn \in {"init", "allocate"}, n \in 0 .. WordMod - 1 : Call(fn, n)
  \/ UNCHANGED bufVars
OwnAction ==
  \/ BufStep
  \/ Restart
  \/ \E fn \in {"init", "allocate"}, n \in 0 .. WordMod - 1 : Call(fn, n)
  \/ UNCHANGED bufVars

\* The globals keep their types in every step.
LEMMA BufTypeStep ==
  ASSUME BufTypeOK, BufAction
  PROVE  BufTypeOK'
<1> USE BufferAssumption DEF NULL
<1> USE DEF BufTypeOK
<1>1. ASSUME NEW fn \in {"init", "allocate"}, NEW n \in 0 .. WordMod - 1,
             Call(fn, n)
      PROVE  BufTypeOK'
  BY <1>1 DEF Call, CallWith, AfterInit, dmabuf, allocator
<1>2. CASE AllocVpuMem
  BY <1>2 DEF AllocVpuMem, broadcom_vpu_mem_alloc, broadcom_vpu_mbox_cmd,
              OpenResults, allocator
<1>3. CASE LockVpuMem
  BY <1>3 DEF LockVpuMem, StoreAddresses, broadcom_vpu_mem_lock,
              broadcom_vpu_mbox_cmd, OpenResults, allocator
<1>4. CASE MapBuffer
  <2>1. g_dma_buffer' \in {NULL, MapBase}
    BY <1>4 DEF MapBuffer, hw_memmap
  <2> QED BY <1>4, <2>1 DEF MapBuffer, AfterInit, dmabuf, allocator
<1>5. CASE Bump
  <2>1. RoundUp(call.asize) \in Nat
    BY RoundUpNat
  <2> QED BY <1>5, <2>1 DEF Bump, GiveOut, Blocks, dmabuf
<1>6. CASE Restart
  <2>1. 0 = 0 % PhysMod /\ 0 \in BusAddrs
    BY DEF BusAddrs
  <2> QED BY <1>6, <2>1 DEF Restart, StartWith, Blocks
<1>7. CASE AppMailbox
  <2>1. /\ broadcom_vpu_fd' \in {-1, 0, 3}
        /\ vpu' \in [Handles -> {"free", "allocated", "locked"}]
    BY <1>7 DEF AppMailbox, broadcom_vpu_mem_alloc, broadcom_vpu_mem_lock,
                broadcom_vpu_mem_unlock, broadcom_vpu_mem_free, SetBlock,
                broadcom_vpu_mbox_cmd, OpenResults
  <2> QED BY <1>7, <2>1 DEF AppMailbox, dmabuf, allocator
<1>8. CASE UNCHANGED bufVars
  BY <1>8 DEF bufVars, process, dmabuf, allocator
<1> QED
  BY <1>1, <1>2, <1>3, <1>4, <1>5, <1>6, <1>7, <1>8 DEF BufNext, BufOwnNext, BufStep, BufAction

\* The globals of a fresh process have their types.
LEMMA BufTypeInit == BufInit => BufTypeOK
<1>1. 0 = 0 % PhysMod /\ 0 \in BusAddrs
  BY BufferAssumption DEF BusAddrs
<1> QED BY <1>1, BufferAssumption DEF BufInit, BufTypeOK, Blocks, NULL

\* The globals keep their types and the allocation mark stays within the
\* buffer (hwdma_broadcom.cpp:54-99).
THEOREM BufTypeCorrect == BufSpec => []BufTypeOK
<1>1. BufInit => BufTypeOK
  BY BufTypeInit
<1>2. BufTypeOK /\ [BufNext]_bufVars => BufTypeOK'
  BY BufTypeStep DEF BufAction
<1> QED BY <1>1, <1>2, PTL DEF BufSpec

-----------------------------------------------------------------------------

\* Only the allocator changes the set of pieces; the other steps of a process
\* leave it and the allocation mark alone.
LEMMA OnlyBumpGivesOut ==
  ASSUME BufTypeOK, AllocatorInv,
         AllocVpuMem \/ LockVpuMem \/ MapBuffer \/ AppMailbox \/ UNCHANGED bufVars
         \/ \E fn, n : Call(fn, n)
  PROVE  AllocatorInv'
<1>1. blocks' = blocks /\ g_dma_buffer_allocated' = g_dma_buffer_allocated
  BY DEF AllocVpuMem, LockVpuMem, StoreAddresses, MapBuffer, AppMailbox, Call,
         CallWith, bufVars, process, allocator
<1>2. g_dma_buffer' = g_dma_buffer \/ (g_dma_buffer = NULL /\ g_dma_buffer' = MapBase)
  <2>1. CASE MapBuffer
    BY <2>1, BufferAssumption DEF MapBuffer, hw_memmap, AllocatorInv, BufTypeOK, NULL
  <2> QED
    BY <2>1 DEF AllocVpuMem, LockVpuMem, StoreAddresses, AppMailbox, Call, CallWith,
                bufVars, process
<1>3. pc' \in {"alloc", "lock", "map"} => g_dma_buffer' = NULL
  BY DEF AllocVpuMem, LockVpuMem, StoreAddresses, MapBuffer, AppMailbox, Call, CallWith,
         bufVars, process, AllocatorInv, AfterInit
<1> QED
  BY <1>1, <1>2, <1>3, BufferAssumption DEF AllocatorInv, BlocksDisjoint, NULL

\* The piece the allocator gives out starts where every earlier one has ended.
LEMMA BumpKeepsAllocatorInv ==
  ASSUME BufTypeOK, AllocatorInv, Bump
  PROVE  AllocatorInv'
<1> DEFINE asize == RoundUp(call.asize)
           new == [ptr |-> g_dma_buffer + g_dma_buffer_allocated,
                   len |-> asize, req |-> call.asize]
<1>1. asize \in Nat
  BY RoundUpNat DEF BufTypeOK
<1>2. CASE UNCHANGED <<g_dma_buffer_allocated, blocks>>
  BY <1>2 DEF AllocatorInv, BlocksDisjoint, Bump, GiveOut
<1>3. CASE /\ g_dma_buffer_allocated' = g_dma_buffer_allocated + asize
           /\ blocks' \subseteq blocks \cup {new}
  <2> HIDE DEF asize
  <2>1. /\ g_dma_buffer' = g_dma_buffer
        /\ g_dma_buffer_allocated \in 0 .. HWDMA_BUFFER_SIZE
        /\ g_dma_buffer \in {NULL, MapBase}
        /\ pc' = "idle"
    BY BufferAssumption DEF Bump, GiveOut, BufTypeOK
  <2>2. \A b \in blocks : b.ptr \in Nat /\ b.len \in Nat
    BY DEF BufTypeOK, Blocks
  <2>3. \A b \in blocks : b.ptr + b.len <= new.ptr
    BY <2>1, <2>2, BufferAssumption DEF AllocatorInv, NULL
  <2>4. \A b \in blocks' : b \in blocks \/ b = new
    BY <1>3
  <2>5. BlocksDisjoint'
    BY <2>3, <2>4 DEF AllocatorInv, BlocksDisjoint
  <2>6. \A b \in blocks' :
          \/ b.ptr + b.len <= g_dma_buffer_allocated'
          \/ /\ g_dma_buffer' = MapBase
             /\ MapBase <= b.ptr
             /\ b.ptr + b.len <= MapBase + g_dma_buffer_allocated'
    <3> TAKE b \in blocks'
    <3>1. CASE b \in blocks
      BY <1>1, <1>3, <2>1, <2>2, <3>1, BufferAssumption DEF AllocatorInv
    <3>2. CASE b = new
      BY <1>1, <1>3, <2>1, <3>2, BufferAssumption DEF NULL
    <3> QED BY <2>4, <3>1, <3>2
  <2> QED
    BY <2>1, <2>5, <2>6 DEF AllocatorInv
<1> QED
  BY <1>2, <1>3 DEF Bump, GiveOut

\* AllocatorInv is kept by every step.
LEMMA AllocatorInvStep ==
  ASSUME BufTypeOK, AllocatorInv, BufAction
  PROVE  AllocatorInv'
<1>1. CASE Bump
  BY <1>1, BumpKeepsAllocatorInv
<1>2. CASE Restart
  BY <1>2 DEF Restart, StartWith, AllocatorInv, BlocksDisjoint
<1>3. CASE AllocVpuMem \/ LockVpuMem \/ MapBuffer \/ AppMailbox
           \/ UNCHANGED bufVars \/ \E fn, n : Call(fn, n)
  BY <1>3, OnlyBumpGivesOut
<1> QED BY <1>1, <1>2, <1>3 DEF BufAction, BufNext, BufOwnNext, BufStep

\* AllocatorInv is an invariant, whatever fails on the way.
LEMMA AllocatorInvCorrect == BufSpec => []AllocatorInv
<1>1. BufInit => AllocatorInv
  BY DEF BufInit, AllocatorInv, BlocksDisjoint
<1>2. BufTypeOK /\ AllocatorInv /\ [BufNext]_bufVars => AllocatorInv'
  BY AllocatorInvStep DEF BufAction
<1> QED BY <1>1, <1>2, BufTypeCorrect, PTL DEF BufSpec

\* Two pieces never overlap (hwdma_allocate_dma_buffer).
THEOREM AllocatorCorrect == BufSpec => []BlocksDisjoint
<1>1. AllocatorInv => BlocksDisjoint
  BY DEF AllocatorInv
<1> QED BY <1>1, AllocatorInvCorrect, PTL

\* A piece of the mapped buffer ends inside the mapping.
THEOREM PiecesCorrect == BufSpec => []PiecesInMapping
<1>1. BufTypeOK /\ AllocatorInv => PiecesInMapping
  <2> SUFFICES ASSUME BufTypeOK, AllocatorInv,
                      NEW b \in blocks, b.ptr >= MapBase
               PROVE  /\ g_dma_buffer = MapBase
                      /\ b.ptr + b.len <= MapBase + MappedBytes(HWDMA_BUFFER_SIZE)
    BY DEF PiecesInMapping
  <2>1. b.ptr \in Nat /\ b.len \in Nat
    BY DEF BufTypeOK, Blocks
  <2>2. g_dma_buffer_allocated \in 0 .. HWDMA_BUFFER_SIZE
    BY BufferAssumption DEF BufTypeOK
  <2>3. b.ptr + b.len > g_dma_buffer_allocated
    BY <2>1, <2>2, BufferAssumption
  <2> QED
    BY <2>1, <2>2, <2>3, BufferMapped, BufferAssumption DEF AllocatorInv
<1> QED BY <1>1, BufTypeCorrect, AllocatorInvCorrect, PTL

-----------------------------------------------------------------------------

\* A bus address other than 0 belongs to the locked block of the process; no
\* mailbox call of the application takes it away.
THEOREM BusAddressCorrect == BufSpec => []BusAddressIsLocked
<1> USE BufferAssumption
<1>1. BufInit => BusAddressIsLocked
  BY DEF BufInit, BusAddressIsLocked
<1>2. BufTypeOK /\ BusAddressIsLocked /\ [BufNext]_bufVars => BusAddressIsLocked'
  <2> SUFFICES ASSUME BufTypeOK, BusAddressIsLocked, [BufNext]_bufVars
               PROVE  BusAddressIsLocked'
    OBVIOUS
  <2> USE DEF BusAddressIsLocked
  <2>1. ASSUME NEW fn, NEW n, Call(fn, n)
        PROVE  BusAddressIsLocked'
    BY <2>1 DEF Call, CallWith, dmabuf
  <2>2. CASE AllocVpuMem
    BY <2>2 DEF AllocVpuMem
  <2>3. CASE LockVpuMem
    <3>1. \/ g_dmabuf_bus_addr' = 0
          \/ /\ g_dmabuf_mem_handle \in Handles
             /\ vpu' = [vpu EXCEPT ![g_dmabuf_mem_handle] = "locked"]
             /\ g_dmabuf_bus_addr' = BusOf(g_dmabuf_mem_handle)
      BY <2>3 DEF LockVpuMem, StoreAddresses, broadcom_vpu_mem_lock
    <3>2. g_dmabuf_mem_handle' = g_dmabuf_mem_handle /\ vpu \in [Handles -> {"free", "allocated", "locked"}]
      BY <2>3 DEF LockVpuMem, StoreAddresses, BufTypeOK
    <3> QED BY <3>1, <3>2 DEF BusOf
  <2>4. CASE MapBuffer \/ Bump
    BY <2>4 DEF MapBuffer, Bump, GiveOut, BusOf, dmabuf
  <2>5. CASE Restart
    BY <2>5 DEF Restart, StartWith
  <2>6. CASE AppMailbox
    <3>1. vpu \in [Handles -> {"free", "allocated", "locked"}]
      BY DEF BufTypeOK
    <3>2. UNCHANGED dmabuf /\ pc = "idle" /\ pc' = "idle"
      BY <2>6 DEF AppMailbox
    <3>3. g_dmabuf_mem_handle \in Handles /\ vpu[g_dmabuf_mem_handle] = "locked" =>
            vpu'[g_dmabuf_mem_handle] = "locked"
      BY <2>6, <3>1 DEF AppMailbox, broadcom_vpu_mem_alloc, broadcom_vpu_mem_lock,
                broadcom_vpu_mem_unlock, broadcom_vpu_mem_free, SetBlock
    <3> QED BY <3>2, <3>3 DEF BusOf, dmabuf
  <2>7. CASE UNCHANGED bufVars
    BY <2>7 DEF bufVars, process, dmabuf, BusOf
  <2> QED
    BY <2>1, <2>2, <2>3, <2>4, <2>5, <2>6, <2>7 DEF BufNext, BufOwnNext, BufStep
<1> QED BY <1>1, <1>2, BufTypeCorrect, PTL DEF BufSpec

\* A mapped buffer and its addresses change only when a process starts.
LEMMA BufferKeptStep ==
  ASSUME BufTypeOK, AllocatorInv, BufAction, g_dma_buffer # NULL, starts' = starts
  PROVE  UNCHANGED <<g_dma_buffer, dmabuf>>
<1>1. pc \notin {"alloc", "lock", "map"}
  BY DEF AllocatorInv
<1>2. CASE AllocVpuMem \/ LockVpuMem \/ MapBuffer
  BY <1>1, <1>2 DEF AllocVpuMem, LockVpuMem, StoreAddresses, MapBuffer
<1>3. CASE Restart
  BY <1>3 DEF Restart, StartWith, BufTypeOK
<1>4. CASE Bump \/ AppMailbox \/ UNCHANGED bufVars \/ \E fn, n : Call(fn, n)
  BY <1>4 DEF Bump, GiveOut, AppMailbox, bufVars, process, Call, CallWith
<1> QED BY <1>2, <1>3, <1>4 DEF BufAction, BufNext, BufOwnNext, BufStep

\* Once mapped, the buffer stays where and what it is until the process ends.
THEOREM BufferKeptCorrect == BufSpec => BufferKept
<1>1. BufTypeOK /\ AllocatorInv /\ [BufNext]_bufVars =>
        (g_dma_buffer # NULL /\ starts' = starts => UNCHANGED <<g_dma_buffer, dmabuf>>)
  BY BufferKeptStep DEF BufAction
<1> QED BY <1>1, BufTypeCorrect, AllocatorInvCorrect, PTL DEF BufSpec, BufferKept

-----------------------------------------------------------------------------

\* A bus address and the offset of a byte in the buffer do not leave PhysMod.
LEMMA BusOffset ==
  ASSUME NEW bus \in BusAddrs, NEW off \in 0 .. HWDMA_BUFFER_SIZE - 1
  PROVE  (bus + off) % PhysMod = (bus % PhysMod) + off
<1> USE BufferAssumption
<1>1. CASE bus = 0
  BY <1>1
<1>2. ASSUME NEW h \in Handles, bus = BusOf(h)
      PROVE  (bus + off) % PhysMod = (bus % PhysMod) + off
  <2> DEFINE rest == h * MappedBytes(HWDMA_BUFFER_SIZE)
  <2>1. rest \in Nat /\ rest + HWDMA_BUFFER_SIZE <= PhysMod
    BY BufferMapped
  <2>2. bus = 3 * PhysMod + rest
    BY <1>2 DEF BusOf
  <2> HIDE DEF rest
  <2>3. bus % PhysMod = rest
    BY <2>1, <2>2
  <2>4. (bus + off) % PhysMod = rest + off
    BY <2>1, <2>2
  <2> QED BY <2>3, <2>4
<1> QED BY <1>1, <1>2 DEF BusAddrs

\* Processor and DMA engine mean the same byte, for every byte of every piece.
THEOREM BusCorrect == BufSpec => []BusMatchesMapping
<1>1. BufTypeOK /\ AllocatorInv => BusMatchesMapping
  <2> SUFFICES ASSUME BufTypeOK, AllocatorInv, g_dma_buffer # NULL,
                      NEW b \in blocks, b.ptr >= g_dma_buffer,
                      NEW a \in b.ptr .. b.ptr + b.len - 1
               PROVE  hwdma_bus_address(a) % PhysMod = PhysBehind(a)
    BY DEF BusMatchesMapping
  <2>1. b.ptr \in Nat /\ b.len \in Nat
    BY DEF BufTypeOK, Blocks
  <2>2. /\ g_dma_buffer = MapBase /\ MapBase \in Nat /\ HWDMA_BUFFER_SIZE \in Nat
        /\ HWDMA_BUFFER_SIZE < MapBase
        /\ g_dma_buffer_allocated \in 0 .. g_dma_buffer_size
        /\ g_dma_buffer_size \in {0, HWDMA_BUFFER_SIZE}
    BY BufferAssumption DEF BufTypeOK
  <2>3. b.ptr + b.len <= MapBase + g_dma_buffer_allocated
    BY <2>1, <2>2 DEF AllocatorInv
  <2>4. /\ a - MapBase \in 0 .. HWDMA_BUFFER_SIZE - 1
        /\ ~(a < g_dma_buffer \/ a > g_dma_buffer + g_dma_buffer_size)
    BY <2>1, <2>2, <2>3
  <2>5. hwdma_bus_address(a) = g_dmabuf_bus_addr + (a - MapBase)
    BY <2>2, <2>4 DEF hwdma_bus_address
  <2>6. /\ g_dmabuf_bus_addr \in BusAddrs
        /\ g_dmabuf_phys_addr = g_dmabuf_bus_addr % PhysMod
        /\ g_dmabuf_phys_addr % MEM_PAGE_SIZE = 0
        /\ g_dmabuf_phys_addr \in Nat
    BY BufferAssumption, BufferMapped DEF BufTypeOK
  <2> QED BY <2>4, <2>5, <2>6, BusOffset DEF PhysBehind
<1> QED BY <1>1, BufTypeCorrect, AllocatorInvCorrect, PTL

\* Pieces are as long as asked for when no requested size wraps in rounding.
THEOREM LongEnoughCorrect ==
  ASSUME \A n \in AllocSizes : n + Granule - 1 < WordMod
  PROVE  BufSpec => []BlocksLongEnough
<1> DEFINE Fits == call.asize + Granule - 1 < WordMod
           Inv == BlocksLongEnough /\ Fits
<1> USE BufferAssumption DEF Granule
<1>1. BufInit => Inv
  BY DEF BufInit, BlocksLongEnough
<1>2. BufTypeOK /\ Inv /\ [BufNext]_bufVars => Inv'
  <2> SUFFICES ASSUME BufTypeOK, Inv, [BufNext]_bufVars PROVE Inv'
    OBVIOUS
  <2>1. CASE Bump
    <3>1. call.asize <= RoundUp(call.asize)
      <4> DEFINE sum == call.asize + 31
      <4>1. sum \in Nat /\ sum % WordMod = sum
        BY DEF BufTypeOK
      <4> QED BY <4>1 DEF RoundUp, BufTypeOK
    <3> QED BY <2>1, <3>1 DEF Bump, GiveOut, BlocksLongEnough
  <2>2. CASE Restart
    BY <2>2 DEF Restart, StartWith, BlocksLongEnough
  <2>3. CASE Call("init", 0) \/ \E n \in AllocSizes : Call("allocate", n)
    BY <2>3 DEF Call, CallWith, BlocksLongEnough, allocator
  <2>4. CASE AllocVpuMem \/ LockVpuMem \/ MapBuffer \/ AppMailbox \/ UNCHANGED bufVars
    BY <2>4 DEF AllocVpuMem, LockVpuMem, StoreAddresses, MapBuffer, AppMailbox,
                bufVars, process, allocator, BlocksLongEnough
  <2> QED BY <2>1, <2>2, <2>3, <2>4 DEF BufNext, BufOwnNext, BufStep
<1> QED BY <1>1, <1>2, BufTypeCorrect, PTL DEF BufSpec

-----------------------------------------------------------------------------
(* What holds when mappings do not fail.                                   *)

\* hw_memmap then maps the buffer: it asks for a length other than 0.
LEMMA MappingSucceeds ==
  ASSUME "mmap" \notin Faults, BufTypeOK
  PROVE  NULL \notin hw_memmap(g_dmabuf_phys_addr, HWDMA_BUFFER_SIZE)
<1>1. MapLength(HWDMA_BUFFER_SIZE) # 0
  <2> SUFFICES ASSUME MapLength(HWDMA_BUFFER_SIZE) = 0 PROVE FALSE
    OBVIOUS
  <2>1. MappedBytes(HWDMA_BUFFER_SIZE) = ((MEM_PAGE_SIZE - 1) \div MEM_PAGE_SIZE) * MEM_PAGE_SIZE
    BY BufferAssumption DEF MappedBytes
  <2>2. MEM_PAGE_SIZE \in Nat \ {0}
    BY BufferAssumption
  <2>3. (MEM_PAGE_SIZE - 1) \div MEM_PAGE_SIZE = 0
    BY <2>2
  <2>4. MappedBytes(HWDMA_BUFFER_SIZE) = 0
    BY <2>1, <2>2, <2>3
  <2> QED BY <2>4, BufferMapped, BufferAssumption
<1>2. g_dmabuf_phys_addr \in Nat
  BY BufferMapped DEF BufTypeOK
<1>3. MapBase > 0 /\ MapBase \in Nat /\ MEM_PAGE_SIZE \in Nat \ {0}
  BY BufferAssumption
<1>4. g_dmabuf_phys_addr % MEM_PAGE_SIZE \in Nat
  BY <1>2, <1>3
<1>5. MapBase + (g_dmabuf_phys_addr % MEM_PAGE_SIZE) # NULL
  BY <1>3, <1>4 DEF NULL
<1> QED BY <1>1, <1>5 DEF hw_memmap

\* The allocator then finds the buffer mapped, and all it gives out is of it.
MappedInv ==
  /\ pc \in {"alloc", "lock", "map"} => g_dma_buffer_size = HWDMA_BUFFER_SIZE
  /\ pc = "bump" => g_dma_buffer # NULL
  /\ \A b \in blocks : b.ptr >= MapBase

\* Every step keeps that, whatever the mailbox does.
LEMMA MappedStep ==
  ASSUME "mmap" \notin Faults, BufTypeOK, MappedInv, BufAction
  PROVE  MappedInv'
<1>1. ASSUME NEW fn, NEW n, Call(fn, n) PROVE MappedInv'
  BY <1>1 DEF Call, CallWith, AfterInit, MappedInv, allocator
<1>2. CASE AllocVpuMem \/ LockVpuMem
  BY <1>2 DEF AllocVpuMem, LockVpuMem, StoreAddresses, MappedInv, allocator
<1>3. CASE MapBuffer
  <2>1. g_dma_buffer' # NULL
    BY <1>3, MappingSucceeds DEF MapBuffer, MappedInv
  <2> QED BY <1>3, <2>1 DEF MapBuffer, AfterInit, MappedInv, allocator
<1>4. CASE Bump
  <2>1. /\ pc' = "idle" /\ g_dma_buffer = MapBase
        /\ g_dma_buffer_allocated \in Nat /\ MapBase \in Nat
    BY <1>4, BufferAssumption DEF Bump, GiveOut, MappedInv, BufTypeOK
  <2>2. \A b \in blocks' : b \in blocks \/ b.ptr = g_dma_buffer + g_dma_buffer_allocated
    BY <1>4 DEF Bump, GiveOut
  <2>3. \A b \in blocks' : b.ptr >= MapBase
    BY <2>1, <2>2 DEF MappedInv
  <2> QED BY <2>1, <2>3 DEF MappedInv
<1>5. CASE Restart
  BY <1>5 DEF Restart, StartWith, MappedInv
<1>6. CASE AppMailbox \/ UNCHANGED bufVars
  BY <1>6 DEF AppMailbox, bufVars, process, allocator, MappedInv
<1> QED BY <1>1, <1>2, <1>3, <1>4, <1>5, <1>6 DEF BufAction, BufNext, BufOwnNext, BufStep

-----------------------------------------------------------------------------
(* What holds when the mailbox does not fail.                              *)

\* No command of the mailbox fails, and the VPU has a block when it is asked
\* for one; mappings may fail.
MailboxWorks == Faults \subseteq {"mmap"}
VpuHasBlock == pc = "alloc" => \E h \in Handles : vpu[h] = "free"

\* No call fails, and the VPU has a block for every process.
NothingFails ==
  Faults = {} /\ IsFiniteSet(Handles) /\ MaxStarts <= Cardinality(Handles)

\* Each process takes a block, another one after each mapping that failed,
\* before it has locked it and mapped it.
Taken == {h \in Handles : vpu[h] # "free"}
OnePerProcess ==
  /\ Cardinality(Taken) <= starts
  /\ g_dmabuf_mem_handle = 0 => Cardinality(Taken) < starts
  /\ g_dmabuf_mem_handle # 0 => pc \in {"lock", "map"} \/ g_dma_buffer # NULL
BackedInv ==
  /\ broadcom_vpu_fd # 0
  /\ NothingFails => OnePerProcess
  /\ g_dmabuf_mem_handle = 0 => pc \notin {"lock", "map"} /\ g_dma_buffer = NULL
  /\ pc \in {"alloc", "lock", "map"} => g_dma_buffer_size = HWDMA_BUFFER_SIZE
  /\ pc = "lock" => vpu[g_dmabuf_mem_handle] # "free"
  /\ pc = "map" \/ g_dma_buffer # NULL =>
       /\ vpu[g_dmabuf_mem_handle] = "locked"
       /\ g_dmabuf_bus_addr = BusOf(g_dmabuf_mem_handle)

\* The blocks taken are finitely many when all are.
LEMMA FiniteTaken ==
  NothingFails => IsFiniteSet(Taken) /\ Cardinality(Taken) \in Nat
<1>1. Taken \in SUBSET Handles
  BY DEF Taken
<1> QED BY <1>1, FS_Subset, FS_CardinalityType DEF NothingFails

\* With a block for every process, one is left for a process that has none.
LEMMA BlockIsLeft ==
  ASSUME NothingFails, BufTypeOK, AllocatorInv, BackedInv
  PROVE  VpuHasBlock
<1> SUFFICES ASSUME pc = "alloc" PROVE \E h \in Handles : vpu[h] = "free"
  BY DEF VpuHasBlock
<1>1. Cardinality(Taken) < starts
  BY DEF AllocatorInv, BackedInv, OnePerProcess
<1>2. starts \in Nat /\ starts <= MaxStarts /\ MaxStarts \in Nat
  BY BufferAssumption DEF BufTypeOK
<1>3. Cardinality(Taken) \in Nat /\ Cardinality(Handles) \in Nat /\ MaxStarts <= Cardinality(Handles)
  BY FiniteTaken, FS_CardinalityType DEF NothingFails
<1>4. Taken # Handles
  BY <1>1, <1>2, <1>3
<1> QED BY <1>4 DEF Taken

\* Every step of a program that leaves the mailbox to the buffer keeps it.
LEMMA BackedStep ==
  ASSUME MailboxWorks, VpuHasBlock, BufTypeOK, AllocatorInv, BackedInv, OwnAction
  PROVE  BackedInv'
<1>1. /\ Faults \subseteq {"mmap"} /\ (NothingFails => Faults = {})
      /\ starts \in Nat /\ 0 \notin Handles
      /\ vpu \in [Handles -> {"free", "allocated", "locked"}]
      /\ g_dmabuf_mem_handle \in Handles \cup {0}
  BY BufferAssumption DEF MailboxWorks, NothingFails, BufTypeOK
<1>taken. NothingFails => IsFiniteSet(Taken) /\ Cardinality(Taken) \in Nat
  BY FiniteTaken
<1>2. ASSUME NEW ok \in BOOLEAN, broadcom_vpu_mbox_cmd(ok)
      PROVE  ok /\ broadcom_vpu_fd' # 0
  <2>1. broadcom_vpu_fd \in {-1, 3} /\ OpenResults = {3} /\ "ioctl" \notin Faults
    BY <1>1 DEF BufTypeOK, BackedInv, OpenResults
  <2>2. broadcom_vpu_fd' = 3
    BY <1>2, <2>1 DEF broadcom_vpu_mbox_cmd
  <2> QED BY <1>1, <1>2, <2>1, <2>2 DEF broadcom_vpu_mbox_cmd
<1>3. CASE \E fn \in {"init", "allocate"}, n \in 0 .. WordMod - 1 : Call(fn, n)
  <2>1. PICK fn \in {"init", "allocate"}, n \in 0 .. WordMod - 1 : Call(fn, n)
    BY <1>3
  <2>2. /\ pc = "idle" /\ UNCHANGED <<broadcom_vpu_fd, g_dma_buffer, dmabuf, vpu, starts>>
        /\ \/ g_dma_buffer # NULL /\ pc' \in {"idle", "bump"}
           \/ pc' = "alloc" /\ g_dma_buffer_size' = HWDMA_BUFFER_SIZE
    BY <2>1 DEF Call, CallWith, AfterInit
  <2>3. Taken' = Taken /\ g_dmabuf_mem_handle' = g_dmabuf_mem_handle
    BY <2>2 DEF Taken, dmabuf
  <2>4. NothingFails => OnePerProcess'
    BY <2>2, <2>3 DEF BackedInv, OnePerProcess
  <2> QED BY <2>2, <2>3, <2>4 DEF BackedInv, dmabuf, BusOf
<1>4. CASE AllocVpuMem
  <2>1. PICK h \in Handles \cup {0} : broadcom_vpu_mem_alloc(h) /\ g_dmabuf_mem_handle' = h
    BY <1>4 DEF AllocVpuMem
  <2>2. g_dma_buffer = NULL /\ (NothingFails => g_dmabuf_mem_handle = 0)
    BY <1>4 DEF AllocVpuMem, AllocatorInv, BackedInv, OnePerProcess
  <2>3. \E k \in Handles : vpu[k] = "free"
    BY <1>4 DEF VpuHasBlock, AllocVpuMem
  <2>4. /\ h \in Handles /\ vpu[h] = "free" /\ vpu' = [vpu EXCEPT ![h] = "allocated"]
        /\ broadcom_vpu_fd' # 0
    BY <1>2, <2>1, <2>3 DEF broadcom_vpu_mem_alloc
  <2>5. Taken' = Taken \cup {h} /\ h \notin Taken
    BY <1>1, <2>4 DEF Taken
  <2>6. NothingFails => Cardinality(Taken') = Cardinality(Taken) + 1
    BY <1>taken, <2>5, FS_AddElement
  <2>7. NothingFails => Cardinality(Taken') <= starts
    BY <1>1, <1>taken, <2>2, <2>6 DEF BackedInv, OnePerProcess
  <2>8. /\ pc' = "lock" /\ UNCHANGED <<g_dma_buffer, g_dma_buffer_size, starts>>
        /\ pc = "alloc"
    BY <1>4 DEF AllocVpuMem
  <2>9. vpu'[h] # "free" /\ h # 0
    BY <1>1, <2>4
  <2>10. NothingFails => OnePerProcess'
    BY <2>1, <2>7, <2>8, <2>9 DEF OnePerProcess
  <2> QED BY <2>1, <2>2, <2>4, <2>8, <2>9, <2>10 DEF BackedInv
<1>5. CASE LockVpuMem
  <2>1. /\ pc = "lock" /\ pc' = "map"
        /\ UNCHANGED <<g_dma_buffer, g_dma_buffer_size, g_dmabuf_mem_handle, starts>>
    BY <1>5 DEF LockVpuMem, StoreAddresses
  <2>2. /\ g_dmabuf_mem_handle \in Handles /\ vpu[g_dmabuf_mem_handle] # "free"
        /\ g_dma_buffer_size = HWDMA_BUFFER_SIZE
    BY <1>1, <2>1 DEF BackedInv
  <2>3. PICK bus \in BusAddrs :
          broadcom_vpu_mem_lock(g_dmabuf_mem_handle, bus) /\ g_dmabuf_bus_addr' = bus
    BY <1>5 DEF LockVpuMem, StoreAddresses
  <2>4. /\ bus = BusOf(g_dmabuf_mem_handle)
        /\ vpu' = [vpu EXCEPT ![g_dmabuf_mem_handle] = "locked"] /\ broadcom_vpu_fd' # 0
    BY <1>1, <1>2, <2>2, <2>3 DEF broadcom_vpu_mem_lock
  <2>5. Taken' = Taken /\ vpu'[g_dmabuf_mem_handle] = "locked"
    BY <1>1, <2>2, <2>4 DEF Taken
  <2>6. g_dmabuf_bus_addr' = BusOf(g_dmabuf_mem_handle)'
    BY <2>1, <2>3, <2>4 DEF BusOf
  <2>7. g_dmabuf_mem_handle # 0
    BY <1>1, <2>2
  <2>8. NothingFails => OnePerProcess'
    BY <2>1, <2>5, <2>7 DEF BackedInv, OnePerProcess
  <2> QED BY <1>1, <2>1, <2>2, <2>4, <2>5, <2>6, <2>7, <2>8 DEF BackedInv
<1>6. CASE MapBuffer
  <2>1. /\ pc = "map" /\ pc' \in {"idle", "bump"}
        /\ UNCHANGED <<broadcom_vpu_fd, g_dma_buffer_size, dmabuf, vpu, starts>>
        /\ g_dma_buffer' \in hw_memmap(g_dmabuf_phys_addr, g_dma_buffer_size)
    BY <1>6 DEF MapBuffer, AfterInit
  <2>2. g_dma_buffer_size = HWDMA_BUFFER_SIZE /\ g_dmabuf_mem_handle # 0
    BY <2>1 DEF BackedInv
  <2>4. ASSUME NothingFails PROVE g_dma_buffer' # NULL
    BY <1>1, <2>1, <2>2, <2>4, MappingSucceeds
  <2>5. /\ broadcom_vpu_fd # 0 /\ vpu[g_dmabuf_mem_handle] = "locked"
        /\ g_dmabuf_bus_addr = BusOf(g_dmabuf_mem_handle)
    BY <2>1 DEF BackedInv
  <2>6. BusOf(g_dmabuf_mem_handle)' = BusOf(g_dmabuf_mem_handle) /\ Taken' = Taken
    BY <2>1 DEF BusOf, Taken, dmabuf
  <2>7. UNCHANGED <<g_dmabuf_mem_handle, g_dmabuf_bus_addr>>
    BY <2>1 DEF dmabuf
  <2>8. NothingFails => OnePerProcess'
    BY <2>1, <2>2, <2>4, <2>6, <2>7 DEF BackedInv, OnePerProcess
  <2>9. vpu'[g_dmabuf_mem_handle'] = "locked"
    BY <2>1, <2>5, <2>7
  <2> QED BY <1>1, <2>1, <2>2, <2>5, <2>6, <2>7, <2>8, <2>9 DEF BackedInv
<1>7. CASE Bump
  <2>1. /\ pc = "bump" /\ pc' = "idle"
        /\ UNCHANGED <<broadcom_vpu_fd, g_dma_buffer, g_dma_buffer_size, dmabuf, vpu, starts>>
    BY <1>7 DEF Bump, GiveOut
  <2>2. Taken' = Taken /\ g_dmabuf_mem_handle' = g_dmabuf_mem_handle
    BY <2>1 DEF Taken, dmabuf
  <2>3. NothingFails => OnePerProcess'
    BY <2>1, <2>2 DEF BackedInv, OnePerProcess
  <2> QED BY <2>1, <2>2, <2>3 DEF BackedInv, BusOf, dmabuf
<1>8. CASE Restart
  <2>1. /\ pc' = "idle" /\ g_dma_buffer' = NULL /\ g_dmabuf_mem_handle' = 0
        /\ vpu' = vpu /\ starts' = starts + 1 /\ broadcom_vpu_fd' = -1
    BY <1>8 DEF Restart, StartWith
  <2>2. Taken' = Taken
    BY <2>1 DEF Taken
  <2>3. NothingFails => OnePerProcess'
    BY <1>1, <1>taken, <2>1, <2>2 DEF BackedInv, OnePerProcess
  <2> QED BY <1>1, <2>1, <2>2, <2>3 DEF BackedInv
<1>9. CASE UNCHANGED bufVars
  <2>1. UNCHANGED <<broadcom_vpu_fd, g_dma_buffer, g_dma_buffer_size, g_dmabuf_mem_handle,
                    g_dmabuf_bus_addr, pc, vpu, starts>>
    BY <1>9 DEF bufVars, process, dmabuf
  <2>2. Taken' = Taken /\ (OnePerProcess => OnePerProcess')
    BY <2>1 DEF Taken, OnePerProcess
  <2> QED BY <2>1, <2>2 DEF BackedInv, BusOf
<1> QED BY <1>3, <1>4, <1>5, <1>6, <1>7, <1>8, <1>9 DEF OwnAction, BufStep

\* No block is taken at the start.
LEMMA BackedInit == BufInit => BackedInv
<1> SUFFICES ASSUME BufInit PROVE BackedInv
  OBVIOUS
<1>1. Taken = {}
  BY DEF BufInit, Taken
<1>2. Cardinality(Taken) = 0
  BY <1>1, FS_EmptySet
<1> QED BY <1>2 DEF BufInit, BackedInv, OnePerProcess

\* A buffer that is mapped is then memory that the VPU gave and locked.
LEMMA BackedMeans ==
  ASSUME BufTypeOK, BackedInv
  PROVE  BufferBacked
BY DEF BufTypeOK, BackedInv, BufferBacked
=============================================================================
