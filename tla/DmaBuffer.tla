------------------------------ MODULE DmaBuffer ------------------------------
(***************************************************************************)
(* The uncached DMA memory of hwdma_broadcom.cpp: the buffer a process     *)
(* gets from the VideoCore (VPU) through the /dev/vcio mailbox of          *)
(* broadcom_utils.cpp and maps with hw_memmap, and the bump allocator that *)
(* hands out pieces of it to control blocks and to the application.        *)
(*                                                                         *)
(* A call runs step by step: every mailbox command and the mmap is a step  *)
(* of its own, so the process can die between any two of them.  The VPU's  *)
(* table of memory blocks belongs to the firmware and outlives a process.  *)
(* The application may use the mailbox functions for memory of its own.    *)
(*                                                                         *)
(* Pointers and bus addresses are integers.  The 2^32 of the code's        *)
(* unsigned type is the constant WordMod.                                  *)
(***************************************************************************)
EXTENDS Integers, FiniteSets

CONSTANTS
  HWDMA_BUFFER_SIZE,  \* bytes of the one buffer of a process
  MEM_PAGE_SIZE,
  WordMod,            \* unsigned arithmetic is modulo WordMod
  PhysMod,            \* a bus address modulo PhysMod is the physical address
  MapBase,            \* where mmap places a mapping in the process
  Handles,            \* memory handles the VPU can give out
  AllocSizes,         \* sizes callers ask hwdma_allocate_dma_buffer for
  Faults,             \* faults injected: "open", "ioctl", "mmap"
  MaxStarts           \* bound: processes run one after the other

NULL == 0

\* The unit of allocation of hwdma_allocate_dma_buffer.
Granule == 32

-----------------------------------------------------------------------------
(* Memory mapping.                                                         *)

\* Variant: rounded down to pages.
MapLength_Down(asize) == asize - (asize % MEM_PAGE_SIZE)

\* The length that hw_memmap passes to mmap: (asize + page - 1) with the bit of
\* the page size cleared, where the bits below it were meant.
MapLength(asize) ==
  LET sum == asize + MEM_PAGE_SIZE - 1
  IN  IF (sum \div MEM_PAGE_SIZE) % 2 = 1 THEN sum - MEM_PAGE_SIZE ELSE sum

\* External: mmap maps whole pages.
MappedBytes(asize) ==
  ((MapLength(asize) + MEM_PAGE_SIZE - 1) \div MEM_PAGE_SIZE) * MEM_PAGE_SIZE

\* What hw_memmap returns: a pointer as far behind the start of the mapping as
\* the address is behind the start of its page, or nullptr when /dev/mem cannot
\* be opened or mapped.  External: mmap refuses the length 0.
hw_memmap(aaddr, asize) ==
  (IF MapLength(asize) = 0 THEN {} ELSE {MapBase + (aaddr % MEM_PAGE_SIZE)})
    \cup (IF MapLength(asize) = 0 \/ "mmap" \in Faults THEN {NULL} ELSE {})

\* External: the bus address at which the VPU places the block of a handle:
\* on a page, in the uncached alias (top two bits set).
BusOf(h) == 3 * PhysMod + h * MappedBytes(HWDMA_BUFFER_SIZE)
BusAddrs == {0} \cup {BusOf(h) : h \in Handles}

\* The size of the buffer is not one byte above an even number of pages, where
\* MapLength falls a page short.
ASSUME BufferAssumption ==
  /\ HWDMA_BUFFER_SIZE \in Nat \ {0} /\ HWDMA_BUFFER_SIZE % Granule = 0
  /\ MEM_PAGE_SIZE \in Nat \ {0}
  /\ HWDMA_BUFFER_SIZE % (2 * MEM_PAGE_SIZE) # 1
  /\ WordMod \in Nat /\ HWDMA_BUFFER_SIZE < WordMod
  /\ PhysMod \in Nat /\ HWDMA_BUFFER_SIZE <= PhysMod
  /\ MapBase \in Nat /\ HWDMA_BUFFER_SIZE < MapBase
  /\ Handles \subseteq Nat \ {0}
  /\ \A h \in Handles : (h + 1) * MappedBytes(HWDMA_BUFFER_SIZE) <= PhysMod
  /\ \A a \in BusAddrs : (a % PhysMod) % MEM_PAGE_SIZE = 0
  /\ AllocSizes \subseteq 0 .. WordMod - 1
  /\ Faults \subseteq {"open", "ioctl", "mmap"}
  /\ MaxStarts \in Nat \ {0}

VARIABLES
  broadcom_vpu_fd,         \* descriptor of /dev/vcio, -1 when not open
  g_dma_buffer,            \* start of the mapped buffer, NULL when not mapped
  g_dma_buffer_size,
  g_dma_buffer_allocated,  \* bytes handed out
  g_dmabuf_mem_handle,
  g_dmabuf_bus_addr,
  g_dmabuf_phys_addr,
  pc,                      \* where the running call is, "idle" for none
  call,                    \* the running or last call: function and argument
  ret,                     \* pointer returned by the last allocation
  vpu,                     \* state of each memory block in the VPU
  starts,                  \* processes started so far
  blocks                   \* history: non-null blocks this process was given

allocator == <<g_dma_buffer_allocated, ret, blocks>>
dmabuf == <<g_dmabuf_mem_handle, g_dmabuf_bus_addr, g_dmabuf_phys_addr>>
process == <<broadcom_vpu_fd, g_dma_buffer, g_dma_buffer_size, dmabuf, pc, call,
             allocator>>
bufVars == <<process, vpu, starts>>

-----------------------------------------------------------------------------
(* Address arithmetic.                                                     *)

\* Variant: rounds down instead of up.
RoundUp_Down(asize) == asize - (asize % Granule)

\* asize = ((asize + 31) & 0xFFFFFFE0), in unsigned arithmetic.
RoundUp(asize) ==
  LET sum == (asize + Granule - 1) % WordMod
  IN  sum - (sum % Granule)

hwdma_bus_address(aaddr) ==
  IF aaddr < g_dma_buffer \/ aaddr > g_dma_buffer + g_dma_buffer_size
    THEN 0
    ELSE g_dmabuf_bus_addr + (aaddr - g_dma_buffer)

-----------------------------------------------------------------------------
(* The mailbox.  A command opens /dev/vcio when it is not open yet and     *)
(* then runs the ioctl; ok is what broadcom_vpu_mbox_cmd returns.  open    *)
(* can return 0 when descriptor 0 is free: the code then neither uses the  *)
(* descriptor nor tries to open again.                                     *)

OpenResults == IF "open" \in Faults THEN {-1, 0, 3} ELSE {3}

broadcom_vpu_mbox_cmd(ok) ==
  /\ broadcom_vpu_fd' \in
       (IF broadcom_vpu_fd < 0 THEN OpenResults ELSE {broadcom_vpu_fd})
  /\ \/ ok /\ broadcom_vpu_fd' > 0
     \/ ~ok /\ (broadcom_vpu_fd' <= 0 \/ "ioctl" \in Faults)

\* A command that puts block h into the given state, or fails.
SetBlock(h, state) ==
  \/ broadcom_vpu_mbox_cmd(TRUE) /\ vpu' = [vpu EXCEPT ![h] = state]
  \/ broadcom_vpu_mbox_cmd(FALSE) /\ UNCHANGED vpu

\* h is returned: a free handle, or 0 when the VPU has no memory left or the
\* command fails.
broadcom_vpu_mem_alloc(h) ==
  \/ /\ h \in Handles /\ vpu[h] = "free"
     /\ broadcom_vpu_mbox_cmd(TRUE)
     /\ vpu' = [vpu EXCEPT ![h] = "allocated"]
  \/ /\ h = 0
     /\ \/ broadcom_vpu_mbox_cmd(FALSE)
        \/ broadcom_vpu_mbox_cmd(TRUE) /\ \A k \in Handles : vpu[k] # "free"
     /\ UNCHANGED vpu

\* Locking pins block h and returns its bus address; 0 for handle 0 and for a
\* failed command.
broadcom_vpu_mem_lock(h, bus) ==
  \/ /\ h \in Handles /\ bus = BusOf(h)
     /\ broadcom_vpu_mbox_cmd(TRUE)
     /\ vpu' = [vpu EXCEPT ![h] = "locked"]
  \/ /\ bus = 0
     /\ broadcom_vpu_mbox_cmd(FALSE) \/ (h = 0 /\ broadcom_vpu_mbox_cmd(TRUE))
     /\ UNCHANGED vpu

broadcom_vpu_mem_unlock(h) == vpu[h] = "locked" /\ SetBlock(h, "allocated")

broadcom_vpu_mem_free(h) == vpu[h] = "allocated" /\ SetBlock(h, "free")

-----------------------------------------------------------------------------
(* hwdma_init_dma_buffer and hwdma_allocate_dma_buffer.                    *)

BufInit ==
  /\ broadcom_vpu_fd = -1
  /\ g_dma_buffer = NULL
  /\ g_dma_buffer_size = 0
  /\ g_dma_buffer_allocated = 0
  /\ g_dmabuf_mem_handle = 0
  /\ g_dmabuf_bus_addr = 0
  /\ g_dmabuf_phys_addr = 0
  /\ pc = "idle"
  /\ call = [fn |-> "init", asize |-> 0]
  /\ ret = NULL
  /\ blocks = {}
  /\ vpu = [h \in Handles |-> "free"]
  /\ starts = 1

\* Where a call goes once hwdma_init_dma_buffer has returned.  It returns
\* true whatever happened.
AfterInit(fn) == IF fn = "allocate" THEN "bump" ELSE "idle"

\* Enter hwdma_init_dma_buffer, for itself or from the allocator; with a buffer
\* present there is nothing to do.
CallWith(present, fn, asize) ==
  /\ pc = "idle"
  /\ call' = [fn |-> fn, asize |-> asize]
  /\ \/ /\ present
        /\ pc' = AfterInit(fn)
        /\ UNCHANGED g_dma_buffer_size
     \/ /\ ~present
        /\ pc' = "alloc"
        /\ g_dma_buffer_size' = HWDMA_BUFFER_SIZE
  /\ UNCHANGED <<broadcom_vpu_fd, g_dma_buffer, dmabuf, allocator, vpu, starts>>

\* Variant: the buffer is allocated anew on every call.
Call_NoReuse(fn, asize) == CallWith(FALSE, fn, asize)

Call(fn, asize) == CallWith(g_dma_buffer # NULL, fn, asize)

AllocVpuMem ==
  /\ pc = "alloc"
  /\ \E h \in Handles \cup {0} :
       broadcom_vpu_mem_alloc(h) /\ g_dmabuf_mem_handle' = h
  /\ pc' = "lock"
  /\ UNCHANGED <<g_dma_buffer, g_dma_buffer_size, g_dmabuf_bus_addr,
                 g_dmabuf_phys_addr, call, allocator, starts>>

\* The bus address, as locked, and the physical address are stored.
StoreAddresses(bus, phys) ==
  /\ pc = "lock"
  /\ g_dmabuf_bus_addr' = bus
  /\ g_dmabuf_phys_addr' = phys
  /\ pc' = "map"
  /\ UNCHANGED <<g_dma_buffer, g_dma_buffer_size, g_dmabuf_mem_handle, call,
                 allocator, starts>>

\* Variant: the lock is forgotten, the handle serves as the bus address.
LockVpuMem_NoLock ==
  /\ StoreAddresses(g_dmabuf_mem_handle, g_dmabuf_mem_handle % PhysMod)
  /\ UNCHANGED <<broadcom_vpu_fd, vpu>>

\* Variant: the mask that turns a bus address into a physical one is forgotten.
LockVpuMem_NoMask ==
  \E bus \in BusAddrs :
    broadcom_vpu_mem_lock(g_dmabuf_mem_handle, bus) /\ StoreAddresses(bus, bus)

LockVpuMem ==
  \E bus \in BusAddrs :
    /\ broadcom_vpu_mem_lock(g_dmabuf_mem_handle, bus)
    /\ StoreAddresses(bus, bus % PhysMod)

MapBuffer ==
  /\ pc = "map"
  /\ g_dma_buffer' \in hw_memmap(g_dmabuf_phys_addr, g_dma_buffer_size)
  /\ pc' = AfterInit(call.fn)
  /\ UNCHANGED <<broadcom_vpu_fd, g_dma_buffer_size, dmabuf, call, allocator,
                 vpu, starts>>

\* The rest of hwdma_allocate_dma_buffer, when asize bytes are asked for, room
\* are left, and the mark advances by taken.  With a null g_dma_buffer the
\* pointer arithmetic still runs: the result is the bare offset.
GiveOut(asize, room, taken) ==
  /\ pc = "bump"
  /\ LET result == g_dma_buffer + g_dma_buffer_allocated
     IN  \/ /\ asize > room
            /\ ret' = NULL
            /\ UNCHANGED <<g_dma_buffer_allocated, blocks>>
         \/ /\ asize <= room
            /\ ret' = result
            /\ g_dma_buffer_allocated' = g_dma_buffer_allocated + taken
            /\ blocks' = blocks \cup
                 (IF result = NULL THEN {}
                  ELSE {[ptr |-> result, len |-> asize, req |-> call.asize]})
  /\ pc' = "idle"
  /\ UNCHANGED <<broadcom_vpu_fd, g_dma_buffer, g_dma_buffer_size, dmabuf, call,
                 vpu, starts>>

\* Variant: the mark advances by the size before rounding.
Bump_Unrounded ==
  GiveOut(RoundUp(call.asize), g_dma_buffer_size - g_dma_buffer_allocated, call.asize)

\* Variant: the request is held against the whole buffer, not what is left.
Bump_WholeSize ==
  GiveOut(RoundUp(call.asize), g_dma_buffer_size, RoundUp(call.asize))

Bump ==
  GiveOut(RoundUp(call.asize), g_dma_buffer_size - g_dma_buffer_allocated,
          RoundUp(call.asize))

\* A new process, with fresh globals, that finds the given table in the VPU.
StartWith(table) ==
  /\ starts < MaxStarts
  /\ starts' = starts + 1
  /\ broadcom_vpu_fd' = -1
  /\ g_dma_buffer' = NULL
  /\ g_dma_buffer_size' = 0
  /\ g_dma_buffer_allocated' = 0
  /\ g_dmabuf_mem_handle' = 0
  /\ g_dmabuf_bus_addr' = 0
  /\ g_dmabuf_phys_addr' = 0
  /\ pc' = "idle"
  /\ call' = [fn |-> "init", asize |-> 0]
  /\ ret' = NULL
  /\ blocks' = {}
  /\ vpu' = table

\* Variant: the memory of the process is given back when it ends.
Restart_Frees ==
  StartWith([h \in Handles |-> IF h = g_dmabuf_mem_handle THEN "free" ELSE vpu[h]])

\* The process ends, at any point, and another one starts; nothing gives the
\* memory back to the VPU.
Restart == StartWith(vpu)

\* The application takes memory from the VPU for itself, or returns a block
\* that is not the buffer's: one of its own, or left by an earlier process.
AppMailbox ==
  /\ pc = "idle"
  /\ \/ \E h \in Handles \cup {0} : broadcom_vpu_mem_alloc(h)
     \/ \E h \in Handles \ {g_dmabuf_mem_handle} :
          \/ vpu[h] # "free" /\ \E bus \in BusAddrs : broadcom_vpu_mem_lock(h, bus)
          \/ broadcom_vpu_mem_unlock(h)
          \/ broadcom_vpu_mem_free(h)
  /\ UNCHANGED <<g_dma_buffer, g_dma_buffer_size, dmabuf, pc, call, allocator, starts>>

BufStep == AllocVpuMem \/ LockVpuMem \/ MapBuffer \/ Bump

\* What a program does that leaves the mailbox to the buffer.
BufOwnNext ==
  \/ Call("init", 0)
  \/ \E n \in AllocSizes : Call("allocate", n)
  \/ BufStep
  \/ Restart

BufNext == BufOwnNext \/ AppMailbox

BufOwnSpec == BufInit /\ [][BufOwnNext]_bufVars
BufSpec == BufInit /\ [][BufNext]_bufVars

-----------------------------------------------------------------------------
(* Properties.                                                             *)

Blocks == [ptr : Nat, len : Nat, req : Nat]

\* The program's globals keep their types: pointers and counters are unsigned,
\* the allocation mark stays within the buffer, so that the unsigned
\* subtraction size - allocated of the allocator cannot wrap.
BufTypeOK ==
  /\ broadcom_vpu_fd \in {-1, 0, 3}
  /\ g_dma_buffer \in {NULL, MapBase}
  /\ g_dma_buffer_size \in {0, HWDMA_BUFFER_SIZE}
  /\ g_dma_buffer_allocated \in 0 .. g_dma_buffer_size
  /\ g_dmabuf_mem_handle \in Handles \cup {0}
  /\ g_dmabuf_bus_addr \in BusAddrs
  /\ g_dmabuf_phys_addr = g_dmabuf_bus_addr % PhysMod
  /\ pc \in {"idle", "alloc", "lock", "map", "bump"}
  /\ call \in [fn : {"init", "allocate"}, asize : 0 .. WordMod - 1]
  /\ ret \in Nat
  /\ vpu \in [Handles -> {"free", "allocated", "locked"}]
  /\ starts \in 1 .. MaxStarts
  /\ blocks \subseteq Blocks

\* Two pieces that hwdma_allocate_dma_buffer gave out never share a byte, be
\* the buffer mapped at the first attempt, after failed ones, or not at all.
BlocksDisjoint ==
  \A a, b \in blocks :
    a # b => a.ptr + a.len <= b.ptr \/ b.ptr + b.len <= a.ptr

\* A piece given out from the mapped buffer ends inside the mapping.  (Pieces
\* given out while nothing is mapped have addresses below MapBase.)
PiecesInMapping ==
  \A b \in blocks : b.ptr >= MapBase =>
    /\ g_dma_buffer = MapBase
    /\ b.ptr + b.len <= MapBase + MappedBytes(HWDMA_BUFFER_SIZE)

\* The inductive invariant behind the two: a piece ends at or
\* below the allocation mark, counted from the mapping, or from NULL when it
\* was given out while no buffer was mapped; the buffer is not mapped during
\* the steps that map it.
AllocatorInv ==
  /\ BlocksDisjoint
  /\ pc \in {"alloc", "lock", "map"} => g_dma_buffer = NULL
  /\ \A b \in blocks :
       \/ b.ptr + b.len <= g_dma_buffer_allocated
       \/ /\ g_dma_buffer = MapBase
          /\ MapBase <= b.ptr
          /\ b.ptr + b.len <= MapBase + g_dma_buffer_allocated

\* A piece is at least as long as its caller asked for.
BlocksLongEnough == \A b \in blocks : b.req <= b.len

\* The processor and the DMA engine mean the same byte: the bus address that
\* hwdma_bus_address gives for a byte of a mapped piece leads to the physical
\* address the mmap put behind it, the mapping starting on a page.
PhysBehind(a) ==
  (g_dmabuf_phys_addr - (g_dmabuf_phys_addr % MEM_PAGE_SIZE)) + (a - MapBase)
BusMatchesMapping ==
  g_dma_buffer # NULL =>
    \A b \in blocks : b.ptr >= g_dma_buffer =>
      \A a \in b.ptr .. b.ptr + b.len - 1 :
        hwdma_bus_address(a) % PhysMod = PhysBehind(a)

\* A mapped buffer is memory that the VPU allocated and locked ("this must be
\* allocated using the VPU", hwdma_broadcom.cpp:44), also when the program
\* leaves the mailbox to the buffer (BufOwnSpec).
BufferBacked ==
  g_dma_buffer # NULL =>
    /\ g_dmabuf_mem_handle \in Handles
    /\ vpu[g_dmabuf_mem_handle] = "locked"
    /\ g_dmabuf_bus_addr = BusOf(g_dmabuf_mem_handle)

\* The same for every bus address other than 0, whatever fails: it is that of
\* the block whose handle the process holds, and the block is locked.  (A
\* process whose mailbox is dead, see broadcom_vpu_mbox_cmd, has only 0.)
BusAddressIsLocked ==
  g_dmabuf_bus_addr # 0 /\ pc \notin {"alloc", "lock"} =>
    /\ g_dmabuf_mem_handle \in Handles
    /\ vpu[g_dmabuf_mem_handle] = "locked"
    /\ g_dmabuf_bus_addr = BusOf(g_dmabuf_mem_handle)

\* A process that has its buffer keeps it as it is: no later call moves it from
\* under the pieces and control blocks in it (hwdma_broadcom.cpp:56).
BufferKept ==
  [][g_dma_buffer # NULL /\ starts' = starts => UNCHANGED <<g_dma_buffer, dmabuf>>]_bufVars
=============================================================================
