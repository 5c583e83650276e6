SPECIFICATION BufSpec
CONSTANTS
  HWDMA_BUFFER_SIZE = 96
  MEM_PAGE_SIZE = 64
  WordMod = 256
  PhysMod = 1024
  MapBase = 4096
  Handles <- MCHandles
  AllocSizes <- MCSizes
  Faults = {"open", "ioctl", "mmap"}
  MaxStarts = 2
INVARIANT BufTypeOK
INVARIANT BlocksDisjoint
INVARIANT PiecesInMapping
INVARIANT BlocksLongEnough
INVARIANT BusMatchesMapping
INVARIANT BusAddressIsLocked
PROPERTY BufferKept
CHECK_DEADLOCK TRUE
