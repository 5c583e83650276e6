SPECIFICATION BufOwnSpec
CONSTANTS
  HWDMA_BUFFER_SIZE = 96
  MEM_PAGE_SIZE = 64
  WordMod = 256
  PhysMod = 1024
  MapBase = 4096
  Handles <- MCFewHandles
  AllocSizes <- MCSizes
  Faults = {}
  MaxStarts = 3
INVARIANT BufferBacked
CHECK_DEADLOCK TRUE
