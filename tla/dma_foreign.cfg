SPECIFICATION DmaSpec
CONSTANTS
  HWDMA_BUFFER_SIZE = 64
  MEM_PAGE_SIZE = 32
  WordMod = 256
  PhysMod = 1024
  MapBase = 4096
  Handles <- MCHandles
  AllocSizes <- MCSizes
  Faults = {}
  MaxStarts = 1
  Objects = {o1}
  MAX_DMA_CHANNELS = 1
  ChannelArgs <- MCValidArgs
  PeriphAddrs <- MCPeriphAddrs
  ByteWidths = {4}
  Counts = {0, 1, 2}
  FlagSets <- MCFlagSets
  ForeignAddrs <- MCForeignAddrs
  LenMod = 16
INVARIANT MovesInVpuMemory
CHECK_DEADLOCK TRUE
