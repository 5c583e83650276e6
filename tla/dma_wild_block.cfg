SPECIFICATION DmaSpec
CONSTANTS
  HWDMA_BUFFER_SIZE = 64
  MEM_PAGE_SIZE = 32
  WordMod = 256
  PhysMod = 1024
  MapBase = 4096
  Handles <- MCHandles
  AllocSizes <- MCSizes
  Faults = {"mmap"}
  MaxStarts = 1
  Objects = {o1}
  MAX_DMA_CHANNELS = 2
  ChannelArgs <- MCChannelArgs
  PeriphAddrs <- MCPeriphAddrs
  ByteWidths = {4}
  Counts = {2}
  FlagSets <- MCCircular
  ForeignAddrs = {}
  LenMod = 16
INVARIANT ControlBlocksInBuffer
CHECK_DEADLOCK FALSE
