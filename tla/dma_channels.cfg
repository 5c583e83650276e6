SPECIFICATION DmaSpec
CONSTANTS
  HWDMA_BUFFER_SIZE = 96
  MEM_PAGE_SIZE = 32
  WordMod = 256
  PhysMod = 1024
  MapBase = 4096
  Handles <- MCOneHandle
  AllocSizes <- MCSizes
  Faults = {}
  MaxStarts = 1
  Objects = {o1, o2}
  MAX_DMA_CHANNELS = 2
  ChannelArgs <- MCValidArgs
  PeriphAddrs <- MCPeriphAddrs
  ByteWidths = {4}
  Counts = {2}
  FlagSets <- MCCircular
  ForeignAddrs = {}
  LenMod = 16
INVARIANT RowsInOrder
INVARIANT InitializedMeansUsable
PROPERTY ServiceSafety
SYMMETRY MCSymmetry
CHECK_DEADLOCK TRUE
