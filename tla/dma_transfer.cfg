SPECIFICATION DmaLiveSpec
CONSTANTS
  HWDMA_BUFFER_SIZE = 64
  MEM_PAGE_SIZE = 32
  WordMod = 256
  PhysMod = 1024
  MapBase = 4096
  Handles <- MCHandles
  AllocSizes <- MCSizes
  Faults = {}
  MaxStarts = 1
  Objects = {o1}
  MAX_DMA_CHANNELS = 1
  ChannelArgs <- MCChannelArgs
  PeriphAddrs <- MCPeriphAddrs
  ByteWidths = {2, 4}
  Counts = {0, 1, 8}
  FlagSets <- MCSomeFlagSets
  ForeignAddrs = {}
  LenMod = 16
INVARIANT DmaTypeOK
INVARIANT RowsInOrder
INVARIANT RemainingExact
INVARIANT MovesStayInData
PROPERTY TransfersEnd
PROPERTY CircularComesRound
PROPERTY ServiceSpec
CHECK_DEADLOCK TRUE
