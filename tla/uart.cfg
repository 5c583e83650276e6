SPECIFICATION UartLiveSpec
CONSTANTS
  Channels <- MCChannels
  Requests <- MCRequests
  NoRequest <- MCNoRequest
  FifoSize = 2
  Settings <- MCSettings
  HWUART_BASE_CLOCK = 48000000
  FMT_BUFFER_SIZE = 4
  MaxSent = 4
  MaxArrivals = 3
INVARIANT UartTypeOK
INVARIANT SentInOrder
INVARIANT ReceivedInOrder
INVARIANT RecvCompletedMeansReceived
INVARIANT LineAsAsked
PROPERTY SendTransfersEnd
PROPERTY SentEventually
PROPERTY PrintfReturns
CHECK_DEADLOCK TRUE
