SPECIFICATION ServicesSpec
CONSTANTS
  Chunks <- MCChunks
  EvDepth = 2
  TxDepth = 2
  SlotBytes = 4
  UartFailing = {"create", "subscribe", "set", "task"}
  PoolRunsDry = TRUE
  MaxChunks = 3
  MaxTxRequests = 2
  MaxUartOthers = 1
  Requests <- MCRequests
  Depth = 2
  LedFailing = {"strip", "subscribe", "task"}
  MaxLedStarts = 3
  MaxPosts = 2
  MaxLedOthers = 2
  MaxBadRefresh = 1
  Clients = {"a", "b"}
  Shapes <- MCShapes
  I2cDepth = 2
  MaxRequests = 3
  MaxFails = 1
  QueueLen = 4
  TempFailing = {"install", "enable", "queue", "task", "timer", "periodic"}
  MaxTempStarts = 4
  MaxStops = 2
  MaxBadReads = 2
INVARIANTS LinesEndWithPattern NoByteWaits FailureLeavesNothing HeapIsOwned AnsweredInOrder
PROPERTIES RequestsGetWritten QueuedGetsShown AcceptedGetsAnswered RunningPublishes
CHECK_DEADLOCK FALSE
