SPECIFICATION PartsSpec
CONSTANTS
  Pins = {p1, p2}
  NoPin = NoPin
  SlotCount = 2
  Debounce = 2
  MayInitAgain = FALSE
  MaxTime = 6
  MaxEdges = 2
  MaxAdds = 2
  MaxFailures = 1
  ByteBits = 8
  OutLatch = {0, 1}
  Addrs = {1, 2, 3, 4, 5, 6}
  FirstAddr = 1
  LastAddr = 5
  LcdAddrs = {2}
  RgbAddrs = {5}
  LcdDefault = 2
  RgbDefault = 5
  MaxProbeErrors = 1
  Scratchpads <- TwoReadings
  MaxLate = 2
  Reasons = {"panic", "task_wdt", "other"}
  MaxResets = 3
  MaxFull = 1
  MaxFaults = 2
  Tables <- MCTables
  Shipped <- MCShipped
  Sites <- MCSites
  MaxPosts = 1
  LogTasks = {t1, t2}
  Newline = nl
  Blank = blank
  RbCap = 3
  MaxLine = 2
  MaxLogged = 8
INVARIANTS LagsOnlyAfterBounce AddedIsWatched AckerIsFreed AcceptedIsTrue CountsBracketed EveryEventHasItsApi RingIsLogEnd ShownAsAsked
PROPERTY AppComesUp
CHECK_DEADLOCK FALSE
