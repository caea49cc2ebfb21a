SPECIFICATION FairLogSpec
CONSTANTS
  Cap = 4
  WordMod = 8
  MaxWrite = 0
  None = None
  x = x  y = y  nl = nl  w1 = w1  w2 = w2
  Bytes = {x, y, nl}
  Writers = {w1, w2}
  Chunks <- MCChunks
  Newline = nl
  AccCap = 2
  ShowCap = 1
  DoorDepth = 2
  MaxCalls = 5
INVARIANTS ShowsWholeLines DropIsCaughtUp
PROPERTIES LinesGetShown RingIsFifo
