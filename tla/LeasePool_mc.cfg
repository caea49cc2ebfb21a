SPECIFICATION HSpec
CONSTANTS
  NumSlots = 2
  GenMod = 3
  RefMax = 2
  BufSize = 1
  Guard = TRUE
  CntMod = 2
  Payloads = {p1}
  MaxSerial = 3
INVARIANTS TypeOK LpCheckClean NoSelfInflictedAbort StaleHandleRejected
