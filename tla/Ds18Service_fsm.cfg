SPECIFICATION DsSpec
CONSTANTS
  NumSlots = 1
  GenMod = 4
  RefMax = 4
  BufSize = 1
  Guard = TRUE
  CntMod = 1
  Payloads = {period, once, service, other}
  Posters = {period, once, service, other}
  Isrs = {}
  Period = period
  Once = once
  Service = service
  Other = other
  DrvTick = tick
  Ready = ready
  Error = error
  Foreign = foreign
  Events = {tick, ready, error, foreign}
  ServiceQueue = sq
  AppQueue = aq
  Queues = {sq, aq}
  NoQueue = NoQueue
  EvKind <- MCKind
  EvQos <- MCQos
  Posts <- MCPosts
  Serves <- MCServes
  Depth <- Single
  MaxPosts <- OneForeign
  Leavers = {}
  MaxSubs = 2
  SchemaGuard = TRUE
  CliResets = FALSE
INVARIANTS OneTickAtATime ReadsAfterConversion 
