SPECIFICATION FairBusSpec
CONSTANTS
  NumSlots = 2
  GenMod = 2
  RefMax = 9
  BufSize = 1
  Guard = TRUE
  CntMod = 1
  Payloads = {p1, p2}
  frame = frame  note = note  rgb = rgb
  p1 = p1  p2 = p2  q1 = q1  q2 = q2  q3 = q3
  NoQueue = NoQueue
  Events <- MCEvents
  EvKind <- MCKind
  EvQos <- MCQos
  Posters = {p1, p2}
  Isrs = {}
  Posts <- Frames
  Queues = {q1, q2}
  Depth <- MCDepth
  Serves <- ServeAll
  Leavers = {}
  MaxSubs = 2
  SchemaGuard = TRUE
  MaxPosts <- OneTwo
  CliResets = FALSE
INVARIANTS RefsAccounted LeasesIntact PoolNeverAborts
PROPERTY SlotsComeBack
