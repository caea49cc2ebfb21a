SPECIFICATION BusSpec
CONSTANTS
  NumSlots = 1
  GenMod = 8
  RefMax = 5
  BufSize = 1
  Guard = TRUE
  CntMod = 1
  Payloads = {p1, p2}
  frame = frame  note = note  rgb = rgb
  p1 = p1  p2 = p2  q1 = q1  q2 = q2  q3 = q3
  NoQueue = NoQueue
  Events <- MCEvents
  EvKind <- MCKind
  EvQos <- MCQos
  Posters = {p1, p2}
  Isrs = {p1}
  Posts <- CmdPosts
  Queues = {q1, q2, q3}
  Depth <- MCDepth
  Serves <- ServeAll
  Leavers = {q2}
  MaxSubs = 2
  SchemaGuard = TRUE
  MaxPosts <- OneTwo
  CliResets = TRUE
INVARIANTS InPostOrder DeliveriesAddUp
