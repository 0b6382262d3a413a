SPECIFICATION Spec
CONSTANTS
  Connections = {c1, c2}
  Requests <- MixedRequests
  MaxHeader = 3
  MaxBody = 2
  Chunk = 3
  MaxSse = 1
INVARIANTS
  TypeOK
  BufferBound
  ToolsGetWholeBodies
  SlotAccount
  SseLimit
PROPERTIES
  ReadEnds
  SlotsDrain
CHECK_DEADLOCK FALSE
