SPECIFICATION Spec
CONSTANTS
  Connections = {c1, c2, c3}
  Requests <- SseRequests
  MaxHeader = 3
  MaxBody = 2
  Chunk = 3
  MaxSse = 1
PROPERTY RefusedOnlyWhenFull
CHECK_DEADLOCK FALSE
