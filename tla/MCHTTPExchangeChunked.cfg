SPECIFICATION Spec
CONSTANTS
  Requests <- OneRequest
  Contents <- LongContent
  Chunked <- OnlyChunked
  ChunkSize = 2
  Capacities = {64}
  MaxRequests = 1
  FollowLost = TRUE
CHECK_DEADLOCK FALSE
INVARIANTS ReplyComplete
