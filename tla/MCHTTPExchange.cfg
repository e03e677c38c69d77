SPECIFICATION Spec
CONSTANTS
  Requests <- AllRequests
  Contents <- AllContents
  Chunked <- Mixed
  ChunkSize = 2
  Capacities = {9, 64}
  MaxRequests = 2
  FollowLost = FALSE
CHECK_DEADLOCK FALSE
INVARIANTS ConnectionAgrees ExchangeExact Answered
PROPERTIES ClosesWithReason
