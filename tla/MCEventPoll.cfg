SPECIFICATION Spec
CONSTANTS
  Handlers = {h1, h2, h3}
  Conns = {c1, c2, c3}
  Fds = {s1, s2, s3}
  NIL = NIL
  PollTimeOut <- INFINITE
  MaxLock = 2
  EventSize = 2
SYMMETRY Symmetry
CHECK_DEADLOCK FALSE
INVARIANTS Bound LockHolds OneOwner BatchLive NoStaleEvent Registered
PROPERTIES StoppedStaysStopped LockedNotTimedOut
