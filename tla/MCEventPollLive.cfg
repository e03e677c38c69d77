SPECIFICATION FairSpec
CONSTANTS
  Handlers = {h1, h2}
  Conns = {c1, c2}
  Fds = {s1, s2}
  NIL = NIL
  PollTimeOut = 1000
  MaxLock = 1
  EventSize = 2
CHECK_DEADLOCK FALSE
PROPERTIES StoppedIsDestroyed DisconnectedIsFreed
