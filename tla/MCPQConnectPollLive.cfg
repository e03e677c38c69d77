SPECIFICATION FairSpec
CONSTANTS
  Conns = {c1, c2}
  Handlers = {h1, h2, h3, h4}
  Queries = {q1, q2}
  Fds = {s1, s2, s3}
  NIL = NIL
  DANGLING = DANGLING
  TIMER = TIMER
  SizeMin = 1
  SizeMax = 1
  QueueMax = 2
  Listening = {}
  AnyFd = FALSE
  Retries = FALSE
  MaxFaults = 0
CHECK_DEADLOCK FALSE
INVARIANTS NothingDangles
PROPERTIES Served
