SPECIFICATION Spec
CONSTANTS
  Conns = {c1, c2}
  Handlers = {h1, h2, h3}
  Queries = {q1, q2}
  Fds = {s1, s2, s3}
  NIL = NIL
  DANGLING = DANGLING
  TIMER = TIMER
  SizeMin = 0
  SizeMax = 0
  QueueMax = 2
  Listening = {c1}
  AnyFd = TRUE
  Retries = TRUE
  MaxFaults = 2
SYMMETRY Symmetry
CHECK_DEADLOCK FALSE
INVARIANTS LoopAgrees
