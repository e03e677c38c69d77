SPECIFICATION Spec
CONSTANTS
  Conns = {c1, c2}
  Handlers = {h1, h2, h3}
  Queries = {q1, q2}
  Fds = {s1, s2, s3}
  NIL = NIL
  DANGLING = DANGLING
  TIMER = TIMER
  SizeMin = 1
  SizeMax = 1
  QueueMax = 2
  Listening = {}
  AnyFd = TRUE
  Retries = TRUE
  MaxFaults = 1
SYMMETRY Symmetry
CHECK_DEADLOCK FALSE
INVARIANTS PoolAgrees
PROPERTIES LostOnlyWithConnection ImplementsService
