SPECIFICATION MCSpec
CONSTANTS
  NumBindings = 2
  Peers = {p1, p2}
  MAIN = MAIN
  NIL = NIL
  MaxTicks = 2
CHECK_DEADLOCK FALSE
INVARIANTS ThreadsAgree
PROPERTIES Deactivates PeersEnd
