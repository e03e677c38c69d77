SPECIFICATION Spec
CONSTANTS
  Small = 1
  Medium = 2
  Frames <- MCFrames
  Lengths = {2}
  AppKeys = {0, 9}
  Rooms = {5, 40}
  MaxFrames = 2
  MaxPushes = 1
  Recipients = {0, 1, 2}
  MaxMessages = 2
  Cuts = FALSE
  Links = {l1, l2, l3}
  Identities = {a, b}
  NoLink = none
  MaxSessions = 3
  MaxCalls = 2
  MaxDials = 2
  CurlSockets = {1, 2}
  MaxFetches = 3
CHECK_DEADLOCK FALSE
INVARIANTS ReceivedExact FramesExact DoneIsAccepted AuthOverTls NoneForgotten SessionsAgree TunnelExact FetchesDriven
