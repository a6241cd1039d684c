SPECIFICATION FairPathSpec
CONSTANTS
  Listener = {l1}
  HTTPS = {l1}
  l1 = l1
  r1 = r1
  r2 = r2
  a1 = a1
  Request = {r1}
  Admin = {a1}
  MaxVersion = 1
  Services = {"respond", "websocket"}
  CloseFrames = TRUE
  MaxAborted = 1
  None = None
PROPERTY ShutdownEnds
CHECK_DEADLOCK FALSE
