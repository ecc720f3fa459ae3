SPECIFICATION FairSpec

CONSTANTS
  ServerIds <- MCOneServer
  NeedReconnect <- MCOneServer
  LateAdds = TRUE
  MaxSessions = 3
  MaxAdds = 1
  MaxRefusals = 1
  MaxEnds = 0

PROPERTIES
  Reconnects

CHECK_DEADLOCK FALSE
