SPECIFICATION FairSpec

CONSTANTS
  ServerIds <- MCTwoServers
  NeedReconnect <- MCOneServer
  LateAdds = FALSE
  MaxSessions = 6
  MaxAdds = 2
  MaxRefusals = 0
  MaxEnds = 2

PROPERTIES
  Reconnects

CHECK_DEADLOCK FALSE
