SPECIFICATION Spec

CONSTANTS
  ServerIds <- MCTwoServers
  NeedReconnect <- MCOneServer
  LateAdds = TRUE
  MaxSessions = 3
  MaxAdds = 3
  MaxRefusals = 1
  MaxEnds = 2

INVARIANTS
  KnownIsUp
  

CHECK_DEADLOCK FALSE
