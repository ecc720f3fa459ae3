SPECIFICATION Spec

CONSTANTS
  Addrs <- MCAddrs
  Pairs <- MCPairs
  Types = {"BATH", "FROM"}
  Sessions <- MCSessions
  MaxEnds = 1

INVARIANTS
  FromUnique
  
  LoopIsForward

CHECK_DEADLOCK FALSE
