SPECIFICATION FairSpec

CONSTANTS
  Setups <- MCSetups
  Cap = 2
  MaxRecv = 2
  MaxSend = 2
  MaxClose = 1
  MaxTasks = 3

INVARIANTS
  WritesAccounted
  GracefulClose
  ConnectFirst
  DisconnectedIsUnlisted

PROPERTIES
  LeftIsRemoved

CHECK_DEADLOCK FALSE
