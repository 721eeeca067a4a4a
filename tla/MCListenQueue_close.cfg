CONSTANTS
  NPeers = 1
  Backlog = 1
  MaxSockets = 1
  AppCloses = TRUE
SPECIFICATION FairSpec

PROPERTY CloseReturns
CHECK_DEADLOCK FALSE
