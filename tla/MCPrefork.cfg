CONSTANTS
  c1 = c1
  c2 = c2
  Client <- TheClients
  Requests <- TheRequests
  N_CHILD = 2
  MaxHdr = 3
  MaxBody = 1
  SockBuf = 2
  MaxFaults = 1
SPECIFICATION FairSpec
INVARIANTS  NoOrphans
PROPERTIES  StopsTogether
CHECK_DEADLOCK FALSE
