CONSTANTS
  c1 = c1
  c2 = c2
  Client <- TheClients
  Requests <- TheRequests
  Limit <- TheLimit
  Files <- TheFiles
  Long <- TheLong
  MaxHdr = 2
  HeaderLen = 1
  SndBuf = 1
  MaxFaults = 1
SPECIFICATION FairSpec
INVARIANTS NoFreedContext ResponsesIntact NeverCutShort
PROPERTIES RequestServed StopsOnceSeen
CHECK_DEADLOCK FALSE
