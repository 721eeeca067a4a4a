CONSTANTS
  a = a
  b = b
  evil = evil
  r0 = r0
  Host <- TheHosts
  Interface <- TheInterfaces
  Blocked <- TheBlocked
  Routed <- TheRouted
  Egress <- TheEgress
  Traffic <- Mixed
  CacheSize = 2
  MaxSent = 2
  MaxQueued = 2
  MaxDepth = 5
SPECIFICATION FairSpec
INVARIANTS QueueConsistent 
PROPERTIES EveryWaiterAnswered RequestEnds
CHECK_DEADLOCK FALSE
