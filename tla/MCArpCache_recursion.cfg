CONSTANTS
  a = a
  b = b
  evil = evil
  r0 = r0
  Host <- TheHosts
  Interface <- TheInterfaces
  Blocked <- TheBlocked
  Routed <- TheRouted
  Egress <- TheEgress
  Traffic <- BothDirections
  CacheSize = 1
  MaxSent = 5
  MaxQueued = 2
  MaxDepth = 6
SPECIFICATION Spec
INVARIANTS NoEndlessRecursion
CHECK_DEADLOCK FALSE
