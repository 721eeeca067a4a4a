CONSTANTS
  Window = 2
  MSS = 1
  MaxRetx = 5
  AppBytes <- OneWay
  MaxWrite = 2
  MaxFaults = 1
  PrematureTimeouts = FALSE
SPECIFICATION FairSpec
PROPERTIES  InFlightResolves ReliableTransfer
CHECK_DEADLOCK FALSE
