CONSTANTS
  Window = 2
  MSS = 1
  MaxRetx = 5
  AppBytes <- OneWay
  MaxWrite = 2
  MaxFaults = 2
  PrematureTimeouts = FALSE
SPECIFICATION Spec
INVARIANTS InOrderDelivery
CHECK_DEADLOCK FALSE
