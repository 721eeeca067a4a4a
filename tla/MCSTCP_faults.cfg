CONSTANTS
  Window = 2
  MSS = 1
  MaxRetx = 1
  AppBytes <- OneWay
  MaxWrite = 2
  MaxFaults = 2
  PrematureTimeouts = TRUE
SPECIFICATION Spec
INVARIANTS WindowsAgree SendBufferTiles StreamIntact CleanClose StreamInv
PROPERTIES FinIsLast ImplementsStreams
CHECK_DEADLOCK FALSE
