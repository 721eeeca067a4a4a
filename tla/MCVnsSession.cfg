CONSTANTS
  Address <- TheAddresses
  Mask <- TheMasks
  And <- ClearLowBits
  MaxEntries = 3
  Names <- TheNames
  Ip <- TheIps
  Files <- TheFiles
  Packets <- ThePackets
  Topologies <- TheTopologies
  MaxPackets = 1
  MaxUnread = 2
SPECIFICATION SessionSpec
INVARIANTS TableIsTheFile LongestMatch LeavesByItsRoute AbortsForCause
PROPERTY SessionEnds
CHECK_DEADLOCK FALSE
