CONSTANTS
  NPeers = 4
  Backlog = 1
  MaxSockets = 2
  AppCloses = TRUE
SPECIFICATION FairSpec
INVARIANTS AcceptsInOrder DescriptorsOwned Counted FailsForCause
PROPERTY CompletedIsAccepted
CHECK_DEADLOCK FALSE
