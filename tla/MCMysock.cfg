CONSTANTS
  Files <- MissingThenFile
  BufSize = 2
  LineSize = 2
  MSS = 1
SPECIFICATION FairSpec
INVARIANTS StreamsIntact EndsComeLast NoThreadOutlives
PROPERTY BothEnd
CHECK_DEADLOCK FALSE
