SPECIFICATION FairSpec
CONSTANTS
  Size = 3
  Parts = 2
  MaxTries = 2
  MaxVersion = 2
  MaxSessions = 1
  MaxCrashes = 0
  NoFile = NoFile
  NoTag = NoTag
PROPERTIES
  EverySessionEnds
CHECK_DEADLOCK FALSE
