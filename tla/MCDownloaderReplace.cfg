SPECIFICATION Spec
CONSTANTS
  Size = 2
  Parts = 2
  MaxTries = 1
  MaxVersion = 1
  MaxSessions = 2
  MaxCrashes = 0
  NoFile = NoFile
  NoTag = NoTag
PROPERTIES
  IncompleteNeverReplaces
CHECK_DEADLOCK FALSE
