SPECIFICATION Spec
CONSTANTS
  Size = 2
  Parts = 2
  MaxTries = 1
  MaxVersion = 2
  MaxSessions = 2
  MaxCrashes = 1
  NoFile = NoFile
  NoTag = NoTag
INVARIANTS
  TypeOK
  SavedClaimsAreDurable
PROPERTIES
  DeliveredIsWhole
CHECK_DEADLOCK FALSE
