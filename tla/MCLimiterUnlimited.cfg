SPECIFICATION FairSpec
CONSTANTS
  v = v
  Workers <- MCWorkers
  Chunk = 3
  MaxRate = 2
  MaxSaves = 2
PROPERTIES
  UnlimitedMeansFree
CHECK_DEADLOCK FALSE
