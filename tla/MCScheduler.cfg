SPECIFICATION FairSpec
CONSTANTS
  Downloads = 2
  Media <- MCMedia
  FromBrowser <- MCFromBrowser
  VideoSites <- MCVideoSites
  Checked <- MCChecked
  MaxSlots = 2
  MaxRestarts = 1
INVARIANTS
  TypeOK
  PageIsConsistent
  WantedIsServed
PROPERTIES
  NeverOverLimit
  StartsAsAsked
  RemovedStaysAway
  QueueDrains
  StopsLand
CHECK_DEADLOCK FALSE
