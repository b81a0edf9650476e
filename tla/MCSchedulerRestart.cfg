SPECIFICATION Spec
CONSTANTS
  Downloads = 2
  Media <- MCMedia
  FromBrowser <- MCFromBrowser
  VideoSites <- MCVideoSites
  Checked <- MCChecked
  MaxSlots = 2
  MaxRestarts = 1
PROPERTIES
  RestartIsHonest
CHECK_DEADLOCK FALSE
