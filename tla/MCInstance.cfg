SPECIFICATION FairSpec
CONSTANTS
  a = a
  b = b
  c = c
  f1 = f1
  Nobody = Nobody
  NoFile = NoFile
  Launches <- MCLaunches
  HasUrl <- MCHasUrl
  Files <- MCFiles
  HasTray = TRUE

  
PROPERTIES
  
  UrlArrives
  EnvelopesLand
CHECK_DEADLOCK FALSE
