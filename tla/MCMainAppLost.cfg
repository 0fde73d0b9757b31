SPECIFICATION FairSpec
CONSTANTS
  m1 = m1
  m2 = m2
  ModuleOrder <- TwoModules
  Key = {"m"}
  Newline = "newline"
  MaxKeys = 1
  MaxFrames = 0
  MaxRequests = 1
  ConsoleClose = FALSE
PROPERTY ShutdownHonoured
CHECK_DEADLOCK FALSE
