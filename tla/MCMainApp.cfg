SPECIFICATION FairSpec
CONSTANTS
  m1 = m1
  m2 = m2
  ModuleOrder <- TwoModules
  Key = {"q", "m", "newline"}
  Newline = "newline"
  MaxKeys = 1
  MaxFrames = 1
  MaxRequests = 2
  ConsoleClose = TRUE
INVARIANT TeardownInv
PROPERTY ShutdownHonouredUntouched TeardownEnds
CHECK_DEADLOCK FALSE
