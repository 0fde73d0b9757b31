SPECIFICATION FairSpec
CONSTANTS
  r3 = r3
  Request = {r1, r2, r3}
  About <- MCAbout
  Box = {b1, b2}
  Limit = 0
  Stations = 2
  MaxScans = 1
INVARIANT ScheduleInv AnsweredOnce
PROPERTY PublishedIsFresh EveryoneAnswered
CHECK_DEADLOCK FALSE
