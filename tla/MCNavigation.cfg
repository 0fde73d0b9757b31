CONSTANTS
  Mover = {m1, m2}
  MaxDances = 1
  MaxSteps = 1
  MaxCloses = 1
  Client = {c1, c2}
  Map = {a, b}
  MaxTries = 1
  MaxTrouble = 1
  Caller = {p1, p2, p3, p4}
  MAX_POOL = 3
  TurnAngle = {50}
  HeadId = {0, 1, 5}
  MaxOrders = 2
  MaxFailures = 1
  MaxUnplugs = 1
  Spot = {10, 45, 95}
  ReopenAt = 1
  GiveUpAt = 2
  MaxDocks = 2
  MaxDrops = 1
SPECIFICATION MCSpec
CHECK_DEADLOCK FALSE
INVARIANTS MotionInv ControlInv PoolInv HeadInv
PROPERTIES MovesEnd RefusedWhenBusy
