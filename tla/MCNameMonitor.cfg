SPECIFICATION MCSpec
CONSTANTS
  Module = {m1, m2}
  Name = {none, n1, n2}
  NoName = none
  Feature = {f1, f2}
  FaceList <- MCFaceList
  MaxTasks = 2
  MaxRemovals = 1
  Expresser = {1, 2}
  Asker = {a, b}
  MaxExpr = 3
  MaxLeaves = 2
SYMMETRY Symmetry
INVARIANT DirectoryInv ToldWhatIsWatched FollowersInv
PROPERTY AbstractSpec
CHECK_DEADLOCK FALSE
