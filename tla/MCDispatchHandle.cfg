SPECIFICATION Spec
CONSTANTS
  Guid = {g1, g2}
  Handle = {h1, h2}
  App = {1}
  Expression = 9
  NoGuid = NoGuid
  NoHandle = NoHandle
  MaxClients = 2
  FrameParts = 1
  MaxParts = 1
  MaxCasts = 0
INVARIANT HandleStillOwned
CHECK_DEADLOCK FALSE
