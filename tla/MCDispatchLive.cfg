SPECIFICATION FairSpec
CONSTANTS
  Guid = {g1, g2}
  Handle = {h1}
  App = {1}
  Expression = 9
  NoGuid = NoGuid
  NoHandle = NoHandle
  MaxClients = 2
  FrameParts = 2
  MaxParts = 3
  MaxCasts = 0
PROPERTY InputReleased DeadPeerClosed SessionSpec
CHECK_DEADLOCK FALSE
