SPECIFICATION Spec
CONSTANTS
  Guid = {g1, g2}
  Handle = {h1, h2}
  App = {1, 2}
  Expression = 2
  NoGuid = NoGuid
  NoHandle = NoHandle
  MaxClients = 2
  FrameParts = 2
  MaxParts = 2
  MaxCasts = 1
SYMMETRY Symmetry
INVARIANT TypeOK CacheFreed PartsConserved RegistryInv
CHECK_DEADLOCK FALSE
