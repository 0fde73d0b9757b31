SPECIFICATION MCSpec
CONSTANTS
  L1 = L1
  L2 = L2
  L3 = L3
  L4 = L4
  N1 = N1
  N2 = N2
  T1 = T1
  T2 = T2
  Lib = {L1, L2, L3, L4}
  Name = {N1, N2}
  NoName = none
  Type = {T1, T2}
  Bin = {b1}
  Msg = {x1, x2}
  Config <- MCConfig
  NameOf <- MCNameOf
  Handles <- MCHandles
  MaxPublished = 3
  MaxFaults = 1
  Stream = {cam}
  Reader = {ps, c1}
  Client = {c1}
  Listener = {a1, a2}
  psychesystem = ps
  psyche_stream = cam
  MaxApplies = 2
  MaxWebCalls = 1
  MaxBreaks = 1
  Mic = {k1, k2}
  MainMic = k1
  Speaker = {g1}
  nobody = nobody
  MaxErrors = 1
  MaxSwitches = 2
  MaxListens = 2
  CacheSize = 3
  MaxMedia = 6
INVARIANTS TablesInv DeliveryInv CloudInv MediaInv RecognitionInv
PROPERTIES QueuedIsTaken WaitsEnd
CHECK_DEADLOCK FALSE
