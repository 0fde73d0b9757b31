CONSTANTS
  CardUser = {u1, u2}
  MaxCardMsg = 4
  IdUser = {u1, u2}
  MaxIdMsg = 4
  FaceClient = {u1, u2}
  MaxFaceMsg = 2
  MaxStarts = 1
  Channel = {0, 1}
  MaxSpeak = 3
  MaxSilence = 1
  MaxService = 1
  MAX_BUFFER_COUNT = 3
  MaxSpoken = 2
  MaxPieces = 2
  MaxCancelled = 1
  MaxPauses = 1
SPECIFICATION MCSpec
CHECK_DEADLOCK FALSE
INVARIANTS ReadersInv SpeechInv
PROPERTIES ReadersEnd SpeechEnds
