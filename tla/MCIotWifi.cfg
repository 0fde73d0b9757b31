SPECIFICATION Spec
CONSTANTS
  Handle = {h1, h2}
  Ip = {ip1, ip2}
  Id = {box1, box2}
  Request = {r1, r2}
  NoId = NoId
  NoIp = NoIp
  NoRequest = NoRequest
  ClientKind = {"OPENDOOR", "CLOSEDOOR", "SETBOXAP"}
  QueueLimit = 3
  MaxMsgs = 1
SYMMETRY Symmetry
INVARIANT EntriesInv AnsweredOnce
PROPERTY DroppedOnlyCloseDoor
