SPECIFICATION FairSpec
CONSTANTS
  Handle = {h1, h2}
  Ip = {ip1}
  Id = {box1}
  Request = {r1, r2}
  NoId = NoId
  NoIp = NoIp
  NoRequest = NoRequest
  ClientKind = {"OPENDOOR", "CLOSEDOOR"}
  QueueLimit = 1
  MaxMsgs = 1
INVARIANT QueueBounded
PROPERTY Answered
