SPECIFICATION ApartSpec
CONSTANTS
  Conns = {r1, r2}
  Sns = {r1, r2}
  Commands = {1, 2}
  NoConn = NoConn
  NoSn = NoSn
  NoCommand = NoCommand
  WriteQueue = 1
  PingTimeout = 0
  AckHandshake = FALSE
  InfoTypes = {path}
  PathType = path
  NoType = NoType
  Ttl = 0
  MaxAge = 1
  PathStale = 9
  DbFails = FALSE
  MaxPosts = 0
  Unanswered = {r2}
PROPERTIES
  PendingLeaves
  SentLeaves
