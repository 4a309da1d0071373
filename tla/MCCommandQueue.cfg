SPECIFICATION Spec
CONSTANTS
  Conns = {c1}
  Sns = {s1}
  Commands = {1, 2}
  NoConn = NoConn
  NoSn = NoSn
  NoCommand = NoCommand
  WriteQueue = 1
  PingTimeout = 0
  AckHandshake = FALSE
  InfoTypes = {path}
  PathType = path
  NoType = NoType
  Ttl = 1
  MaxAge = 2
  PathStale = 1
  DbFails = TRUE
  MaxPosts = 2
CONSTRAINT PostsOrOrphans
INVARIANTS
  TypeOK
  LiveRowsAreFresh
  AcksAreBacked
  SentIsAccountedFor
PROPERTIES
  KeepsLife
  KeepsLine
  PushedInOrder
  NewestIsCredited
