SPECIFICATION GatewayFairSpec
CONSTANTS
  Conns = {c1, c2}
  Sns = {s1, s2}
  Commands = {}
  NoConn = NoConn
  NoSn = NoSn
  NoCommand = NoCommand
  WriteQueue = 1
  PingTimeout = 1
  AckHandshake = TRUE
INVARIANTS
  GatewayTypeOK
  EntriesAreLive
PROPERTIES
  EntriesAreStable
  SilenceIsNoticed
  WindsDown
