SPECIFICATION Spec
CONSTANTS
  Sns = {s1, s2}
  Blobs = {b1, b2}
  Tokens = {t1,t2,t3,t4,t5,t6,t7}
  Clients = {c1}
  NoSn = NoSn
  NoBlob = NoBlob
  NoToken = NoToken
  Damaged = Damaged
  MaxOrders = 1
  MaxFaults = 2
SYMMETRY Symmetry
INVARIANTS
  BackupTypeOK
  ServedIsOrdered
  SlotsAreIntact
  RestoredIsOwn
  RefusedIsKept
CHECK_DEADLOCK FALSE
