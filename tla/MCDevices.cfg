SPECIFICATION FairSpec
CONSTANTS
  Keys = {k1, k2, k3, k4}
  Ttl = 0
  MaxClock = 1
  Slots = {h1, h2}
  NoSlot = NoSlot
  Users = {u1}
  NoUser = NoUser
  Builds = {FALSE, TRUE}
  AcceptAll = FALSE
  MaxRows = 2
  MaxFaults = 2
  MaxWishes = 1
INVARIANTS
  DevicesTypeOK
  KeyIsCurrent
  CalmKeyIsCurrent
  BindIsRemembered
PROPERTIES
  RobotsComeBack
