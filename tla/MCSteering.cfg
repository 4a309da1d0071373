SPECIFICATION FairSpec
CONSTANTS
  Sns = {s1}
  Handlers = {h1, h2, h3}
  NoSn = NoSn
  Room = 2
  Overlapping = FALSE
INVARIANTS
  SteeringTypeOK
  DrivenIsWatched
PROPERTIES
  ManualModeEnds
