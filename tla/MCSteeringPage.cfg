SPECIFICATION FairSpec
CONSTANTS
  Sns = {s1}
  Handlers = {h1, h2}
  NoSn = NoSn
  Room = 1
  Overlapping = TRUE
PROPERTIES
  ManualModeEnds
