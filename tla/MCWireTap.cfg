SPECIFICATION Spec
CONSTANTS
  MaxFrame = 4
  MaxDay = 2
  MaxIndex = 3
  Rotate = 3
  Retain = 1
  Reader = reader
  Others = {writer}
  Chunks <- Pieces
  LineSizes = {2}
  MaxSeq = 3
  MaxBoots = 2
  MaxEvents = 1
INVARIANTS
  WireTypeOK
  FramesAreTheStream
  RefsLeadToRecords
CHECK_DEADLOCK FALSE
