SPECIFICATION InTurnSpec
CONSTANTS
  MaxPath = 1
  MaxPoints = 2
  MaxVisits = 0
  ChunkSize = 1
  MaxInFlight = 2
  MaxLate = 0
  History = TRUE
PROPERTIES
  WatchedPathIsStored
CHECK_DEADLOCK FALSE
