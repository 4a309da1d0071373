SPECIFICATION Spec
CONSTANTS
  MaxPath = 2
  MaxPoints = 1
  MaxVisits = 2
  ChunkSize = 1
  MaxInFlight = 1
  MaxLate = 1
  History = FALSE
INVARIANTS
  PathTypeOK
  StoredIsDriven
  RunsAreVisits
  OnlyLastRuns
CONSTRAINT JobsOrDocks
CHECK_DEADLOCK FALSE
