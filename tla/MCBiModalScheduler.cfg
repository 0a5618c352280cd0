\* Two clients hand in their jobs while two runners serve them.
CONSTANTS
  NumCores = 2
  Jobs = {j1, j2}
  NoJob = NoJob
  MaxConflicts = 2
SPECIFICATION FairSpec
INVARIANTS
  TypeOK
  JobInOnePlace
PROPERTIES
  ClientsReturn
\* A crashed process stops.
CHECK_DEADLOCK FALSE
