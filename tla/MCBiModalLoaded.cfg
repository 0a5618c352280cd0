CONSTANTS
  NumCores = 2
  Jobs = {j1, j2, j3}
  NoJob = NoJob
  MaxConflicts = 2
SPECIFICATION LoadedSpec
SYMMETRY Symmetry
INVARIANTS
  NoGrantInWritingEpoch
  OneEpochChanger
  JobInOnePlace
PROPERTIES
  EpochAdvancesInOrder
\* A crashed process stops.
CHECK_DEADLOCK FALSE
