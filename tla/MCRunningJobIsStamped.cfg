CONSTANTS
  NumCores = 2
  Jobs = {j1, j2, j3}
  NoJob = NoJob
  MaxConflicts = 2
SPECIFICATION Spec
SYMMETRY Symmetry
INVARIANTS
  RunningJobIsStamped
\* A crashed process stops.
CHECK_DEADLOCK FALSE
