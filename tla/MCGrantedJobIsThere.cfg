CONSTANTS
  NumCores = 2
  Jobs = {j1, j2}
  NoJob = NoJob
  MaxConflicts = 2
SPECIFICATION Spec
SYMMETRY Symmetry
INVARIANTS
  GrantedJobIsThere
\* A crashed process stops.
CHECK_DEADLOCK FALSE
