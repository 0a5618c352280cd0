CONSTANTS
  Jobs = {j1, j2}
  Nodes = {n1, n2, n3}
  NULL = NULL
SPECIFICATION Spec
INVARIANTS TypeOK ListIsTheHeap LastIsTheEnd
PROPERTY ImplementsDeque
CHECK_DEADLOCK FALSE
