\* Descriptors and headers are used again by later transactions.
CONSTANTS
  Threads = {t1, t2}
  Objects = {o1}
  NoThread = NoThread
  MaxAttempts = 2
  MaxOpens = 1
SPECIFICATION Spec
SYMMETRY Symmetry
INVARIANTS
  Opacity
  OwnerIsItsTransaction
  NoReaderLeftBehind
  OlderVersionIsThere
PROPERTIES
  ImplementsTxMemory
\* A thread stops after its last attempt.
CHECK_DEADLOCK FALSE
