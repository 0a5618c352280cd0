\* Two transactions on two objects, in every mode.
CONSTANTS
  Threads = {t1, t2}
  Objects = {o1, o2}
  NoThread = NoThread
  MaxAttempts = 1
  MaxOpens = 2
SPECIFICATION Spec
SYMMETRY Symmetry
INVARIANTS
  TypeOK
  Opacity
  VisibleReadIsProtected
PROPERTIES
  ImplementsTxMemory
\* A thread stops after its last attempt.
CHECK_DEADLOCK FALSE
