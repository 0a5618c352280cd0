\* Two transactions on two objects.
CONSTANTS
  Threads = {t1, t2}
  Objects = {o1, o2}
  NoThread = NoThread
  Modes <- SoundModes
  MaxAttempts = 1
  MaxOpens = 2
  MaxOthers = 1
SPECIFICATION Spec
SYMMETRY Symmetry
INVARIANTS
  TypeOK
  Opacity
  OneApplier
PROPERTIES
  ImplementsTxMemory
\* A thread stops after its last attempt.
CHECK_DEADLOCK FALSE
