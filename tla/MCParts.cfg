SPECIFICATION Spec
INVARIANTS
  TreesAreTheSet
  TableFindsThePages
  GraphIsSane
  ListsAreSane
  PrivateIsPrivate
  LocksAreEnough
  OneHolderAndNoStall
  SomeoneGetsThrough
  
  NoUseAfterFree
  EveryBlockInOnePlace
  QueueIsFifo
  ReportsWhatWasDone
  EndsDelaunay
  WorkIsDivided
PROPERTY EveryOperationTakesEffect
CHECK_DEADLOCK FALSE
