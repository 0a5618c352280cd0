------------------------------ MODULE MCRedoLock ------------------------------
(* RedoLock on small instances.                                              *)
EXTENDS RedoLock, TLC

Symmetry == Permutations(Threads)

\* Eager and lazy acquisition with the default policy, and eager acquisition
\* with the commit counter.
SoundModes ==
  {[isLazy |-> FALSE, counts |-> FALSE], [isLazy |-> TRUE, counts |-> FALSE],
   [isLazy |-> FALSE, counts |-> TRUE]}

\* Lazy acquisition with the commit counter.
LazyCounting == {[isLazy |-> TRUE, counts |-> TRUE]}
===============================================================================
