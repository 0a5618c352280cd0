--------------------------------- MODULE MCRstm ---------------------------------
(* Rstm on small instances.                                                  *)
EXTENDS Rstm, TLC

\* Threads are interchangeable, and so are objects: NoLocals names an object,
\* so only the symmetry of threads is used.
Symmetry == Permutations(Threads)
===============================================================================
