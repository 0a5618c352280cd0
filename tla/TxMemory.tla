------------------------------- MODULE TxMemory -------------------------------
(*****************************************************************************)
(* What the transactional memory promises of its writes: an array of         *)
(* objects in which every transaction that commits replaces the objects it   *)
(* wrote at once, each by a version made from the one it replaces. Rstm      *)
(* implements it. (What its reads promise is Rstm's Opacity.)                *)
(*****************************************************************************)
CONSTANTS
  Objects,             \* shared objects
  Transactions,        \* names of transactions
  Initial              \* the version objects start with

VARIABLES
  mem,                 \* the transaction that wrote the contents of every object
  log                  \* the committed transactions and the versions they replaced

Init == mem = [o \in Objects |-> Initial] /\ log = {}

Commit(tx, written) ==
  /\ \A entry \in log : entry.tx # tx
  /\ log' = log \cup {[tx |-> tx, writes |-> {<<o, mem[o]>> : o \in written}]}
  /\ mem' = [o \in Objects |-> IF o \in written THEN tx ELSE mem[o]]

Next == \E tx \in Transactions, written \in SUBSET Objects : Commit(tx, written)

Spec == Init /\ [][Next]_<<mem, log>>
===============================================================================
