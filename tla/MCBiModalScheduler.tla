-------------------------- MODULE MCBiModalScheduler --------------------------
(* BiModalScheduler on small instances.                                      *)
EXTENDS BiModalScheduler, TLC

\* Jobs are interchangeable.
Symmetry == Permutations(Jobs)

-------------------------------------------------------------------------------
(* The clients have added their jobs before a runner first looks at a queue. *)
(* Every split among the queues can happen but one: a client that finds      *)
(* every queue empty chooses core 0.                                         *)

Loads ==
  {load \in [Cores -> UNION {[1 .. n -> Jobs] : n \in 0 .. Cardinality(Jobs)}] :
     /\ load[0] # <<>>
     /\ \A j \in Jobs : \E c \in Cores : \E i \in DOMAIN load[c] :
          /\ load[c][i] = j
          /\ \A d \in Cores : \A k \in DOMAIN load[d] :
               load[d][k] = j => <<d, k>> = <<c, i>>}

LoadedInit ==
  /\ epoch = 0 /\ roQueueCount = 0
  /\ roQueue = EmptyQueue
  /\ \E load \in Loads : queue = [c \in Cores |-> [items |-> load[c], lost |-> FALSE]]
  /\ pc = [c \in Cores |-> "poll"]
  /\ seenEpoch = [c \in Cores |-> 0]
  /\ seenCount = [c \in Cores |-> 0]
  /\ scanned = [c \in Cores |-> 0]
  /\ currJob = [c \in Cores |-> NoJob]
  /\ newTx = [c \in Cores |-> TRUE]
  /\ resched = [c \in Cores |-> NoCore]
  /\ enemy = [c \in Cores |-> NoCore]
  /\ doomed = [c \in Cores |-> FALSE]
  /\ jobEpoch = [j \in Jobs |-> -1]
  /\ stamped = [j \in Jobs |-> FALSE]
  /\ isRO \in [Jobs -> BOOLEAN]
  /\ finished = [j \in Jobs |-> FALSE]
  /\ client = [j \in Jobs |-> "wait"]
  /\ choice = [j \in Jobs |-> NoChoice]
  /\ crashed = FALSE /\ conflicts = 0

LoadedSpec == LoadedInit /\ [][Next]_vars
FairLoadedSpec == LoadedSpec /\ Fairness
===============================================================================
