-------------------------------- MODULE MCParts --------------------------------
(*****************************************************************************)
(* The small parts of the repository, checked side by side: which one a      *)
(* behaviour is about is chosen in its initial state. The variables of all   *)
(* parts share eleven slots; the slots that a part does not use are 0.       *)
(*****************************************************************************)
EXTENDS Integers, Sequences, FiniteSets

VARIABLES part, v1, v2, v3, v4, v5, v6, v7, v8, v9, v10, v11
vars == <<part, v1, v2, v3, v4, v5, v6, v7, v8, v9, v10, v11>>

Unused11 == v11 = 0
Unused10 == v10 = 0 /\ Unused11
Unused9 == v9 = 0 /\ Unused10
Unused8 == v8 = 0 /\ Unused9
Unused6 == v6 = 0 /\ v7 = 0 /\ Unused8
Unused4 == v4 = 0 /\ v5 = 0 /\ Unused6
Unused3 == v3 = 0 /\ Unused4

-------------------------------------------------------------------------------
(* The parts and the bounds of their instances.                              *)

Tree == INSTANCE RedBlackTree WITH Keys <- 1 .. 6, node <- v1, keys <- v2

LargeTree == INSTANCE RBTreeLarge WITH Keys <- 1 .. 5, node <- v1, keys <- v2

Cache == INSTANCE LFUCache WITH
  Pages <- 1 .. 5, heapDepth <- 2, MaxFrequency <- 4, heap <- v1, table <- v2, hits <- v3

Graph == INSTANCE RandomGraph WITH
  maxNodes <- 4, CONNECTIONS_PER_NODE <- 3, nodes <- v1, val <- v2, neighbors <- v3

Lists == INSTANCE TxLists WITH
  Clients <- {"a", "b"}, Vals <- 0 .. 2, Structures <- {"plain", "release", "hash", "bm", "priv"},
  N_BUCKETS <- 2, MaxOps <- 2,
  structure <- v1, node <- v2, tx <- v3, ops <- v4, owner <- v5

FineLists == INSTANCE FineGrained WITH
  Clients <- {"a", "b"}, Vals <- 0 .. 2,
  Structures <- {"FineGrainList", "FineGrainHash", "CoarseGrainHash"}, N_BUCKETS <- 2,
  structure <- v1, node <- v2, thread <- v3

Locks == INSTANCE SpinLocks WITH
  Clients <- {"a", "b", "c"}, Kinds <- {"tatas", "ticket", "mcs", "d_lock"}, Words <- 4,
  NoNode <- "nobody",
  kind <- v1, word <- v2, count <- v3, next_ticket <- v4, now_serving <- v5, tail <- v6,
  flag <- v7, next <- v8, pc <- v9, my <- v10

Managers == INSTANCE ContentionManagers WITH
  Clients <- {"a", "b"},
  Managers <- {"Aggressive", "Polite", "Karma", "Polka", "Polkavis", "Highlander", "Greedy",
               "Serializer", "Killblocked", "Eruption", "Timestamp", "Whpolka", "Polkaruption",
               "Justice", "Bimodal"},
  MAX_BACKOFF_RETRIES <- 2, MAX_TRIES <- 4, Patience <- 3, MaxPriority <- 2, MaxTime <- 4,
  manager <- v1, s <- v2, time <- v3, alive <- v4, holds <- v5, wants <- v6, enemies <- v7,
  refused <- v8, adding <- v9

Memory == INSTANCE Reclamation WITH
  Threads <- 1 .. 2, Updaters <- {1}, Blocks <- 1 .. 3, POOL_SIZE <- 1, MaxNum <- 4,
  tfence <- v1, trans_nums <- v2, pc <- v3, refs <- v4, stale <- v5, log <- v6, prelimbo <- v7,
  ts <- v8, limbo <- v9, linked <- v10, freed <- v11

Queue == INSTANCE MSQueue WITH
  Workers <- 1 .. 2, Nodes <- 1 .. 10, GROUP_SIZE <- 2, MaxOps <- 4,
  Starts <- {[pooled |-> <<3, 0>>, grouped |-> FALSE, queued |-> 0],
             [pooled |-> <<2, 0>>, grouped |-> TRUE, queued |-> 0],
             [pooled |-> <<3, 3>>, grouped |-> FALSE, queued |-> 2]},
  node <- v1, head <- v2, tail <- v3, top <- v4, global_pool <- v5, group <- v6, my <- v7,
  queue <- v8, items <- v9

Driver == INSTANCE BenchmarkRun WITH
  Threads <- 0 .. 1, MaxTrips <- 2, MaxAborts <- 1,
  config <- v1, Green_light <- v2, terminate <- v3, alarm <- v4, bar <- v5, thread <- v6,
  count <- v7, committed <- v8

\* No three points are on a line. In the first list the middle stripe is
\* empty; in the last, edges that are flipped in a transaction make others
\* tentative again.
Points ==
  {<< <<-8, 1>>, <<-7, -5>>, <<6, 3>>, <<8, -2>> >>,
   << <<-1, 3>>, <<3, -3>>, <<1, -5>>, <<2, -12>>, <<1, 9>>, <<10, -4>>, <<-5, 8>> >>}
Mesh == INSTANCE MeshWorkers WITH
  num_workers <- 3, MAX_COORD <- 16, PointLists <- Points,
  all_points <- v1, sorted_points <- v2, regions <- v3, worker <- v4, bar <- v5, mesh <- v6,
  touched <- v7

-------------------------------------------------------------------------------
Init ==
  \/ part = "tree" /\ Tree!Init /\ Unused3
  \/ part = "large tree" /\ LargeTree!Init /\ Unused3
  \/ part = "cache" /\ Cache!Init /\ Unused4
  \/ part = "graph" /\ Graph!Init /\ Unused4
  \/ part = "lists" /\ Lists!Init /\ Unused6
  \/ part = "fine lists" /\ FineLists!Init /\ Unused4
  \/ part = "locks" /\ Locks!Init /\ Unused11
  \/ part = "managers" /\ Managers!Init /\ Unused10
  \/ part = "memory" /\ Memory!Init
  \/ part = "queue" /\ Queue!Init /\ Unused10
  \/ part = "driver" /\ Driver!Init /\ Unused9
  \/ part = "mesh" /\ Mesh!Init /\ Unused8

TreeStep == part = "tree" /\ Tree!Next /\ UNCHANGED <<part, v3, v4, v5, v6, v7, v8, v9, v10, v11>>
LargeTreeStep == part = "large tree" /\ LargeTree!Next /\ UNCHANGED <<part, v3, v4, v5, v6, v7, v8, v9, v10, v11>>
CacheStep == part = "cache" /\ Cache!Next /\ UNCHANGED <<part, v4, v5, v6, v7, v8, v9, v10, v11>>
GraphStep == part = "graph" /\ Graph!random_transaction /\ UNCHANGED <<part, v4, v5, v6, v7, v8, v9, v10, v11>>
ListStep == part = "lists" /\ Lists!Next /\ UNCHANGED <<part, v6, v7, v8, v9, v10, v11>>
FineListStep == part = "fine lists" /\ FineLists!Next /\ UNCHANGED <<part, v4, v5, v6, v7, v8, v9, v10, v11>>
LockStep == part = "locks" /\ Locks!Next /\ UNCHANGED <<part, v11>>
ManagerStep == part = "managers" /\ Managers!Next /\ UNCHANGED <<part, v10, v11>>
MemoryStep == part = "memory" /\ Memory!Next /\ UNCHANGED part
QueueStep == part = "queue" /\ Queue!Next /\ UNCHANGED <<part, v10, v11>>
DriverStep == part = "driver" /\ Driver!Next /\ UNCHANGED <<part, v9, v10, v11>>
MeshStep == part = "mesh" /\ Mesh!Next /\ UNCHANGED <<part, v8, v9, v10, v11>>

Next ==
  \/ TreeStep \/ LargeTreeStep \/ CacheStep \/ GraphStep \/ ListStep \/ FineListStep
  \/ LockStep \/ ManagerStep \/ MemoryStep \/ QueueStep \/ DriverStep \/ MeshStep

Spec == Init /\ [][Next]_vars

-------------------------------------------------------------------------------
(* What each part must keep; the modules say more about each.                *)

\* Both red-black trees hold what was inserted and not removed, in order and
\* balanced, after any insertions and removals (RBTree.cpp, RBTreeLarge.cpp).
TreesAreTheSet ==
  /\ part = "tree" => Tree!IsTheSet
  /\ part = "large tree" => LargeTree!IsTheSet

\* The page table and the frequency heap of LFUCache.cpp point at each other.
TableFindsThePages == part = "cache" => Cache!TableFindsThePages

\* The neighbour lists of RandomGraphList.cpp are symmetric after any sequence
\* of insertions and removals.
GraphIsSane == part = "graph" => Graph!isSane

\* The transactional lists stay sorted and their values stay in their buckets.
ListsAreSane == part = "lists" => Lists!IsSane

\* After a privatizer's fence nobody else has its nodes (PrivList.h).
PrivateIsPrivate == part = "lists" => Lists!PrivateIsPrivate

\* A committed list operation did what it would do alone, early releases and
\* nodes that are used again included (LinkedListRelease.cpp and the others).
EveryOperationTakesEffect == [][part = "lists" => Lists!NextTakesEffect]_vars

\* Hand-over-hand locks keep the lists of FGL.cpp and CGHash.cpp a set, no one
\* looks at a freed node, and the threads do not block each other.
LocksAreEnough == part = "fine lists" => FineLists!LocksAreEnough

\* The spin locks of atomic_ops.h and of CGL exclude, and never all threads wait.
OneHolderAndNoStall == part = "locks" => Locks!OneHolderAndNoStall

\* Contention managers do not let a circle of transactions wait for ever,
\* unless two are tied under a manager whose rule has no answer.
SomeoneGetsThrough == part = "managers" => Managers!SomeoneGetsThrough


\* No block is freed while a transaction that began before it was deleted can
\* reach it (Reclaimer.h, Epoch.h, policies.h).
NoUseAfterFree == part = "memory" => Memory!NoUseAfterFree

\* A block is linked, waiting to be freed, or free, and in one list only.
EveryBlockInOnePlace == part = "memory" => Memory!EveryBlockInOnePlace

\* The non-blocking queue of the mesh and its pool (queues.cc) keep the order
\* of the items and every node in one place.
QueueIsFifo == part = "queue" => Queue!QueueIsFifo

\* The benchmark's barrier holds and its counts are what was done.
ReportsWhatWasDone == part = "driver" => Driver!ReportsWhatWasDone

\* The workers of the mesh end with a Delaunay triangulation.
EndsDelaunay == part = "mesh" => Mesh!EndsDelaunay

\* Private phases of the mesh touch nothing of each other; a tentative edge
\* has one owner.
WorkIsDivided == part = "mesh" => Mesh!WorkIsDivided
===============================================================================
