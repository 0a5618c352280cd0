------------------------ MODULE BiModalScheduler_proofs ------------------------
(*****************************************************************************)
(* Theorems about BiModalScheduler, for every number of cores, every set of  *)
(* jobs and every bound on the conflicts.                                    *)
(*****************************************************************************)
EXTENDS BiModalScheduler, FiniteSetTheorems, TLAPS

-------------------------------------------------------------------------------
(* The queue operators.                                                      *)

\* A queue that a job was pushed to, at either end, is a queue of jobs.
LEMMA PushType ==
  \A q \in QueueType, j \in Jobs :
    Push(q, j) \in QueueType /\ PushFront(q, j) \in QueueType
  BY DEF QueueType, Push, PushFront, IsEmpty

\* The front of a non-empty queue is a job, and the rest is a queue.
LEMMA PopType ==
  \A q \in QueueType : ~IsEmpty(q) => Front(q) \in Jobs /\ Pop(q) \in QueueType
  BY DEF QueueType, Front, Pop, IsEmpty

\* A queue that was just constructed is a queue of jobs (Queue.h:95).
LEMMA EmptyQueueType == EmptyQueue \in QueueType
  BY DEF EmptyQueue, QueueType

\* The size of a queue is a natural number (mySize, Queue.h:113).
LEMMA SizeType == \A q \in QueueType : Size(q) \in Nat
  BY DEF QueueType, Size

-------------------------------------------------------------------------------
(* Counting cores.                                                           *)

\* There is a core 0, which choice and NoChoice name before a core is chosen.
LEMMA CoresNonEmpty == 0 \in Cores /\ NumCores \in Nat
  BY NumCoresAssumption DEF Cores

\* A counter below the last of its values has a successor among them.
LEMMA NextCore ==
  \A k \in Cores : k + 1 \in 0 .. NumCores /\ (k # NumCores - 1 => k + 1 \in Cores)
  BY NumCoresAssumption DEF Cores

\* The counter of allQueuesEmpty stays below twice the number of cores until it
\* has looked at every queue twice (BiModalScheduler.cpp:172-179).
LEMMA NextScanned ==
  \A k \in 0 .. 2 * NumCores - 1 :
    k # 2 * NumCores - 1 => k + 1 \in 0 .. 2 * NumCores - 1
  BY NumCoresAssumption

-------------------------------------------------------------------------------
(* Type correctness. The locals of a thread are constrained at the labels    *)
(* where it uses them: without that, the steps that use them are not typed.  *)

LocalsOK ==
  /\ \A c \in Cores :
       pc[c] \in {"begin", "run", "mark", "clear", "bump"} => currJob[c] \in Jobs
  /\ \A c \in Cores : pc[c] = "mark" => enemy[c] \in Cores
  /\ \A c \in Cores : pc[c] = "take" => seenCount[c] > 1
  /\ \A j \in Jobs : client[j] = "scan" => choice[j].next \in Cores

TypeInv == TypeOK /\ LocalsOK

\* The state that the constructors leave is typed (BiModalScheduler.cpp:18-26).
LEMMA TypeInit == Init => TypeInv
<1> SUFFICES ASSUME Init PROVE TypeInv
  OBVIOUS
<1> USE DEF Init
<1>1. SharedTypeOK /\ RunnerTypeOK
  BY NumCoresAssumption, EmptyQueueType DEF SharedTypeOK, RunnerTypeOK, RunnerLabels
<1>2. TxTypeOK /\ JobTypeOK
  BY DEF TxTypeOK, JobTypeOK
<1>3. ClientTypeOK
  BY NumCoresAssumption DEF ClientTypeOK, NoChoice, Cores
<1>4. LocalsOK
  BY DEF LocalsOK
<1>5. QED
  BY <1>1, <1>2, <1>3, <1>4 DEF TypeInv, TypeOK

\* Every step keeps the types and what a thread relies on at its next statement.
LEMMA TypeStep == TypeInv /\ [Next]_vars => TypeInv'
<1> SUFFICES ASSUME TypeInv, [Next]_vars PROVE TypeInv'
  OBVIOUS
<1> USE DEF TypeInv, TypeOK, LocalsOK, SharedTypeOK, RunnerTypeOK, TxTypeOK,
            JobTypeOK, ClientTypeOK
<1>1. ASSUME NEW c \in Cores, ReadEpoch(c) PROVE TypeInv'
  <2> USE <1>1
      DEF ReadEpoch, At, GoTo, RunnerLabels, sharedVars, txVars, jobVars, clientVars
  <2>1. SharedTypeOK' /\ crashed' \in BOOLEAN
    OBVIOUS
  <2>2. RunnerTypeOK'
    OBVIOUS
  <2>3. TxTypeOK'
    OBVIOUS
  <2>4. JobTypeOK' /\ ClientTypeOK'
    OBVIOUS
  <2>5. LocalsOK'
    OBVIOUS
  <2>6. QED
    BY <2>1, <2>2, <2>3, <2>4, <2>5
<1>2. ASSUME NEW c \in Cores, ReadCount(c) PROVE TypeInv'
  <2> USE <1>2
      DEF ReadCount, At, GoTo, RunnerLabels, sharedVars, txVars, jobVars, clientVars
  <2>1. SharedTypeOK' /\ crashed' \in BOOLEAN
    OBVIOUS
  <2>2. RunnerTypeOK'
    OBVIOUS
  <2>3. TxTypeOK'
    OBVIOUS
  <2>4. JobTypeOK' /\ ClientTypeOK'
    OBVIOUS
  <2>5. LocalsOK'
    OBVIOUS
  <2>6. QED
    BY <2>1, <2>2, <2>3, <2>4, <2>5
<1>3. ASSUME NEW c \in Cores, Take(c) PROVE TypeInv'
  <2> USE <1>3
      DEF Take, TakeGrant, At, GoTo, RunnerLabels, txVars, jobVars, clientVars
  <2>1. SharedTypeOK' /\ crashed' \in BOOLEAN
    OBVIOUS
  <2>2. RunnerTypeOK'
    OBVIOUS
  <2>3. TxTypeOK'
    OBVIOUS
  <2>4. JobTypeOK' /\ ClientTypeOK'
    OBVIOUS
  <2>5. LocalsOK'
    OBVIOUS
  <2>6. QED
    BY <2>1, <2>2, <2>3, <2>4, <2>5
<1>4. ASSUME NEW c \in Cores, TakeLast(c) PROVE TypeInv'
  <2> USE <1>4
      DEF TakeLast, TakeGrant, At, GoTo, RunnerLabels, txVars, jobVars, clientVars
  <2>1. SharedTypeOK' /\ crashed' \in BOOLEAN
    OBVIOUS
  <2>2. RunnerTypeOK'
    OBVIOUS
  <2>3. TxTypeOK'
    OBVIOUS
  <2>4. JobTypeOK' /\ ClientTypeOK'
    OBVIOUS
  <2>5. LocalsOK'
    OBVIOUS
  <2>6. QED
    BY <2>1, <2>2, <2>3, <2>4, <2>5
<1>5. ASSUME NEW c \in Cores, DequeRO(c) PROVE TypeInv'
  <2> USE <1>5, PopType
      DEF DequeRO, At, GoTo, RunnerLabels, txVars, clientVars
  <2>1. SharedTypeOK' /\ crashed' \in BOOLEAN
    OBVIOUS
  <2>2. RunnerTypeOK'
    OBVIOUS
  <2>3. TxTypeOK'
    OBVIOUS
  <2>4. JobTypeOK' /\ ClientTypeOK'
    OBVIOUS
  <2>5. LocalsOK'
    OBVIOUS
  <2>6. QED
    BY <2>1, <2>2, <2>3, <2>4, <2>5
<1>6. ASSUME NEW c \in Cores, EndReadingEpoch(c) PROVE TypeInv'
  <2> USE <1>6
      DEF EndReadingEpoch, CasEpoch, At, GoTo, RunnerLabels, txVars, jobVars, clientVars
  <2>1. SharedTypeOK' /\ crashed' \in BOOLEAN
    OBVIOUS
  <2>2. RunnerTypeOK'
    OBVIOUS
  <2>3. TxTypeOK'
    OBVIOUS
  <2>4. JobTypeOK' /\ ClientTypeOK'
    OBVIOUS
  <2>5. LocalsOK'
    OBVIOUS
  <2>6. QED
    BY <2>1, <2>2, <2>3, <2>4, <2>5
<1>7. ASSUME NEW c \in Cores, CheckROSize(c) PROVE TypeInv'
  <2> USE <1>7
      DEF CheckROSize, OnlyGoTo, At, GoTo, RunnerLabels, sharedVars, txVars, jobVars, clientVars
  <2>1. SharedTypeOK' /\ crashed' \in BOOLEAN
    OBVIOUS
  <2>2. RunnerTypeOK'
    OBVIOUS
  <2>3. TxTypeOK'
    OBVIOUS
  <2>4. JobTypeOK' /\ ClientTypeOK'
    OBVIOUS
  <2>5. LocalsOK'
    OBVIOUS
  <2>6. QED
    BY <2>1, <2>2, <2>3, <2>4, <2>5
<1>8. ASSUME NEW c \in Cores, ScanQueue(c) PROVE TypeInv'
  <2> USE <1>8, NumCoresAssumption
      DEF ScanQueue, At, GoTo, RunnerLabels, sharedVars, txVars, jobVars, clientVars
  <2>1. SharedTypeOK' /\ crashed' \in BOOLEAN
    OBVIOUS
  <2>2. RunnerTypeOK'
    <3>1. PICK n \in 0 .. 2 * NumCores - 1 : scanned' = [scanned EXCEPT ![c] = n]
      <4>1. scanned[c] \in 0 .. 2 * NumCores - 1
        OBVIOUS
      <4>2. 0 \in 0 .. 2 * NumCores - 1
        OBVIOUS
      <4>3. QED
        BY <4>1, <4>2, NextScanned, Zenon
    <3>2. scanned' \in [Cores -> 0 .. 2 * NumCores - 1]
      BY <3>1
    <3>3. pc' \in [Cores -> RunnerLabels]
      OBVIOUS
    <3>4. QED
      BY <3>2, <3>3
  <2>3. TxTypeOK'
    OBVIOUS
  <2>4. JobTypeOK' /\ ClientTypeOK'
    OBVIOUS
  <2>5. LocalsOK'
    OBVIOUS
  <2>6. QED
    BY <2>1, <2>2, <2>3, <2>4, <2>5
<1>9. ASSUME NEW c \in Cores, CheckRONonEmpty(c) PROVE TypeInv'
  <2> USE <1>9
      DEF CheckRONonEmpty, OnlyGoTo, At, GoTo, RunnerLabels, sharedVars, txVars, jobVars, clientVars
  <2>1. SharedTypeOK' /\ crashed' \in BOOLEAN
    OBVIOUS
  <2>2. RunnerTypeOK'
    OBVIOUS
  <2>3. TxTypeOK'
    OBVIOUS
  <2>4. JobTypeOK' /\ ClientTypeOK'
    OBVIOUS
  <2>5. LocalsOK'
    OBVIOUS
  <2>6. QED
    BY <2>1, <2>2, <2>3, <2>4, <2>5
<1>10. ASSUME NEW c \in Cores, StartReadingEpoch(c) PROVE TypeInv'
  <2> USE <1>10
      DEF StartReadingEpoch, CasEpoch, At, GoTo, RunnerLabels, txVars, jobVars, clientVars
  <2>1. SharedTypeOK' /\ crashed' \in BOOLEAN
    OBVIOUS
  <2>2. RunnerTypeOK'
    OBVIOUS
  <2>3. TxTypeOK'
    OBVIOUS
  <2>4. JobTypeOK' /\ ClientTypeOK'
    OBVIOUS
  <2>5. LocalsOK'
    OBVIOUS
  <2>6. QED
    BY <2>1, <2>2, <2>3, <2>4, <2>5
<1>11. ASSUME NEW c \in Cores, Grant(c) PROVE TypeInv'
  <2> USE <1>11, SizeType, NumCoresAssumption
      DEF Grant, At, GoTo, RunnerLabels, txVars, jobVars, clientVars
  <2>1. SharedTypeOK' /\ crashed' \in BOOLEAN
    OBVIOUS
  <2>2. RunnerTypeOK'
    OBVIOUS
  <2>3. TxTypeOK'
    OBVIOUS
  <2>4. JobTypeOK' /\ ClientTypeOK'
    OBVIOUS
  <2>5. LocalsOK'
    OBVIOUS
  <2>6. QED
    BY <2>1, <2>2, <2>3, <2>4, <2>5
<1>12. ASSUME NEW c \in Cores, TakeLocal(c) PROVE TypeInv'
  <2> USE <1>12, PopType
      DEF TakeLocal, At, GoTo, RunnerLabels, txVars, clientVars
  <2>1. SharedTypeOK' /\ crashed' \in BOOLEAN
    OBVIOUS
  <2>2. RunnerTypeOK'
    OBVIOUS
  <2>3. TxTypeOK'
    OBVIOUS
  <2>4. JobTypeOK' /\ ClientTypeOK'
    OBVIOUS
  <2>5. LocalsOK'
    OBVIOUS
  <2>6. QED
    BY <2>1, <2>2, <2>3, <2>4, <2>5
<1>13. ASSUME NEW c \in Cores, Begin(c) PROVE TypeInv'
  <2> USE <1>13
      DEF Begin, At, GoTo, RunnerLabels, sharedVars, clientVars
  <2>1. SharedTypeOK' /\ crashed' \in BOOLEAN
    OBVIOUS
  <2>2. RunnerTypeOK'
    OBVIOUS
  <2>3. TxTypeOK'
    OBVIOUS
  <2>4. JobTypeOK' /\ ClientTypeOK'
    OBVIOUS
  <2>5. LocalsOK'
    OBVIOUS
  <2>6. QED
    BY <2>1, <2>2, <2>3, <2>4, <2>5
<1>14. ASSUME NEW c \in Cores, OpenWrite(c) PROVE TypeInv'
  <2> USE <1>14
      DEF OpenWrite, At, sharedVars, runnerVars, txVars, clientVars
  <2>1. SharedTypeOK' /\ crashed' \in BOOLEAN
    OBVIOUS
  <2>2. RunnerTypeOK'
    OBVIOUS
  <2>3. TxTypeOK'
    OBVIOUS
  <2>4. JobTypeOK' /\ ClientTypeOK'
    OBVIOUS
  <2>5. LocalsOK'
    OBVIOUS
  <2>6. QED
    BY <2>1, <2>2, <2>3, <2>4, <2>5
<1>15. ASSUME NEW c \in Cores, NEW d \in Cores, Conflict(c, d) PROVE TypeInv'
  <2> USE <1>15
      DEF Conflict, At, GoTo, RunnerLabels, sharedVars, jobVars, clientVars
  <2>1. SharedTypeOK' /\ crashed' \in BOOLEAN
    OBVIOUS
  <2>2. RunnerTypeOK'
    OBVIOUS
  <2>3. TxTypeOK'
    <3>1. resched' \in [Cores -> Cores \cup {NoCore}]
      OBVIOUS
    <3>2. doomed' \in [Cores -> BOOLEAN]
      OBVIOUS
    <3>3. enemy' \in [Cores -> Cores \cup {NoCore}]
      OBVIOUS
    <3>4. QED
      BY <3>1, <3>2, <3>3
  <2>4. JobTypeOK' /\ ClientTypeOK'
    OBVIOUS
  <2>5. LocalsOK'
    OBVIOUS
  <2>6. QED
    BY <2>1, <2>2, <2>3, <2>4, <2>5
<1>16. ASSUME NEW c \in Cores, Reschedule(c) PROVE TypeInv'
  <2> USE <1>16, PushType
      DEF Reschedule, At, GoTo, RunnerLabels, jobVars, clientVars
  <2>1. SharedTypeOK' /\ crashed' \in BOOLEAN
    <3>1. CASE isRO[currJob[c]]
      BY <3>1
    <3>2. CASE ~isRO[currJob[c]]
      <4>1. resched[c] \in Cores
        OBVIOUS
      <4>2. queue' = [queue EXCEPT ![resched[c]] = PushFront(@, currJob[c])]
        BY <3>2
      <4>3. queue' \in [Cores -> QueueType]
        BY <4>1, <4>2
      <4>4. QED
        BY <3>2, <4>3
    <3>3. QED
      BY <3>1, <3>2
  <2>2. RunnerTypeOK'
    OBVIOUS
  <2>3. TxTypeOK'
    OBVIOUS
  <2>4. JobTypeOK' /\ ClientTypeOK'
    OBVIOUS
  <2>5. LocalsOK'
    OBVIOUS
  <2>6. QED
    BY <2>1, <2>2, <2>3, <2>4, <2>5
<1>17. ASSUME NEW c \in Cores, Retry(c) PROVE TypeInv'
  <2> USE <1>17
      DEF Retry, At, GoTo, RunnerLabels, sharedVars, jobVars, clientVars
  <2>1. SharedTypeOK' /\ crashed' \in BOOLEAN
    OBVIOUS
  <2>2. RunnerTypeOK'
    OBVIOUS
  <2>3. TxTypeOK'
    OBVIOUS
  <2>4. JobTypeOK' /\ ClientTypeOK'
    OBVIOUS
  <2>5. LocalsOK'
    OBVIOUS
  <2>6. QED
    BY <2>1, <2>2, <2>3, <2>4, <2>5
<1>18. ASSUME NEW c \in Cores, Commit(c) PROVE TypeInv'
  <2> USE <1>18
      DEF Commit, At, GoTo, RunnerLabels, sharedVars, clientVars
  <2>1. SharedTypeOK' /\ crashed' \in BOOLEAN
    OBVIOUS
  <2>2. RunnerTypeOK'
    OBVIOUS
  <2>3. TxTypeOK'
    OBVIOUS
  <2>4. JobTypeOK' /\ ClientTypeOK'
    OBVIOUS
  <2>5. LocalsOK'
    OBVIOUS
  <2>6. QED
    BY <2>1, <2>2, <2>3, <2>4, <2>5
<1>19. ASSUME NEW c \in Cores, ClearJob(c) PROVE TypeInv'
  <2> USE <1>19
      DEF ClearJob, At, GoTo, RunnerLabels, sharedVars, txVars, jobVars, clientVars
  <2>1. SharedTypeOK' /\ crashed' \in BOOLEAN
    OBVIOUS
  <2>2. RunnerTypeOK'
    OBVIOUS
  <2>3. TxTypeOK'
    OBVIOUS
  <2>4. JobTypeOK' /\ ClientTypeOK'
    OBVIOUS
  <2>5. LocalsOK'
    OBVIOUS
  <2>6. QED
    BY <2>1, <2>2, <2>3, <2>4, <2>5
<1>20. ASSUME NEW j \in Jobs, StartSchedule(j) PROVE TypeInv'
  <2> USE <1>20, SizeType
      DEF StartSchedule, sharedVars, runnerVars, txVars, jobVars
  <2>1. SharedTypeOK' /\ crashed' \in BOOLEAN
    OBVIOUS
  <2>2. RunnerTypeOK'
    OBVIOUS
  <2>3. TxTypeOK'
    OBVIOUS
  <2>4. JobTypeOK' /\ ClientTypeOK'
    <3>1. PICK c \in Cores : choice' =
            [choice EXCEPT ![j] = [core |-> c, min |-> Size(queue[c]), next |-> 0]]
      OBVIOUS
    <3>2. [core |-> c, min |-> Size(queue[c]), next |-> 0]
            \in [core : Cores, min : Nat, next : 0 .. NumCores]
      BY NumCoresAssumption
    <3>3. QED
      BY <3>1, <3>2
  <2>5. LocalsOK'
    <3>1. choice'[j].next = 0
      OBVIOUS
    <3>2. 0 \in Cores
      BY NumCoresAssumption DEF Cores
    <3>3. QED
      BY <3>1, <3>2
  <2>6. QED
    BY <2>1, <2>2, <2>3, <2>4, <2>5
<1>21. ASSUME NEW j \in Jobs, ScanCore(j) PROVE TypeInv'
  <2> USE <1>21, SizeType, NextCore, CoresNonEmpty
      DEF ScanCore, sharedVars, runnerVars, txVars, jobVars
  <2>1. SharedTypeOK' /\ crashed' \in BOOLEAN
    OBVIOUS
  <2>2. RunnerTypeOK'
    OBVIOUS
  <2>3. TxTypeOK'
    OBVIOUS
  <2>4. JobTypeOK' /\ ClientTypeOK'
    <3>1. choice[j].next \in Cores
      OBVIOUS
    <3>2. Size(queue[choice[j].next]) \in Nat /\ choice[j].next + 1 \in 0 .. NumCores
      BY <3>1
    <3>3. QED
      BY <3>1, <3>2
  <2>5. LocalsOK'
    <3>1. client'[j] = "scan" => choice[j].next # NumCores - 1
      OBVIOUS
    <3>2. choice'[j].next = choice[j].next + 1
      OBVIOUS
    <3>3. QED
      BY <3>1, <3>2
  <2>6. QED
    BY <2>1, <2>2, <2>3, <2>4, <2>5
<1>22. ASSUME NEW j \in Jobs, AddJob(j) PROVE TypeInv'
  <2> USE <1>22, PushType, CoresNonEmpty
      DEF AddJob, NoChoice, runnerVars, txVars, jobVars
  <2>1. SharedTypeOK' /\ crashed' \in BOOLEAN
    <3>1. CASE queue[choice[j].core].lost
      BY <3>1
    <3>2. CASE ~queue[choice[j].core].lost
      <4>1. queue' = [queue EXCEPT ![choice[j].core] = Push(@, j)]
        BY <3>2
      <4>2. choice[j].core \in Cores
        OBVIOUS
      <4>3. queue' \in [Cores -> QueueType]
        BY <4>1, <4>2
      <4>4. QED
        BY <3>2, <4>3
    <3>3. QED
      BY <3>1, <3>2
  <2>2. RunnerTypeOK'
    OBVIOUS
  <2>3. TxTypeOK'
    OBVIOUS
  <2>4. JobTypeOK' /\ ClientTypeOK'
    <3>1. NoChoice \in [core : Cores, min : Nat, next : 0 .. NumCores]
      OBVIOUS
    <3>2. client' \in [Jobs -> {"schedule", "scan", "add", "wait", "done"}]
      <4>1. client' = client \/ client' = [client EXCEPT ![j] = "wait"]
        BY Zenon
      <4>2. QED
        BY <4>1
    <3>3. choice' = choice \/ choice' = [choice EXCEPT ![j] = NoChoice]
      OBVIOUS
    <3>4. choice' \in [Jobs -> [core : Cores, min : Nat, next : 0 .. NumCores]]
      BY <3>1, <3>3, Zenon
    <3>5. QED
      BY <3>2, <3>4
  <2>5. LocalsOK'
    OBVIOUS
  <2>6. QED
    BY <2>1, <2>2, <2>3, <2>4, <2>5
<1>23. ASSUME NEW j \in Jobs, Return(j) PROVE TypeInv'
  BY <1>23 DEF Return, sharedVars, runnerVars, txVars, jobVars
<1>24. ASSUME NEW c \in Cores, Mark(c) PROVE TypeInv'
  <2> USE <1>24
      DEF Mark, At, GoTo, RunnerLabels, sharedVars, jobVars, clientVars
  <2>1. SharedTypeOK' /\ crashed' \in BOOLEAN
    OBVIOUS
  <2>2. RunnerTypeOK'
    OBVIOUS
  <2>3. TxTypeOK'
    OBVIOUS
  <2>4. JobTypeOK' /\ ClientTypeOK'
    OBVIOUS
  <2>5. LocalsOK'
    OBVIOUS
  <2>6. QED
    BY <2>1, <2>2, <2>3, <2>4, <2>5
<1>25. CASE UNCHANGED vars
  BY <1>25 DEF vars, sharedVars, runnerVars, txVars, jobVars, clientVars
<1>26. QED
  BY <1>1, <1>2, <1>3, <1>4, <1>5, <1>6, <1>7, <1>8, <1>9, <1>10, <1>11, <1>12,
     <1>13, <1>14, <1>15, <1>16, <1>17, <1>18, <1>19, <1>20, <1>21, <1>22, <1>23,
     <1>24, <1>25
     DEF Next, Runner, Client

\* Every variable keeps its type, whatever the threads do (all of doJobs and
\* schedule, and the hooks of BiModalCM).
THEOREM TypeCorrect == Spec => []TypeOK
<1>1. Spec => []TypeInv
  BY TypeInit, TypeStep, PTL DEF Spec
<1>2. TypeInv => TypeOK
  BY DEF TypeInv
<1>3. QED
  BY <1>1, <1>2, PTL

-------------------------------------------------------------------------------
(* The epoch. NoGrantInWritingEpoch and OneEpochChanger need each other, and  *)
(* two facts about what a runner remembers: the epoch it saw is not in the    *)
(* future, and is a writing epoch when the runner is to start a reading one.  *)

SeenEpochsOK ==
  \A c \in Cores :
    /\ seenEpoch[c] <= epoch
    /\ pc[c] \in {"roSize", "allEmpty", "roNonEmpty", "switch"} => ~IsReading(seenEpoch[c])

EpochInv == NoGrantInWritingEpoch /\ OneEpochChanger /\ SeenEpochsOK

\* Reading and writing epochs alternate.
LEMMA Parity == \A e \in Nat : IsReading(e + 1) <=> ~IsReading(e)
  BY DEF IsReading

\* The first epoch is a writing epoch without grants (BiModalScheduler.cpp:23-24).
LEMMA EpochInit == Init => EpochInv
  BY DEF Init, EpochInv, NoGrantInWritingEpoch, OneEpochChanger, ChangesEpoch,
         SeenEpochsOK, IsReading

\* A step of runner c between labels that have no part in changing the epoch.
LEMMA EpochLocalStep ==
  ASSUME TypeOK, EpochInv, NEW c \in Cores, NEW label \in RunnerLabels,
         UNCHANGED <<epoch, roQueueCount>>,
         UNCHANGED seenEpoch \/ seenEpoch' = [seenEpoch EXCEPT ![c] = 0],
         GoTo(c, label),
         label \notin {"grant", "dequeLast", "bump"},
         label \in {"roSize", "allEmpty", "roNonEmpty", "switch"} =>
           ~IsReading(seenEpoch'[c])
  PROVE  EpochInv'
<1> USE DEF TypeOK, SharedTypeOK, RunnerTypeOK, GoTo
<1>1. \A d \in Cores : ChangesEpoch(d)' => ChangesEpoch(d)
  BY DEF ChangesEpoch
<1>2. NoGrantInWritingEpoch' /\ OneEpochChanger'
  BY <1>1 DEF EpochInv, NoGrantInWritingEpoch, OneEpochChanger
<1>3. SeenEpochsOK'
  BY DEF EpochInv, SeenEpochsOK
<1>4. QED
  BY <1>2, <1>3 DEF EpochInv

\* A step that leaves the epoch, the count and the runners alone.
LEMMA EpochIdleStep ==
  EpochInv /\ UNCHANGED <<epoch, roQueueCount, pc, seenEpoch>> => EpochInv'
  BY DEF EpochInv, NoGrantInWritingEpoch, OneEpochChanger, ChangesEpoch, SeenEpochsOK

\* Every step keeps the epoch consistent: five of them by what they do
\* (Take, TakeLast, EndReadingEpoch, StartReadingEpoch and Grant change the epoch
\* or its grants), the others because they leave both alone.
LEMMA EpochStep == TypeInv /\ EpochInv /\ [Next]_vars => EpochInv'
<1> SUFFICES ASSUME TypeInv, EpochInv, [Next]_vars PROVE EpochInv'
  OBVIOUS
<1>0. TypeOK
  BY DEF TypeInv
<1>a. /\ epoch \in Nat /\ roQueueCount \in Nat
      /\ pc \in [Cores -> RunnerLabels] /\ seenEpoch \in [Cores -> Nat]
  BY <1>0 DEF TypeOK, SharedTypeOK, RunnerTypeOK
<1>1. ASSUME NEW c \in Cores, ReadEpoch(c) PROVE EpochInv'
  <2>1. ChangesEpoch(c)' = FALSE /\ \A d \in Cores \ {c} : ChangesEpoch(d)' => ChangesEpoch(d)
    BY <1>1, <1>a DEF ReadEpoch, At, GoTo, ChangesEpoch, sharedVars
  <2>2. NoGrantInWritingEpoch' /\ OneEpochChanger'
    BY <1>1, <2>1 DEF ReadEpoch, sharedVars, EpochInv, NoGrantInWritingEpoch, OneEpochChanger
  <2>3. SeenEpochsOK'
    BY <1>1, <1>a DEF ReadEpoch, GoTo, sharedVars, EpochInv, SeenEpochsOK
  <2>4. QED
    BY <2>2, <2>3 DEF EpochInv
<1>2. ASSUME NEW c \in Cores, ReadCount(c) PROVE EpochInv'
  BY <1>0, <1>2, EpochLocalStep DEF ReadCount, sharedVars, RunnerLabels
<1>3. ASSUME NEW c \in Cores, Take(c) PROVE EpochInv'
  <2>1. CASE roQueueCount = seenCount[c]
    <3>1. IsReading(epoch) /\ \A d \in Cores : ~ChangesEpoch(d)
      <4>1. roQueueCount # 0
        BY <1>3, <2>1 DEF Take, At, TypeInv, LocalsOK
      <4>2. QED
        BY <4>1 DEF EpochInv, NoGrantInWritingEpoch, OneEpochChanger
    <3>2. \A d \in Cores : ~ChangesEpoch(d)'
      BY <1>3, <1>a, <2>1, <3>1 DEF Take, TakeGrant, GoTo, ChangesEpoch
    <3>3. SeenEpochsOK'
      BY <1>3, <1>a, <2>1 DEF Take, TakeGrant, GoTo, EpochInv, SeenEpochsOK
    <3>4. epoch' = epoch
      BY <1>3 DEF Take, TakeGrant
    <3>5. QED
      BY <3>1, <3>2, <3>3, <3>4 DEF EpochInv, NoGrantInWritingEpoch, OneEpochChanger
  <2>2. CASE roQueueCount # seenCount[c]
    BY <1>0, <1>3, <2>2, EpochLocalStep DEF Take, TakeGrant, RunnerLabels
  <2>3. QED
    BY <2>1, <2>2
<1>4. ASSUME NEW c \in Cores, TakeLast(c) PROVE EpochInv'
  <2>1. CASE roQueueCount = 1
    <3>1. IsReading(epoch) /\ \A d \in Cores : ~ChangesEpoch(d)
      BY <2>1 DEF EpochInv, NoGrantInWritingEpoch, OneEpochChanger
    <3>2. \A d \in Cores \ {c} : ~ChangesEpoch(d)'
      BY <1>4, <1>a, <2>1, <3>1 DEF TakeLast, TakeGrant, GoTo, ChangesEpoch
    <3>3. SeenEpochsOK'
      BY <1>4, <1>a, <2>1 DEF TakeLast, TakeGrant, GoTo, EpochInv, SeenEpochsOK
    <3>4. epoch' = epoch /\ roQueueCount' = 0
      BY <1>4, <2>1 DEF TakeLast, TakeGrant
    <3>5. QED
      BY <3>1, <3>2, <3>3, <3>4 DEF EpochInv, NoGrantInWritingEpoch, OneEpochChanger
  <2>2. CASE roQueueCount # 1
    BY <1>0, <1>4, <2>2, EpochLocalStep DEF TakeLast, TakeGrant, RunnerLabels
  <2>3. QED
    BY <2>1, <2>2
<1>5. ASSUME NEW c \in Cores, DequeRO(c) PROVE EpochInv'
  <2>1. CASE UNCHANGED pc
    BY <1>5, <2>1, EpochIdleStep DEF DequeRO
  <2>2. CASE pc[c] = "deque" /\ GoTo(c, "begin")
    BY <1>0, <1>5, <2>2, EpochLocalStep DEF DequeRO, RunnerLabels
  <2>3. CASE pc[c] = "dequeLast" /\ GoTo(c, "bump")
    <3>1. \A d \in Cores : ChangesEpoch(d)' <=> ChangesEpoch(d)
      BY <1>5, <1>a, <2>3 DEF DequeRO, GoTo, ChangesEpoch
    <3>2. SeenEpochsOK'
      BY <1>5, <1>a, <2>3 DEF DequeRO, GoTo, EpochInv, SeenEpochsOK
    <3>3. QED
      BY <1>5, <3>1, <3>2 DEF DequeRO, EpochInv, NoGrantInWritingEpoch, OneEpochChanger
  <2>4. QED
    BY <1>5, <2>1, <2>2, <2>3 DEF DequeRO, At
<1>6. ASSUME NEW c \in Cores, EndReadingEpoch(c) PROVE EpochInv'
  <2>1. CASE epoch = seenEpoch[c]
    <3>1. ChangesEpoch(c)
      BY <1>6, <2>1 DEF EndReadingEpoch, At, ChangesEpoch
    <3>2. roQueueCount = 0 /\ \A d \in Cores : pc[d] # "grant"
      <4>1. roQueueCount = 0 /\ \A d \in Cores : ChangesEpoch(d) => d = c
        BY <3>1 DEF EpochInv, OneEpochChanger
      <4>2. QED
        BY <1>6, <4>1 DEF EndReadingEpoch, At, ChangesEpoch
    <3>3. epoch' = epoch + 1 /\ UNCHANGED <<roQueueCount, seenEpoch>> /\ GoTo(c, "begin")
      BY <1>6, <2>1 DEF EndReadingEpoch, CasEpoch
    <3>4. \A d \in Cores : ~ChangesEpoch(d)'
      BY <1>a, <3>2, <3>3 DEF GoTo, ChangesEpoch, EpochInv, SeenEpochsOK
    <3>5. SeenEpochsOK'
      BY <1>a, <3>3 DEF GoTo, EpochInv, SeenEpochsOK
    <3>6. QED
      BY <3>2, <3>3, <3>4, <3>5 DEF EpochInv, NoGrantInWritingEpoch, OneEpochChanger
  <2>2. CASE epoch # seenEpoch[c]
    BY <1>0, <1>6, <2>2, EpochLocalStep DEF EndReadingEpoch, CasEpoch, RunnerLabels
  <2>3. QED
    BY <2>1, <2>2
<1>7. ASSUME NEW c \in Cores, CheckROSize(c) PROVE EpochInv'
  <2>1. ~IsReading(seenEpoch[c])
    BY <1>7 DEF CheckROSize, At, EpochInv, SeenEpochsOK
  <2>2. QED
    BY <1>0, <1>7, <2>1, EpochLocalStep DEF CheckROSize, OnlyGoTo, sharedVars, RunnerLabels
<1>8. ASSUME NEW c \in Cores, ScanQueue(c) PROVE EpochInv'
  <2>1. ~IsReading(seenEpoch[c])
    BY <1>8 DEF ScanQueue, At, EpochInv, SeenEpochsOK
  <2>2. PICK label \in {"local", "roNonEmpty", "allEmpty"} : GoTo(c, label)
    BY <1>8 DEF ScanQueue
  <2>3. QED
    BY <1>0, <1>8, <2>1, <2>2, EpochLocalStep DEF ScanQueue, sharedVars, RunnerLabels
<1>9. ASSUME NEW c \in Cores, CheckRONonEmpty(c) PROVE EpochInv'
  <2>1. ~IsReading(seenEpoch[c])
    BY <1>9 DEF CheckRONonEmpty, At, EpochInv, SeenEpochsOK
  <2>2. QED
    BY <1>0, <1>9, <2>1, EpochLocalStep DEF CheckRONonEmpty, OnlyGoTo, sharedVars, RunnerLabels
<1>10. ASSUME NEW c \in Cores, StartReadingEpoch(c) PROVE EpochInv'
  <2>1. CASE epoch = seenEpoch[c]
    <3>1. ~IsReading(epoch)
      BY <1>10, <2>1 DEF StartReadingEpoch, At, EpochInv, SeenEpochsOK
    <3>2. roQueueCount = 0 /\ \A d \in Cores : ~ChangesEpoch(d)
      BY <3>1 DEF EpochInv, NoGrantInWritingEpoch, OneEpochChanger
    <3>3. epoch' = epoch + 1 /\ UNCHANGED <<roQueueCount, seenEpoch>> /\ GoTo(c, "grant")
      BY <1>10, <2>1 DEF StartReadingEpoch, CasEpoch
    <3>4. \A d \in Cores \ {c} : ~ChangesEpoch(d)'
      BY <1>a, <3>2, <3>3 DEF GoTo, ChangesEpoch, EpochInv, SeenEpochsOK
    <3>5. SeenEpochsOK'
      BY <1>a, <3>3 DEF GoTo, EpochInv, SeenEpochsOK
    <3>6. IsReading(epoch')
      BY <1>a, <3>1, <3>3, Parity
    <3>7. QED
      BY <3>2, <3>3, <3>4, <3>5, <3>6 DEF EpochInv, NoGrantInWritingEpoch, OneEpochChanger
  <2>2. CASE epoch # seenEpoch[c]
    BY <1>0, <1>10, <2>2, EpochLocalStep DEF StartReadingEpoch, CasEpoch, RunnerLabels
  <2>3. QED
    BY <2>1, <2>2
<1>11. ASSUME NEW c \in Cores, Grant(c) PROVE EpochInv'
  <2>1. ChangesEpoch(c)
    BY <1>11 DEF Grant, At, ChangesEpoch
  <2>2. IsReading(epoch) /\ \A d \in Cores : ChangesEpoch(d) => d = c
    BY <2>1 DEF EpochInv, OneEpochChanger
  <2>3. UNCHANGED <<epoch, seenEpoch>> /\ GoTo(c, "poll")
    BY <1>11 DEF Grant
  <2>4. \A d \in Cores : ~ChangesEpoch(d)'
    BY <1>a, <2>2, <2>3 DEF GoTo, ChangesEpoch
  <2>5. SeenEpochsOK'
    BY <1>a, <2>3 DEF GoTo, EpochInv, SeenEpochsOK
  <2>6. QED
    BY <2>2, <2>3, <2>4, <2>5 DEF EpochInv, NoGrantInWritingEpoch, OneEpochChanger
<1>12. ASSUME NEW c \in Cores, TakeLocal(c) PROVE EpochInv'
  BY <1>0, <1>12, EpochLocalStep DEF TakeLocal, RunnerLabels
<1>13. ASSUME NEW c \in Cores, Begin(c) PROVE EpochInv'
  BY <1>0, <1>13, EpochLocalStep DEF Begin, sharedVars, RunnerLabels
<1>14. ASSUME NEW c \in Cores, OpenWrite(c) PROVE EpochInv'
  BY <1>14, EpochIdleStep DEF OpenWrite, sharedVars, runnerVars
<1>15. ASSUME NEW c \in Cores, NEW d \in Cores, Conflict(c, d) PROVE EpochInv'
  <2>1. CASE UNCHANGED pc
    BY <1>15, <2>1, EpochIdleStep DEF Conflict, sharedVars
  <2>2. CASE GoTo(c, "mark")
    BY <1>0, <1>15, <2>2, EpochLocalStep DEF Conflict, sharedVars, RunnerLabels
  <2>3. QED
    BY <1>15, <2>1, <2>2 DEF Conflict
<1>16. ASSUME NEW c \in Cores, Reschedule(c) PROVE EpochInv'
  BY <1>0, <1>16, EpochLocalStep DEF Reschedule, RunnerLabels
<1>17. ASSUME NEW c \in Cores, Retry(c) PROVE EpochInv'
  BY <1>0, <1>17, EpochLocalStep DEF Retry, sharedVars, RunnerLabels
<1>18. ASSUME NEW c \in Cores, Commit(c) PROVE EpochInv'
  BY <1>0, <1>18, EpochLocalStep DEF Commit, sharedVars, RunnerLabels
<1>19. ASSUME NEW c \in Cores, ClearJob(c) PROVE EpochInv'
  BY <1>0, <1>19, EpochLocalStep DEF ClearJob, sharedVars, RunnerLabels
<1>20. ASSUME NEW j \in Jobs, StartSchedule(j) PROVE EpochInv'
  BY <1>20, EpochIdleStep DEF StartSchedule, sharedVars, runnerVars
<1>21. ASSUME NEW j \in Jobs, ScanCore(j) PROVE EpochInv'
  BY <1>21, EpochIdleStep DEF ScanCore, sharedVars, runnerVars
<1>22. ASSUME NEW j \in Jobs, AddJob(j) PROVE EpochInv'
  BY <1>22, EpochIdleStep DEF AddJob, sharedVars, runnerVars
<1>23. ASSUME NEW j \in Jobs, Return(j) PROVE EpochInv'
  BY <1>23, EpochIdleStep DEF Return, sharedVars, runnerVars
<1>24. ASSUME NEW c \in Cores, Mark(c) PROVE EpochInv'
  BY <1>0, <1>24, EpochLocalStep DEF Mark, sharedVars, RunnerLabels
<1>25. CASE UNCHANGED vars
  BY <1>25, EpochIdleStep DEF vars, sharedVars, runnerVars
<1>26. QED
  BY <1>1, <1>2, <1>3, <1>4, <1>5, <1>6, <1>7, <1>8, <1>9, <1>10, <1>11, <1>12,
     <1>13, <1>14, <1>15, <1>16, <1>17, <1>18, <1>19, <1>20, <1>21, <1>22, <1>23,
     <1>24, <1>25
     DEF Next, Runner, Client

\* The invariant on which the three theorems about epochs rest.
LEMMA EpochCorrect == Spec => [](TypeInv /\ EpochInv)
<1>1. Init => TypeInv /\ EpochInv
  BY TypeInit, EpochInit
<1>2. (TypeInv /\ EpochInv) /\ [Next]_vars => (TypeInv /\ EpochInv)'
  BY TypeStep, EpochStep
<1>3. QED
  BY <1>1, <1>2, PTL DEF Spec

\* However the runners' loads and CASes interleave, no grant survives into a
\* writing epoch (RunnerThread.cpp:103-115, 124-130).
THEOREM GrantsEndWithTheirEpoch == Spec => []NoGrantInWritingEpoch
<1>1. EpochInv => NoGrantInWritingEpoch
  BY DEF EpochInv
<1>2. QED
  BY <1>1, EpochCorrect, PTL

\* At any time at most one runner is to change the epoch or its number of
\* grants, and then there is no grant left to take (RunnerThread.cpp:97-133).
THEOREM EpochChangerIsUnique == Spec => []OneEpochChanger
<1>1. EpochInv => OneEpochChanger
  BY DEF EpochInv
<1>2. QED
  BY <1>1, EpochCorrect, PTL

\* Epochs advance one at a time, and a reading epoch ends only when every job
\* granted to it has been claimed (RunnerThread.cpp:111-115, 124).
THEOREM EpochOrder == Spec => EpochAdvancesInOrder
<1>1. TypeInv /\ EpochInv /\ [Next]_vars
        => [epoch' = epoch + 1 /\ (IsReading(epoch) => roQueueCount = 0)]_epoch
  <2> SUFFICES ASSUME TypeInv, EpochInv, [Next]_vars, epoch' # epoch
               PROVE  epoch' = epoch + 1 /\ (IsReading(epoch) => roQueueCount = 0)
    OBVIOUS
  <2>1. PICK c \in Cores : EndReadingEpoch(c) \/ StartReadingEpoch(c)
    BY DEF Next, Runner, Client, ReadEpoch, ReadCount, Take, TakeLast, TakeGrant,
           DequeRO, CheckROSize, OnlyGoTo, ScanQueue, CheckRONonEmpty, Grant,
           TakeLocal, Begin, OpenWrite, Conflict, Mark, Reschedule, Retry, Commit,
           ClearJob, StartSchedule, ScanCore, AddJob, Return, vars, sharedVars
  <2>2. epoch = seenEpoch[c] /\ epoch' = epoch + 1
    BY <2>1 DEF EndReadingEpoch, StartReadingEpoch, CasEpoch
  <2>3. CASE EndReadingEpoch(c)
    BY <2>2, <2>3 DEF EndReadingEpoch, At, EpochInv, OneEpochChanger, ChangesEpoch
  <2>4. CASE StartReadingEpoch(c)
    BY <2>2, <2>4 DEF StartReadingEpoch, At, EpochInv, SeenEpochsOK
  <2>5. QED
    BY <2>1, <2>2, <2>3, <2>4
<1>2. QED
  BY <1>1, EpochCorrect, PTL DEF Spec, EpochAdvancesInOrder

-------------------------------------------------------------------------------
(* A job whose client waits is in exactly one queue or with exactly one      *)
(* runner until it is finished.                                              *)

-------------------------------------------------------------------------------
(* What the queue operators do to the positions of the jobs.                 *)

\* The positions of a queue's jobs are the numbers up to its size.
LEMMA QueueItems ==
  ASSUME NEW q \in QueueType
  PROVE  Size(q) \in Nat /\ DOMAIN q.items = 1 .. Size(q)
  BY DEF QueueType, Size

\* pop takes the job in front and moves the others one position up
\* (Queue.cpp:83-102).
LEMMA PopItems ==
  ASSUME NEW q \in QueueType, ~IsEmpty(q)
  PROVE  /\ Size(q) > 0 /\ Front(q) = q.items[1]
         /\ DOMAIN Pop(q).items = 1 .. Size(q) - 1
         /\ \A i \in 1 .. Size(q) - 1 : Pop(q).items[i] = q.items[i + 1]
<1>1. q.items \in Seq(Jobs) /\ q.items # <<>>
  BY DEF QueueType, IsEmpty
<1>2. Len(q.items) \in Nat \ {0}
  BY <1>1
<1>3. Pop(q).items = Tail(q.items) /\ Front(q) = Head(q.items)
  BY DEF Pop, Front
<1>4. DOMAIN Tail(q.items) = 1 .. Len(q.items) - 1
  BY <1>1, <1>2
<1>5. \A i \in 1 .. Len(q.items) - 1 : Tail(q.items)[i] = q.items[i + 1]
  BY <1>1, <1>2
<1>6. Head(q.items) = q.items[1]
  BY <1>1
<1>7. QED
  BY <1>2, <1>3, <1>4, <1>5, <1>6 DEF Size

\* pushFront moves every job one position down (Queue.cpp:66-81).
LEMMA PushFrontItems ==
  ASSUME NEW q \in QueueType, NEW j \in Jobs
  PROVE  /\ DOMAIN PushFront(q, j).items = 1 .. Size(q) + 1
         /\ PushFront(q, j).items[1] = j
         /\ \A i \in 1 .. Size(q) : PushFront(q, j).items[i + 1] = q.items[i]
<1>1. q.items \in Seq(Jobs)
  BY DEF QueueType
<1>2. Len(q.items) \in Nat
  BY <1>1
<1>3. PushFront(q, j).items = <<j>> \o q.items
  BY DEF PushFront
<1>4. DOMAIN (<<j>> \o q.items) = 1 .. Len(q.items) + 1
  BY <1>1, <1>2
<1>5. /\ (<<j>> \o q.items)[1] = j
      /\ \A i \in 1 .. Len(q.items) : (<<j>> \o q.items)[i + 1] = q.items[i]
  BY <1>1, <1>2
<1>7. QED
  BY <1>2, <1>3, <1>4, <1>5 DEF Size

\* push leaves every job where it is (Queue.cpp:42-64).
LEMMA PushItems ==
  ASSUME NEW q \in QueueType, NEW j \in Jobs
  PROVE  /\ DOMAIN Push(q, j).items = 1 .. Size(q) + 1
         /\ Push(q, j).items[Size(q) + 1] = j
         /\ \A i \in 1 .. Size(q) : Push(q, j).items[i] = q.items[i]
<1>1. q.items \in Seq(Jobs)
  BY DEF QueueType
<1>2. Len(q.items) \in Nat
  BY <1>1
<1>3. Push(q, j).items = Append(q.items, j)
  BY DEF Push
<1>4. DOMAIN Append(q.items, j) = 1 .. Len(q.items) + 1
  BY <1>1, <1>2
<1>5. /\ Append(q.items, j)[Len(q.items) + 1] = j
      /\ \A i \in 1 .. Len(q.items) : Append(q.items, j)[i] = q.items[i]
  BY <1>1, <1>2
<1>7. QED
  BY <1>2, <1>3, <1>4, <1>5 DEF Size

-------------------------------------------------------------------------------
(* The places of a job, one kind at a time.                                  *)

\* Job j is at position i of the queue of core c.
InCore(j, c, i) == c \in Cores /\ i \in DOMAIN queue[c].items /\ queue[c].items[i] = j

\* Job j is at position i of the read-only queue.
InRO(j, i) == i \in DOMAIN roQueue.items /\ roQueue.items[i] = j

\* The runner of core c executes job j.
Runs(j, c) == c \in Cores /\ IsExecuting(c) /\ currJob[c] = j

\* A place of a job is one of the three kinds.
LEMMA PlaceIs ==
  ASSUME NEW j, NEW p
  PROVE  p \in Places(j) <=> \/ \E c, i : p = <<"core", c, i>> /\ InCore(j, c, i)
                             \/ \E i : p = <<"ro", 0, i>> /\ InRO(j, i)
                             \/ \E c : p = <<"runner", c, 0>> /\ Runs(j, c)
  BY DEF Places, InCore, InRO, Runs

\* The same in the next state.
LEMMA PlaceIsNext ==
  ASSUME NEW j, NEW p
  PROVE  p \in Places(j)' <=> \/ \E c, i : p = <<"core", c, i>> /\ InCore(j, c, i)'
                              \/ \E i : p = <<"ro", 0, i>> /\ InRO(j, i)'
                              \/ \E c : p = <<"runner", c, 0>> /\ Runs(j, c)'
  BY DEF Places, InCore, InRO, Runs

\* A place of a given kind is a place of the job when the job is there.
LEMMA InPlace ==
  ASSUME NEW j
  PROVE  /\ \A c, i : <<"core", c, i>> \in Places(j) <=> InCore(j, c, i)
         /\ \A i : <<"ro", 0, i>> \in Places(j) <=> InRO(j, i)
         /\ \A c : <<"runner", c, 0>> \in Places(j) <=> Runs(j, c)
  BY PlaceIs

\* Positions are integers.
LEMMA IndexType ==
  ASSUME TypeInv, NEW j
  PROVE  /\ \A c, i : InCore(j, c, i) => i \in Int
         /\ \A i : InRO(j, i) => i \in Int
<1>1. /\ roQueue \in QueueType /\ queue \in [Cores -> QueueType]
  BY DEF TypeInv, TypeOK, SharedTypeOK
<1>2. QED
  BY <1>1, QueueItems DEF InCore, InRO

-------------------------------------------------------------------------------
(* The inductive invariant. Cardinality is out of the way of the steps: the  *)
(* set of places has one element or none. A job that is finished has been    *)
(* waited for, so that a client cannot hand in a finished job.               *)

\* A runner still has to finish job j.
Due(j) == client[j] = "wait" /\ ~finished[j]

PlaceInv ==
  ~crashed => \A j \in Jobs :
    /\ finished[j] => client[j] \in {"wait", "done"}
    /\ Due(j) => \E p : Places(j) = {p}
    /\ ~Due(j) => Places(j) = {}

\* The invariant says of every job that it has as many places as it should.
LEMMA PlaceInvImplies == PlaceInv => JobInOnePlace
<1> SUFFICES ASSUME PlaceInv, ~crashed, NEW j \in Jobs
             PROVE  Cardinality(Places(j)) = IF Due(j) THEN 1 ELSE 0
  BY DEF JobInOnePlace, Due
<1>1. CASE Due(j)
  <2>1. PICK p : Places(j) = {p}
    BY <1>1 DEF PlaceInv
  <2>2. QED
    BY <1>1, <2>1, FS_Singleton
<1>2. CASE ~Due(j)
  <2>1. Places(j) = {}
    BY <1>2 DEF PlaceInv
  <2>2. QED
    BY <1>2, <2>1, FS_EmptySet
<1>3. QED
  BY <1>1, <1>2

\* No job is in a queue or with a runner before a client handed it in
\* (BiModalScheduler.cpp:18-26).
LEMMA PlaceInit == Init => PlaceInv
<1> SUFFICES ASSUME Init, NEW j \in Jobs
             PROVE  ~finished[j] /\ ~Due(j) /\ Places(j) = {}
  BY DEF PlaceInv
<1>1. ~finished[j] /\ ~Due(j)
  BY DEF Init, Due
<1>2. /\ \A c, i : ~InCore(j, c, i)
      /\ \A i : ~InRO(j, i)
      /\ \A c : ~Runs(j, c)
  BY DEF Init, InCore, InRO, Runs, EmptyQueue, IsExecuting
<1>3. QED
  BY <1>1, <1>2, PlaceIs

-------------------------------------------------------------------------------
(* Kinds of steps.                                                           *)

\* A step that moves no job, and after which the same runners execute the same
\* jobs, keeps the invariant.
LEMMA IdleStep ==
  ASSUME PlaceInv, ~crashed, UNCHANGED <<roQueue, queue, finished, client>>,
         \A d \in Cores : /\ IsExecuting(d)' <=> IsExecuting(d)
                          /\ IsExecuting(d) => currJob'[d] = currJob[d]
  PROVE  PlaceInv'
<1>1. ASSUME NEW j \in Jobs PROVE Places(j)' = Places(j)
  <2>1. /\ \A c, i : InCore(j, c, i)' <=> InCore(j, c, i)
        /\ \A i : InRO(j, i)' <=> InRO(j, i)
    BY DEF InCore, InRO
  <2>2. \A c : Runs(j, c)' <=> Runs(j, c)
    BY DEF Runs
  <2>3. \A p : p \in Places(j)' <=> p \in Places(j)
    BY <2>1, <2>2, PlaceIs, PlaceIsNext
  <2>4. QED
    BY <2>3, Zenon
<1>2. QED
  BY <1>1 DEF PlaceInv, Due

\* When the positions of a queue move by a constant, so do the places of a job
\* in them, and it keeps its number of places.
LEMMA Relabel ==
  ASSUME TypeInv, TypeInv', NEW j, NEW s \in [Cores -> Int], NEW r \in Int,
         \A c \in Cores, i \in Int : InCore(j, c, i)' <=> InCore(j, c, i - s[c]),
         \A i \in Int : InRO(j, i)' <=> InRO(j, i - r),
         \A c \in Cores : Runs(j, c)' <=> Runs(j, c)
  PROVE  /\ Places(j) = {} => Places(j)' = {}
         /\ \A p : Places(j) = {p} => \E q : Places(j)' = {q}
<1>0. /\ \A c, i : InCore(j, c, i)' => i \in Int
      /\ \A i : InRO(j, i)' => i \in Int
  <2>1. /\ roQueue' \in QueueType /\ queue' \in [Cores -> QueueType]
    BY DEF TypeInv, TypeOK, SharedTypeOK
  <2>2. QED
    BY <2>1, QueueItems DEF InCore, InRO
<1>1. ASSUME NEW q \in Places(j)'
      PROVE  \/ \E c \in Cores, i \in Int :
                  q = <<"core", c, i>> /\ <<"core", c, i - s[c]>> \in Places(j)
             \/ \E i \in Int : q = <<"ro", 0, i>> /\ <<"ro", 0, i - r>> \in Places(j)
             \/ \E c \in Cores : q = <<"runner", c, 0>> /\ q \in Places(j)
  <2>1. CASE \E c, i : q = <<"core", c, i>> /\ InCore(j, c, i)'
    <3>1. PICK c, i : q = <<"core", c, i>> /\ InCore(j, c, i)'
      BY <2>1
    <3>2. c \in Cores /\ i \in Int
      BY <3>1, <1>0 DEF InCore
    <3>3. InCore(j, c, i - s[c])
      BY <3>1, <3>2
    <3>4. QED
      BY <3>1, <3>2, <3>3, PlaceIs
  <2>2. CASE \E i : q = <<"ro", 0, i>> /\ InRO(j, i)'
    BY <2>2, <1>0, PlaceIs
  <2>3. CASE \E c : q = <<"runner", c, 0>> /\ Runs(j, c)'
    BY <2>3, PlaceIs DEF Runs
  <2>4. QED
    BY <2>1, <2>2, <2>3, PlaceIsNext
<1>2. Places(j) = {} => Places(j)' = {}
  BY <1>1
<1>3. ASSUME NEW p, Places(j) = {p} PROVE \E q : Places(j)' = {q}
  <2>1. CASE \E c, i : p = <<"core", c, i>> /\ InCore(j, c, i)
    <3>1. PICK c, i : p = <<"core", c, i>> /\ InCore(j, c, i)
      BY <2>1
    <3>a. c \in Cores /\ i \in Int
      BY <3>1, IndexType DEF InCore
    <3>2. c \in Cores /\ i \in Int /\ s[c] \in Int /\ (i + s[c]) - s[c] = i
      BY <3>a
    <3>3. InCore(j, c, i + s[c])'
      BY <3>1, <3>2
    <3>4. <<"core", c, i + s[c]>> \in Places(j)'
      BY <3>3, PlaceIsNext
    <3>5. ASSUME NEW q \in Places(j)' PROVE q = <<"core", c, i + s[c]>>
      <4>1. PICK d \in Cores, k \in Int : q = <<"core", d, k>> /\ <<"core", d, k - s[d]>> = p
        BY <1>1, <1>3, <3>1
      <4>2. d = c /\ k - s[c] = i
        BY <4>1, <3>1
      <4>3. QED
        BY <4>1, <4>2, <3>2
    <3>6. QED
      BY <3>4, <3>5
  <2>2. CASE \E i : p = <<"ro", 0, i>> /\ InRO(j, i)
    <3>1. PICK i : p = <<"ro", 0, i>> /\ InRO(j, i)
      BY <2>2
    <3>2. i \in Int /\ (i + r) - r = i
      BY <3>1, IndexType
    <3>4. <<"ro", 0, i + r>> \in Places(j)'
      BY <3>1, <3>2, PlaceIsNext
    <3>5. ASSUME NEW q \in Places(j)' PROVE q = <<"ro", 0, i + r>>
      <4>1. PICK k \in Int : q = <<"ro", 0, k>> /\ <<"ro", 0, k - r>> = p
        BY <1>1, <1>3, <3>1
      <4>3. QED
        BY <4>1, <3>1, <3>2
    <3>6. QED
      BY <3>4, <3>5
  <2>3. CASE \E c : p = <<"runner", c, 0>> /\ Runs(j, c)
    <3>1. PICK c : p = <<"runner", c, 0>> /\ Runs(j, c)
      BY <2>3
    <3>2. p \in Places(j)'
      BY <3>1, PlaceIsNext DEF Runs
    <3>3. \A q \in Places(j)' : q = p
      BY <1>1, <1>3, <3>1
    <3>4. QED
      BY <3>2, <3>3
  <2>4. QED
    BY <1>3, <2>1, <2>2, <2>3, PlaceIs
<1>4. QED
  BY <1>2, <1>3

\* A step of the client of job j that moves no job: on its way to hand it in,
\* or back from the wait for a finished one (BiModalScheduler.cpp:138-170).
LEMMA ClientStep ==
  ASSUME PlaceInv, ~crashed, UNCHANGED <<roQueue, queue, pc, currJob, finished>>,
         NEW j \in Jobs,
         \A k \in Jobs \ {j} : client'[k] = client[k],
         \/ client[j] # "wait" /\ ~finished[j] /\ client'[j] # "wait"
         \/ client[j] # "wait" /\ client'[j] \in {"add", "scan"} /\ client[j] # "done"
         \/ client[j] = "wait" /\ finished[j] /\ client'[j] = "done"
  PROVE  PlaceInv'
<1>1. \A k \in Jobs : Places(k)' = Places(k)
  BY DEF Places, IsExecuting
<1>2. QED
  BY <1>1 DEF PlaceInv, Due

\* A step that changes nothing a place depends on keeps the invariant.
LEMMA UnchangedPlaces ==
  PlaceInv /\ UNCHANGED <<roQueue, queue, pc, currJob, finished, client, crashed>> => PlaceInv'
<1> SUFFICES ASSUME PlaceInv, UNCHANGED <<roQueue, queue, pc, currJob, finished, client, crashed>>
             PROVE  PlaceInv'
  OBVIOUS
<1>1. \A k \in Jobs : Places(k)' = Places(k)
  BY DEF Places, IsExecuting
<1>2. QED
  BY <1>1 DEF PlaceInv, Due

\* A step that moves job f and by that shifts others in their queues, those of
\* core c by s[c] and those of the read-only queue by r, keeps the invariant if
\* it leaves f in as many places as it should.
LEMMA MoveStep ==
  ASSUME TypeInv, TypeInv', PlaceInv, ~crashed,
         NEW f \in Jobs, NEW s \in [Cores -> Int], NEW r \in Int,
         \A j \in Jobs \ {f} : finished'[j] = finished[j] /\ client'[j] = client[j],
         \A j \in Jobs \ {f} :
           /\ \A c \in Cores, i \in Int : InCore(j, c, i)' <=> InCore(j, c, i - s[c])
           /\ \A i \in Int : InRO(j, i)' <=> InRO(j, i - r)
           /\ \A c \in Cores : Runs(j, c)' <=> Runs(j, c),
         finished'[f] => client'[f] \in {"wait", "done"},
         IF Due(f)' THEN \E p : Places(f)' = {p} ELSE Places(f)' = {}
  PROVE  PlaceInv'
<1>1. ASSUME NEW j \in Jobs \ {f}
      PROVE  /\ Places(j) = {} => Places(j)' = {}
             /\ \A p : Places(j) = {p} => \E q : Places(j)' = {q}
  BY Relabel
<1>2. QED
  BY <1>1 DEF PlaceInv, Due

\* No job changes its position in a core's queue.
NoShift == [c \in Cores |-> 0]

\* The shifts that the steps use are integers.
LEMMA NoShiftType == NoShift \in [Cores -> Int] /\ 0 \in Int /\ -1 \in Int
  BY DEF NoShift

-------------------------------------------------------------------------------

\* Every step keeps the invariant: a dequeue moves a job from its queue to the
\* runner, a reschedule from the runner to a queue, a commit ends it, and
\* addJob gives it its first place (RunnerThread.cpp:93-189,
\* BiModalScheduler.cpp:138-170).
LEMMA PlaceStep == TypeInv /\ PlaceInv /\ [Next]_vars => PlaceInv'
<1> SUFFICES ASSUME TypeInv, PlaceInv, [Next]_vars PROVE PlaceInv'
  OBVIOUS
<1>a. /\ pc \in [Cores -> RunnerLabels] /\ currJob \in [Cores -> Jobs \cup {NoJob}]
      /\ roQueue \in QueueType /\ queue \in [Cores -> QueueType]
      /\ finished \in [Jobs -> BOOLEAN]
      /\ client \in [Jobs -> {"schedule", "scan", "add", "wait", "done"}]
  BY DEF TypeInv, TypeOK, SharedTypeOK, RunnerTypeOK, JobTypeOK, ClientTypeOK
<1>b. TypeInv'
  BY TypeStep
<1> USE <1>a DEF GoTo, At
<1>1. ASSUME NEW c \in Cores, ReadEpoch(c) PROVE PlaceInv'
  BY <1>1, IdleStep DEF ReadEpoch, IsExecuting, sharedVars, jobVars, clientVars
<1>2. ASSUME NEW c \in Cores, ReadCount(c) PROVE PlaceInv'
  BY <1>2, IdleStep DEF ReadCount, IsExecuting, sharedVars, jobVars, clientVars
<1>3. ASSUME NEW c \in Cores, Take(c) PROVE PlaceInv'
  BY <1>3, IdleStep DEF Take, TakeGrant, IsExecuting, jobVars, clientVars
<1>4. ASSUME NEW c \in Cores, TakeLast(c) PROVE PlaceInv'
  BY <1>4, IdleStep DEF TakeLast, TakeGrant, IsExecuting, jobVars, clientVars
<1>6. ASSUME NEW c \in Cores, EndReadingEpoch(c) PROVE PlaceInv'
  BY <1>6, IdleStep DEF EndReadingEpoch, CasEpoch, IsExecuting, jobVars, clientVars
<1>7. ASSUME NEW c \in Cores, CheckROSize(c) PROVE PlaceInv'
  BY <1>7, IdleStep DEF CheckROSize, OnlyGoTo, IsExecuting, sharedVars, jobVars, clientVars
<1>8. ASSUME NEW c \in Cores, ScanQueue(c) PROVE PlaceInv'
  BY <1>8, IdleStep DEF ScanQueue, IsExecuting, sharedVars, jobVars, clientVars
<1>9. ASSUME NEW c \in Cores, CheckRONonEmpty(c) PROVE PlaceInv'
  BY <1>9, IdleStep DEF CheckRONonEmpty, OnlyGoTo, IsExecuting, sharedVars, jobVars, clientVars
<1>10. ASSUME NEW c \in Cores, StartReadingEpoch(c) PROVE PlaceInv'
  BY <1>10, IdleStep DEF StartReadingEpoch, CasEpoch, IsExecuting, jobVars, clientVars
<1>11. ASSUME NEW c \in Cores, Grant(c) PROVE PlaceInv'
  BY <1>11, IdleStep DEF Grant, IsExecuting, jobVars, clientVars
<1>13. ASSUME NEW c \in Cores, Begin(c) PROVE PlaceInv'
  BY <1>13, IdleStep DEF Begin, IsExecuting, sharedVars, clientVars
<1>14. ASSUME NEW c \in Cores, OpenWrite(c) PROVE PlaceInv'
  BY <1>14, IdleStep DEF OpenWrite, IsExecuting, sharedVars, runnerVars, clientVars
<1>15. ASSUME NEW c \in Cores, NEW d \in Cores, Conflict(c, d) PROVE PlaceInv'
  BY <1>15, IdleStep DEF Conflict, IsExecuting, sharedVars, jobVars, clientVars
<1>17. ASSUME NEW c \in Cores, Retry(c) PROVE PlaceInv'
  BY <1>17, IdleStep DEF Retry, IsExecuting, sharedVars, jobVars, clientVars
<1>19. ASSUME NEW c \in Cores, ClearJob(c) PROVE PlaceInv'
  BY <1>19, IdleStep DEF ClearJob, IsExecuting, sharedVars, jobVars, clientVars
<1>24. ASSUME NEW c \in Cores, Mark(c) PROVE PlaceInv'
  BY <1>24, IdleStep DEF Mark, IsExecuting, sharedVars, jobVars, clientVars
<1>20. ASSUME NEW j \in Jobs, StartSchedule(j) PROVE PlaceInv'
  BY <1>20, ClientStep DEF StartSchedule, sharedVars, runnerVars, jobVars
<1>21. ASSUME NEW j \in Jobs, ScanCore(j) PROVE PlaceInv'
  BY <1>21, ClientStep DEF ScanCore, sharedVars, runnerVars, jobVars
<1>23. ASSUME NEW j \in Jobs, Return(j) PROVE PlaceInv'
  BY <1>23, ClientStep DEF Return, sharedVars, runnerVars, jobVars
<1>26. CASE UNCHANGED vars
  BY <1>26, UnchangedPlaces DEF vars, sharedVars, runnerVars, jobVars, clientVars
<1>5. ASSUME NEW c \in Cores, DequeRO(c) PROVE PlaceInv'
  <2> SUFFICES ASSUME ~crashed' PROVE PlaceInv'
    BY DEF PlaceInv
  <2>0. ~IsEmpty(roQueue) /\ ~crashed
    BY <1>5 DEF DequeRO
  <2>a. PICK f \in Jobs : f = Front(roQueue)
    BY <2>0, PopType
  <2>1. /\ f = roQueue.items[1] /\ Size(roQueue) \in Nat /\ Size(roQueue) > 0
        /\ DOMAIN roQueue.items = 1 .. Size(roQueue)
        /\ DOMAIN roQueue'.items = 1 .. Size(roQueue) - 1
        /\ \A i \in 1 .. Size(roQueue) - 1 : roQueue'.items[i] = roQueue.items[i + 1]
    BY <1>5, <2>0, <2>a, PopItems, QueueItems DEF DequeRO
  <2>2. /\ currJob' = [currJob EXCEPT ![c] = f] /\ ~IsExecuting(c) /\ IsExecuting(c)'
        /\ \A d \in Cores \ {c} : IsExecuting(d)' <=> IsExecuting(d)
    BY <1>5, <2>0, <2>a DEF DequeRO, IsExecuting
  <2>3. UNCHANGED <<queue, finished, client>>
    BY <1>5 DEF DequeRO, clientVars
  <2>4. InRO(f, 1)
    BY <2>1 DEF InRO
  <2>5. Due(f) /\ \A p \in Places(f) : p = <<"ro", 0, 1>>
    <3>1. <<"ro", 0, 1>> \in Places(f)
      BY <2>4, InPlace
    <3>2. QED
      BY <2>0, <3>1 DEF PlaceInv
  <2>6. Due(f)' /\ \E p : Places(f)' = {p}
    <3>1. /\ \A d, i : ~InCore(f, d, i)'
          /\ \A i : ~InRO(f, i)'
          /\ \A d : Runs(f, d)' <=> d = c
      <4>1. \A d, i : ~InCore(f, d, i)'
        BY <2>3, <2>5, InPlace DEF InCore
      <4>2. \A i : ~InRO(f, i)'
        <5>1. ASSUME NEW i \in 1 .. Size(roQueue) - 1, InRO(f, i + 1) PROVE FALSE
          <6>1. <<"ro", 0, i + 1>> \in Places(f)
            BY <5>1, InPlace
          <6>2. <<"ro", 0, i + 1>> = <<"ro", 0, 1>>
            BY <6>1, <2>5
          <6>3. i + 1 = 1
            BY <6>2
          <6>4. QED
            BY <6>3, <2>1
        <5>2. QED
          BY <2>1, <5>1 DEF InRO
      <4>3. \A d : ~Runs(f, d)
        BY <2>5, InPlace
      <4>4. QED
        BY <4>1, <4>2, <4>3, <2>2 DEF Runs
    <3>2. Places(f)' = {<<"runner", c, 0>>}
      BY <3>1, PlaceIsNext
    <3>3. QED
      BY <3>2, <2>3, <2>5 DEF Due
  <2>7. \A j \in Jobs \ {f} :
          /\ \A d \in Cores, i \in Int : InCore(j, d, i)' <=> InCore(j, d, i - NoShift[d])
          /\ \A i \in Int : InRO(j, i)' <=> InRO(j, i - (-1))
          /\ \A d \in Cores : Runs(j, d)' <=> Runs(j, d)
    <3>1. \A j \in Jobs, d \in Cores, i \in Int : InCore(j, d, i)' <=> InCore(j, d, i - NoShift[d])
      BY <2>3 DEF InCore, NoShift
    <3>2. ASSUME NEW j \in Jobs \ {f}, NEW i \in Int PROVE InRO(j, i)' <=> InRO(j, i - (-1))
      <4>1. i - (-1) = i + 1
        OBVIOUS
      <4>2. QED
        BY <4>1, <2>1 DEF InRO
    <3>3. \A j \in Jobs \ {f}, d \in Cores : Runs(j, d)' <=> Runs(j, d)
      BY <2>2 DEF Runs
    <3>4. QED
      BY <3>1, <3>2, <3>3
  <2>8. finished'[f] => client'[f] \in {"wait", "done"}
    BY <2>0, <2>3 DEF PlaceInv
  <2>9. QED
    BY <2>0, <2>3, <2>6, <2>7, <2>8, <1>b, NoShiftType, MoveStep
<1>12. ASSUME NEW c \in Cores, TakeLocal(c) PROVE PlaceInv'
  <2>0. CASE IsEmpty(queue[c])
    BY <1>12, <2>0, IdleStep DEF TakeLocal, IsExecuting, jobVars, clientVars
  <2>a. CASE ~IsEmpty(queue[c])
    <3>0. PICK f \in Jobs : f = Front(queue[c])
      BY <2>a, PopType
    <3>1. ~crashed /\ UNCHANGED <<roQueue, finished, client>>
      BY <1>12 DEF TakeLocal, clientVars
    <3>2. /\ f = queue[c].items[1] /\ Size(queue[c]) \in Nat /\ Size(queue[c]) > 0
          /\ DOMAIN queue[c].items = 1 .. Size(queue[c])
          /\ DOMAIN queue'[c].items = 1 .. Size(queue[c]) - 1
          /\ \A i \in 1 .. Size(queue[c]) - 1 : queue'[c].items[i] = queue[c].items[i + 1]
          /\ \A d \in Cores \ {c} : queue'[d] = queue[d]
      BY <1>12, <2>a, <3>0, PopItems, QueueItems DEF TakeLocal
    <3>3. /\ currJob' = [currJob EXCEPT ![c] = f] /\ ~IsExecuting(c) /\ IsExecuting(c)'
          /\ \A d \in Cores \ {c} : IsExecuting(d)' <=> IsExecuting(d)
      BY <1>12, <2>a, <3>0 DEF TakeLocal, IsExecuting
    <3>4. <<"core", c, 1>> \in Places(f)
      BY <3>2, InPlace DEF InCore
    <3>5. Due(f) /\ \A p \in Places(f) : p = <<"core", c, 1>>
      BY <3>1, <3>4 DEF PlaceInv
    <3>6. \A d, i : ~InCore(f, d, i)'
      <4>1. ASSUME NEW i \in 1 .. Size(queue[c]) - 1, InCore(f, c, i + 1) PROVE FALSE
        <5>1. <<"core", c, i + 1>> \in Places(f)
          BY <4>1, InPlace
        <5>2. <<"core", c, i + 1>> = <<"core", c, 1>>
          BY <5>1, <3>5
        <5>3. i + 1 = 1
          BY <5>2
        <5>4. QED
          BY <5>3, <3>2
      <4>2. \A d \in Cores \ {c} : \A i : ~InCore(f, d, i)
        BY <3>5, InPlace
      <4>3. \A i : ~InCore(f, c, i)'
        BY <4>1, <3>2 DEF InCore
      <4>4. \A d \in Cores \ {c} : \A i : ~InCore(f, d, i)'
        BY <4>2, <3>2 DEF InCore
      <4>5. QED
        BY <4>3, <4>4 DEF InCore
    <3>7. \A i : ~InRO(f, i)'
      BY <3>1, <3>5, InPlace DEF InRO
    <3>8. \A d : Runs(f, d)' <=> d = c
      <4>1. \A d : ~Runs(f, d)
        BY <3>5, InPlace
      <4>2. QED
        BY <4>1, <3>3 DEF Runs
    <3>9. Places(f)' = {<<"runner", c, 0>>}
      BY <3>6, <3>7, <3>8, PlaceIsNext
    <3> DEFINE s == [d \in Cores |-> IF d = c THEN -1 ELSE 0]
    <3> DEFINE r == 0
    <3>10. \A j \in Jobs \ {f} :
             /\ \A d \in Cores, i \in Int : InCore(j, d, i)' <=> InCore(j, d, i - s[d])
             /\ \A i \in Int : InRO(j, i)' <=> InRO(j, i - r)
             /\ \A d \in Cores : Runs(j, d)' <=> Runs(j, d)
      BY <3>1, <3>2, <3>3 DEF InCore, InRO, Runs
    <3>11. s \in [Cores -> Int] /\ r \in Int
      OBVIOUS
    <3>12. Due(f)' /\ (finished'[f] => client'[f] \in {"wait", "done"})
      BY <3>1, <3>5 DEF Due
    <3> HIDE DEF s, r
    <3>13. QED
      BY <3>1, <3>9, <3>10, <3>11, <3>12, <1>b, MoveStep
  <2>1. QED
    BY <2>0, <2>a
<1>16. ASSUME NEW c \in Cores, Reschedule(c) PROVE PlaceInv'
  <2>0. PICK f \in Jobs : f = currJob[c]
    BY <1>16 DEF Reschedule, TypeInv, LocalsOK
  <2>1. ~crashed /\ UNCHANGED <<finished, client, currJob>> /\ IsExecuting(c)
    BY <1>16 DEF Reschedule, jobVars, clientVars, IsExecuting
  <2>2. ~IsExecuting(c)' /\ \A d \in Cores \ {c} : IsExecuting(d)' <=> IsExecuting(d)
    BY <1>16 DEF Reschedule, IsExecuting
  <2>3. <<"runner", c, 0>> \in Places(f)
    BY <2>0, <2>1, InPlace DEF Runs
  <2>4. Due(f) /\ \A p \in Places(f) : p = <<"runner", c, 0>>
    BY <2>1, <2>3 DEF PlaceInv
  <2>5. /\ \A d, i : ~InCore(f, d, i)
        /\ \A i : ~InRO(f, i)
        /\ \A d : Runs(f, d) => d = c
    <3>1. \A d, i : ~InCore(f, d, i)
      BY <2>4, InPlace
    <3>2. \A i : ~InRO(f, i)
      BY <2>4, InPlace
    <3>3. ASSUME NEW d, Runs(f, d) PROVE d = c
      <4>1. <<"runner", d, 0>> = <<"runner", c, 0>>
        BY <2>4, <3>3, InPlace
      <4>2. QED
        BY <4>1
    <3>4. QED
      BY <3>1, <3>2, <3>3
  <2>6. \A d : ~Runs(f, d)'
    BY <2>1, <2>2, <2>5 DEF Runs
  <2>7. \A j \in Jobs \ {f} : \A d \in Cores : Runs(j, d)' <=> Runs(j, d)
    BY <2>0, <2>1, <2>2 DEF Runs
  <2>8. Due(f)' /\ (finished'[f] => client'[f] \in {"wait", "done"})
    BY <2>1, <2>4 DEF Due
  <2>9. CASE isRO[f]
    <3>1. roQueue' = Push(roQueue, f) /\ UNCHANGED queue
      BY <1>16, <2>0, <2>9 DEF Reschedule
    <3>2. /\ Size(roQueue) \in Nat /\ DOMAIN roQueue.items = 1 .. Size(roQueue)
          /\ DOMAIN roQueue'.items = 1 .. Size(roQueue) + 1
          /\ roQueue'.items[Size(roQueue) + 1] = f
          /\ \A i \in 1 .. Size(roQueue) : roQueue'.items[i] = roQueue.items[i]
      BY <3>1, PushItems, QueueItems
    <3>3. \A d, i : ~InCore(f, d, i)'
      BY <3>1, <2>5 DEF InCore
    <3>4. \A i : InRO(f, i)' <=> i = Size(roQueue) + 1
      <4>1. ASSUME NEW i, i = Size(roQueue) + 1 PROVE InRO(f, i)'
        BY <4>1, <3>2 DEF InRO
      <4>2. ASSUME NEW i, InRO(f, i)' PROVE i = Size(roQueue) + 1
        <5>1. i \in 1 .. Size(roQueue) + 1 /\ ~InRO(f, i)
          BY <4>2, <3>2, <2>5 DEF InRO
        <5>2. i \notin 1 .. Size(roQueue)
          BY <4>2, <5>1, <3>2 DEF InRO
        <5>3. QED
          BY <5>1, <5>2, <3>2
      <4>3. QED
        BY <4>1, <4>2
    <3>5. Places(f)' = {<<"ro", 0, Size(roQueue) + 1>>}
      BY <3>3, <3>4, <2>6, PlaceIsNext
    <3> DEFINE r == 0
    <3>6. \A j \in Jobs \ {f} :
            /\ \A d \in Cores, i \in Int : InCore(j, d, i)' <=> InCore(j, d, i - NoShift[d])
            /\ \A i \in Int : InRO(j, i)' <=> InRO(j, i - r)
      BY <3>1, <3>2 DEF InCore, InRO, NoShift
    <3>7. r \in Int
      OBVIOUS
    <3> HIDE DEF r
    <3>8. QED
      BY <2>1, <2>7, <2>8, <3>5, <3>6, <3>7, NoShiftType, <1>b, MoveStep
  <2>10. CASE ~isRO[f]
    <3>0. PICK to \in Cores : to = resched[c]
      BY <1>16 DEF Reschedule, TypeInv, TypeOK, TxTypeOK
    <3>1. queue' = [queue EXCEPT ![to] = PushFront(@, f)] /\ UNCHANGED roQueue
      BY <1>16, <2>0, <2>10, <3>0 DEF Reschedule
    <3>2. /\ Size(queue[to]) \in Nat /\ DOMAIN queue[to].items = 1 .. Size(queue[to])
          /\ DOMAIN queue'[to].items = 1 .. Size(queue[to]) + 1
          /\ queue'[to].items[1] = f
          /\ \A i \in 1 .. Size(queue[to]) : queue'[to].items[i + 1] = queue[to].items[i]
          /\ \A d \in Cores \ {to} : queue'[d] = queue[d]
      BY <3>1, PushFrontItems, QueueItems
    <3>a. \A i \in 2 .. Size(queue[to]) + 1 :
            i - 1 \in 1 .. Size(queue[to]) /\ queue'[to].items[i] = queue[to].items[i - 1]
      <4>1. ASSUME NEW i \in 2 .. Size(queue[to]) + 1
            PROVE  i - 1 \in 1 .. Size(queue[to]) /\ (i - 1) + 1 = i
        BY <3>2
      <4>2. QED
        BY <4>1, <3>2
    <3>3. \A d, i : InCore(f, d, i)' <=> d = to /\ i = 1
      <4>1. \A i : InCore(f, to, i)' <=> i = 1
        <5>1. InCore(f, to, 1)'
          BY <3>2 DEF InCore
        <5>2. ASSUME NEW i, InCore(f, to, i)' PROVE i = 1
          <6>1. i \in 1 .. Size(queue[to]) + 1 /\ queue'[to].items[i] = f
            BY <5>2, <3>2 DEF InCore
          <6>2. ASSUME i \in 2 .. Size(queue[to]) + 1 PROVE FALSE
            <7>1. InCore(f, to, i - 1)
              BY <6>1, <6>2, <3>2, <3>a DEF InCore
            <7>2. QED
              BY <7>1, <2>5
          <6>3. QED
            BY <6>1, <6>2, <3>2
        <5>3. QED
          BY <5>1, <5>2
      <4>2. \A d \in Cores \ {to} : \A i : ~InCore(f, d, i)'
        BY <3>2, <2>5 DEF InCore
      <4>3. QED
        BY <4>1, <4>2 DEF InCore
    <3>4. \A i : ~InRO(f, i)'
      BY <3>1, <2>5 DEF InRO
    <3>5. Places(f)' = {<<"core", to, 1>>}
      BY <3>3, <3>4, <2>6, PlaceIsNext
    <3> DEFINE s == [d \in Cores |-> IF d = to THEN 1 ELSE 0]
    <3> DEFINE r == 0
    <3>6. ASSUME NEW j \in Jobs \ {f}
          PROVE  /\ \A d \in Cores, i \in Int : InCore(j, d, i)' <=> InCore(j, d, i - s[d])
                 /\ \A i \in Int : InRO(j, i)' <=> InRO(j, i - r)
      <4>1. \A i \in Int : InCore(j, to, i)' <=> InCore(j, to, i - 1)
        BY <3>2, <3>a DEF InCore
      <4>2. \A d \in Cores \ {to}, i \in Int : InCore(j, d, i)' <=> InCore(j, d, i - 0)
        BY <3>2 DEF InCore
      <4>3. \A i \in Int : InRO(j, i)' <=> InRO(j, i - r)
        BY <3>1 DEF InRO
      <4>4. QED
        BY <4>1, <4>2, <4>3
    <3>7. r \in Int /\ s \in [Cores -> Int]
      OBVIOUS
    <3> HIDE DEF r, s
    <3>8. QED
      BY <2>1, <2>7, <2>8, <3>5, <3>6, <3>7, <1>b, MoveStep
  <2>11. QED
    BY <2>9, <2>10
<1>18. ASSUME NEW c \in Cores, Commit(c) PROVE PlaceInv'
  <2>0. PICK f \in Jobs : f = currJob[c]
    BY <1>18 DEF Commit, TypeInv, LocalsOK
  <2>1. /\ ~crashed /\ UNCHANGED <<client, currJob, queue, roQueue>> /\ IsExecuting(c)
        /\ finished' = [finished EXCEPT ![f] = TRUE]
    BY <1>18, <2>0 DEF Commit, sharedVars, clientVars, IsExecuting
  <2>2. ~IsExecuting(c)' /\ \A d \in Cores \ {c} : IsExecuting(d)' <=> IsExecuting(d)
    BY <1>18 DEF Commit, IsExecuting
  <2>3. <<"runner", c, 0>> \in Places(f)
    BY <2>0, <2>1, InPlace DEF Runs
  <2>4. Due(f) /\ \A p \in Places(f) : p = <<"runner", c, 0>>
    BY <2>1, <2>3 DEF PlaceInv
  <2>5. \A d, i : ~InCore(f, d, i)'
    BY <2>1, <2>4, InPlace DEF InCore
  <2>6. \A i : ~InRO(f, i)'
    BY <2>1, <2>4, InPlace DEF InRO
  <2>7. \A d : ~Runs(f, d)'
    <3>1. ASSUME NEW d, Runs(f, d) PROVE d = c
      <4>1. <<"runner", d, 0>> = <<"runner", c, 0>>
        BY <2>4, <3>1, InPlace
      <4>2. QED
        BY <4>1
    <3>2. QED
      BY <2>1, <2>2, <3>1 DEF Runs
  <2>8. Places(f)' = {}
    BY <2>5, <2>6, <2>7, PlaceIsNext
  <2>9. ~Due(f)' /\ client'[f] \in {"wait", "done"}
    BY <2>1, <2>4 DEF Due
  <2> DEFINE r == 0
  <2>10. \A j \in Jobs \ {f} :
           /\ \A d \in Cores, i \in Int : InCore(j, d, i)' <=> InCore(j, d, i - NoShift[d])
           /\ \A i \in Int : InRO(j, i)' <=> InRO(j, i - r)
           /\ \A d \in Cores : Runs(j, d)' <=> Runs(j, d)
    BY <2>0, <2>1, <2>2 DEF InCore, InRO, Runs, NoShift
  <2>11. r \in Int
    OBVIOUS
  <2> HIDE DEF r
  <2>12. \A j \in Jobs \ {f} : finished'[j] = finished[j] /\ client'[j] = client[j]
    BY <2>1
  <2>13. QED
    BY <2>1, <2>8, <2>9, <2>10, <2>11, <2>12, NoShiftType, <1>b, MoveStep
<1>22. ASSUME NEW f \in Jobs, AddJob(f) PROVE PlaceInv'
  <2> SUFFICES ASSUME ~crashed' PROVE PlaceInv'
    BY DEF PlaceInv
  <2>0. PICK to \in Cores : to = choice[f].core
    BY DEF TypeInv, TypeOK, ClientTypeOK
  <2>1. /\ ~crashed /\ client[f] = "add" /\ client' = [client EXCEPT ![f] = "wait"]
        /\ queue' = [queue EXCEPT ![to] = Push(@, f)]
        /\ UNCHANGED <<roQueue, pc, currJob, finished>>
    BY <1>22, <2>0 DEF AddJob, runnerVars, jobVars
  <2>2. ~finished[f] /\ Places(f) = {}
    BY <2>1 DEF PlaceInv, Due
  <2>3. /\ \A d, i : ~InCore(f, d, i)
        /\ \A i : ~InRO(f, i)
        /\ \A d : ~Runs(f, d)
    <3>1. \A d, i : ~InCore(f, d, i)
      BY <2>2, InPlace
    <3>2. \A i : ~InRO(f, i)
      BY <2>2, InPlace
    <3>3. \A d : ~Runs(f, d)
      BY <2>2, InPlace
    <3>4. QED
      BY <3>1, <3>2, <3>3
  <2>4. /\ Size(queue[to]) \in Nat /\ DOMAIN queue[to].items = 1 .. Size(queue[to])
        /\ DOMAIN queue'[to].items = 1 .. Size(queue[to]) + 1
        /\ queue'[to].items[Size(queue[to]) + 1] = f
        /\ \A i \in 1 .. Size(queue[to]) : queue'[to].items[i] = queue[to].items[i]
        /\ \A d \in Cores \ {to} : queue'[d] = queue[d]
    BY <2>1, PushItems, QueueItems
  <2>5. \A d, i : InCore(f, d, i)' <=> d = to /\ i = Size(queue[to]) + 1
    <3>1. \A i : InCore(f, to, i)' <=> i = Size(queue[to]) + 1
      BY <2>4, <2>3 DEF InCore
    <3>2. \A d \in Cores \ {to} : \A i : ~InCore(f, d, i)'
      BY <2>4, <2>3 DEF InCore
    <3>3. QED
      BY <3>1, <3>2 DEF InCore
  <2>6. (\A i : ~InRO(f, i)') /\ (\A d : ~Runs(f, d)')
    BY <2>1, <2>3 DEF InRO, Runs, IsExecuting
  <2>7. Places(f)' = {<<"core", to, Size(queue[to]) + 1>>}
    BY <2>5, <2>6, PlaceIsNext
  <2>8. Due(f)' /\ client'[f] \in {"wait", "done"}
    BY <2>1, <2>2 DEF Due
  <2> DEFINE r == 0
  <2>9. ASSUME NEW j \in Jobs \ {f}
        PROVE  /\ \A d \in Cores, i \in Int : InCore(j, d, i)' <=> InCore(j, d, i - NoShift[d])
               /\ \A i \in Int : InRO(j, i)' <=> InRO(j, i - r)
               /\ \A d \in Cores : Runs(j, d)' <=> Runs(j, d)
    <3>1. \A i \in Int : InCore(j, to, i)' <=> InCore(j, to, i)
      BY <2>4 DEF InCore
    <3>2. \A d \in Cores \ {to}, i \in Int : InCore(j, d, i)' <=> InCore(j, d, i)
      BY <2>4 DEF InCore
    <3>3. \A d \in Cores, i \in Int : NoShift[d] = 0 /\ i - 0 = i
      BY DEF NoShift
    <3>4. \A i \in Int : InRO(j, i)' <=> InRO(j, i - r)
      BY <2>1 DEF InRO
    <3>5. \A d \in Cores : Runs(j, d)' <=> Runs(j, d)
      BY <2>1 DEF Runs, IsExecuting
    <3>6. QED
      BY <3>1, <3>2, <3>3, <3>4, <3>5
  <2>10. r \in Int /\ \A j \in Jobs \ {f} : finished'[j] = finished[j] /\ client'[j] = client[j]
    BY <2>1
  <2> HIDE DEF r
  <2>11. QED
    BY <2>1, <2>7, <2>8, <2>9, <2>10, NoShiftType, <1>b, MoveStep
<1>25. QED
  BY <1>1, <1>2, <1>3, <1>4, <1>5, <1>6, <1>7, <1>8, <1>9, <1>10, <1>11, <1>12, <1>13,
     <1>14, <1>15, <1>16, <1>17, <1>18, <1>19, <1>20, <1>21, <1>22, <1>23, <1>24, <1>26
     DEF Next, Runner, Client

\* A job is neither lost nor executed twice, wherever it is moved
\* (Queue.cpp:42-102, RunnerThread.cpp:93-189, BiModalScheduler.cpp:138-170).
THEOREM JobIsInOnePlace == Spec => []JobInOnePlace
<1>1. Init => TypeInv /\ PlaceInv
  BY TypeInit, PlaceInit
<1>2. (TypeInv /\ PlaceInv) /\ [Next]_vars => (TypeInv /\ PlaceInv)'
  BY TypeStep, PlaceStep
<1>3. TypeInv /\ PlaceInv => JobInOnePlace
  BY PlaceInvImplies
<1>4. QED
  BY <1>1, <1>2, <1>3, PTL DEF Spec
===============================================================================
