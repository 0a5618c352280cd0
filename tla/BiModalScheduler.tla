--------------------------- MODULE BiModalScheduler ---------------------------
(*****************************************************************************)
(* The BiModal scheduler: client threads hand jobs to schedule() and wait,   *)
(* one runner thread per core takes jobs from the queue of its core or from  *)
(* the read-only queue, and jobs that lose a conflict move between queues.   *)
(*                                                                           *)
(* A step is one access to memory that threads share: a load, a CAS or a     *)
(* critical section of a queue's lock. The transactional memory is the       *)
(* environment: Conflict and Mark say what an access to an object may do to  *)
(* the transactions of two cores, and a doomed one aborts. BiModalCM's       *)
(* hooks (OnBeginTransaction, OnOpenWrite, onConflictWith) are part of the   *)
(* steps that call them. Statistics are left out.                            *)
(*****************************************************************************)
EXTENDS JobDeque, Integers, FiniteSets

CONSTANTS
  NumCores,            \* m_lngCoresNum
  NoJob,               \* m_currJob = NULL
  MaxConflicts         \* bound on the conflicts between transactions

ASSUME NumCoresAssumption == NumCores \in Nat \ {0}
ASSUME NoJobAssumption == NoJob \notin Jobs
ASSUME MaxConflictsAssumption == MaxConflicts \in Nat

Cores == 0 .. NumCores - 1
NoCore == -1

IsReading(e) == e % 2 = 1

VARIABLES
  epoch,               \* *m_epoch
  roQueueCount,        \* *m_roQueueCount: jobs still to be taken in this reading epoch
  roQueue,             \* m_roQueue
  queue,               \* m_queue of every core
  \* The runner of every core.
  pc,                  \* the next statement of doJobs
  seenEpoch,           \* the local variable epoch
  seenCount,           \* the local variable count
  scanned,             \* queues found empty so far by allQueuesEmpty
  currJob,             \* m_currJob
  \* The transaction of every core.
  newTx,               \* m_newTx of its BiModalCM
  resched,             \* reschedule_core_num of its descriptor
  enemy,               \* the core whose descriptor it is going to mark
  doomed,              \* an enemy has set its tx_state to ABORTED
  \* Every job.
  jobEpoch,            \* m_epoch
  stamped,             \* m_timestamp has been set
  isRO,                \* m_isRO
  finished,            \* m_blnFinished
  \* The client thread that schedules the job.
  client,              \* where it is
  choice,              \* iCore, iMinJobs and iQueue of schedule
  \* The process.
  crashed,             \* a NULL pointer was dereferenced
  conflicts            \* conflicts so far

runnerVars == <<pc, seenEpoch, seenCount, scanned, currJob>>
txVars == <<newTx, resched, enemy, doomed, conflicts>>
jobVars == <<jobEpoch, stamped, isRO, finished>>
clientVars == <<client, choice>>
sharedVars == <<epoch, roQueueCount, roQueue, queue>>
vars == <<sharedVars, runnerVars, txVars, jobVars, clientVars, crashed>>

RunnerLabels ==
  {"poll", "count", "take", "takeLast", "deque", "dequeLast", "bump",
   "roSize", "allEmpty", "roNonEmpty", "switch", "grant", "local",
   "begin", "run", "mark", "clear"}

NoChoice == [core |-> 0, min |-> 0, next |-> 0]

Init ==
  /\ epoch = 0 /\ roQueueCount = 0
  /\ roQueue = EmptyQueue
  /\ queue = [c \in Cores |-> EmptyQueue]
  /\ pc = [c \in Cores |-> "poll"]
  /\ seenEpoch = [c \in Cores |-> 0]
  /\ seenCount = [c \in Cores |-> 0]
  /\ scanned = [c \in Cores |-> 0]
  /\ currJob = [c \in Cores |-> NoJob]
  /\ newTx = [c \in Cores |-> TRUE]
  /\ resched = [c \in Cores |-> NoCore]
  /\ enemy = [c \in Cores |-> NoCore]
  /\ doomed = [c \in Cores |-> FALSE]
  /\ jobEpoch = [j \in Jobs |-> -1]
  /\ stamped = [j \in Jobs |-> FALSE]
  /\ isRO \in [Jobs -> BOOLEAN]         \* InnerJob() leaves m_isRO unset
  /\ finished = [j \in Jobs |-> FALSE]
  /\ client = [j \in Jobs |-> "schedule"]
  /\ choice = [j \in Jobs |-> NoChoice]
  /\ crashed = FALSE /\ conflicts = 0

At(c, label) == ~crashed /\ pc[c] = label

GoTo(c, label) == pc' = [pc EXCEPT ![c] = label]

\* The runner c goes to label and the rest of the system stands still.
OnlyGoTo(c, label) ==
  /\ GoTo(c, label)
  /\ UNCHANGED <<seenEpoch, seenCount, scanned, currJob>>
  /\ UNCHANGED <<sharedVars, txVars, jobVars, clientVars, crashed>>

\* The transaction of core d is between its begin and its end.
IsRunning(d) == ~crashed /\ pc[d] \in {"run", "mark"}

-------------------------------------------------------------------------------
(* RunnerThread::doJobs, reading epoch.                                      *)

\* Loads the epoch and branches on it.
ReadEpoch(c) ==
  /\ At(c, "poll")
  /\ seenEpoch' = [seenEpoch EXCEPT ![c] = epoch]
  /\ GoTo(c, IF IsReading(epoch) THEN "count" ELSE "roSize")
  /\ UNCHANGED <<seenCount, scanned, currJob>>
  /\ UNCHANGED <<sharedVars, txVars, jobVars, clientVars, crashed>>

\* Loads the number of read-only jobs to take, and branches on it.
ReadCount(c) ==
  /\ At(c, "count")
  /\ IF roQueueCount > 1
     THEN seenCount' = [seenCount EXCEPT ![c] = roQueueCount] /\ GoTo(c, "take")
     ELSE GoTo(c, "takeLast") /\ UNCHANGED seenCount
  /\ UNCHANGED <<seenEpoch, scanned, currJob>>
  /\ UNCHANGED <<sharedVars, txVars, jobVars, clientVars, crashed>>

\* The CAS of m_roQueueCount from old to old - 1: on success the runner goes
\* on to label, on failure it starts over.
TakeGrant(c, old, label) ==
  /\ IF roQueueCount = old
     THEN roQueueCount' = old - 1 /\ GoTo(c, label)
     ELSE GoTo(c, "poll") /\ UNCHANGED roQueueCount
  /\ seenCount' = [seenCount EXCEPT ![c] = 0]
  /\ UNCHANGED <<seenEpoch, scanned, currJob, epoch, roQueue, queue>>
  /\ UNCHANGED <<txVars, jobVars, clientVars, crashed>>

\* A mutant of Take: every taker goes on as if it had taken the last job.
TakeAndEnd(c) == At(c, "take") /\ TakeGrant(c, seenCount[c], "dequeLast")

Take(c) == At(c, "take") /\ TakeGrant(c, seenCount[c], "deque")

\* A mutant of TakeLast: a decrement instead of a compare-and-swap.
TakeLastBlindly(c) == At(c, "takeLast") /\ TakeGrant(c, roQueueCount, "dequeLast")

TakeLast(c) == At(c, "takeLast") /\ TakeGrant(c, 1, "dequeLast")

\* roQueueDeque and setEpoch. front() of an empty queue dereferences NULL.
DequeRO(c) ==
  /\ At(c, "deque") \/ At(c, "dequeLast")
  /\ IF IsEmpty(roQueue)
     THEN /\ crashed' = TRUE
          /\ UNCHANGED <<roQueue, currJob, jobEpoch, pc>>
     ELSE /\ currJob' = [currJob EXCEPT ![c] = Front(roQueue)]
          /\ roQueue' = Pop(roQueue)
          /\ jobEpoch' = [jobEpoch EXCEPT ![Front(roQueue)] = seenEpoch[c]]
          /\ GoTo(c, IF pc[c] = "deque" THEN "begin" ELSE "bump")
          /\ UNCHANGED crashed
  /\ UNCHANGED <<epoch, roQueueCount, queue, seenEpoch, seenCount, scanned>>
  /\ UNCHANGED <<txVars, stamped, isRO, finished, clientVars>>

\* A mutant of CasEpoch: a store of the next epoch.
StoreEpoch(c, success, failure) ==
  /\ epoch' = seenEpoch[c] + 1
  /\ GoTo(c, success)
  /\ UNCHANGED <<roQueueCount, roQueue, queue>>
  /\ UNCHANGED <<seenEpoch, seenCount, scanned, currJob>>
  /\ UNCHANGED <<txVars, jobVars, clientVars, crashed>>

\* The CAS of the epoch from the one the runner saw to the next; its result
\* decides what follows, nothing else.
CasEpoch(c, success, failure) ==
  /\ IF epoch = seenEpoch[c]
     THEN epoch' = epoch + 1 /\ GoTo(c, success)
     ELSE GoTo(c, failure) /\ UNCHANGED epoch
  /\ UNCHANGED <<roQueueCount, roQueue, queue>>
  /\ UNCHANGED <<seenEpoch, seenCount, scanned, currJob>>
  /\ UNCHANGED <<txVars, jobVars, clientVars, crashed>>

\* The taker of the last job leaves the reading epoch.
EndReadingEpoch(c) == At(c, "bump") /\ CasEpoch(c, "begin", "begin")

-------------------------------------------------------------------------------
(* RunnerThread::doJobs, writing epoch.                                      *)

\* A mutant of CheckROSize: only a full read-only queue starts a reading epoch.
CheckROFull(c) ==
  /\ At(c, "roSize")
  /\ OnlyGoTo(c, IF Size(roQueue) >= NumCores THEN "roNonEmpty" ELSE "local")

CheckROSize(c) ==
  /\ At(c, "roSize")
  /\ OnlyGoTo(c, IF Size(roQueue) >= NumCores THEN "roNonEmpty" ELSE "allEmpty")

\* allQueuesEmpty loads the size of every queue, twice, until one is not 0.
ScanQueue(c) ==
  /\ At(c, "allEmpty")
  /\ LET isEmpty == IsEmpty(queue[scanned[c] % NumCores])
         isLast  == scanned[c] = 2 * NumCores - 1
     IN  /\ scanned' = [scanned EXCEPT ![c] = IF isEmpty /\ ~isLast THEN @ + 1 ELSE 0]
         /\ GoTo(c, CASE ~isEmpty          -> "local"
                      [] isEmpty /\ isLast  -> "roNonEmpty"
                      [] isEmpty /\ ~isLast -> "allEmpty")
  /\ UNCHANGED <<seenEpoch, seenCount, currJob>>
  /\ UNCHANGED <<sharedVars, txVars, jobVars, clientVars, crashed>>

CheckRONonEmpty(c) ==
  /\ At(c, "roNonEmpty")
  /\ OnlyGoTo(c, IF IsEmpty(roQueue) THEN "poll" ELSE "switch")

\* A mutant of StartReadingEpoch: the result of the CAS is ignored.
StartReadingEpochAnyway(c) == At(c, "switch") /\ CasEpoch(c, "grant", "grant")

StartReadingEpoch(c) == At(c, "switch") /\ CasEpoch(c, "grant", "poll")

\* Sets the number of jobs to take from the read-only queue.
Grant(c) ==
  /\ At(c, "grant")
  /\ roQueueCount' = IF Size(roQueue) < NumCores THEN Size(roQueue) ELSE NumCores
  /\ GoTo(c, "poll")
  /\ UNCHANGED <<seenEpoch, seenCount, scanned, currJob, epoch, roQueue, queue>>
  /\ UNCHANGED <<txVars, jobVars, clientVars, crashed>>

\* Takes the front job of the core's own queue, tagged with the epoch loaded
\* at ReadEpoch. Only this runner pops this queue, so the unlocked test and
\* the critical section are one step.
TakeLocal(c) ==
  /\ At(c, "local")
  /\ IF IsEmpty(queue[c])
     THEN GoTo(c, "poll") /\ UNCHANGED <<queue, currJob, jobEpoch>>
     ELSE /\ currJob' = [currJob EXCEPT ![c] = Front(queue[c])]
          /\ queue' = [queue EXCEPT ![c] = Pop(@)]
          /\ jobEpoch' = [jobEpoch EXCEPT ![Front(queue[c])] = seenEpoch[c]]
          /\ GoTo(c, "begin")
  /\ UNCHANGED <<epoch, roQueueCount, roQueue, seenEpoch, seenCount, scanned>>
  /\ UNCHANGED <<txVars, stamped, isRO, finished, clientVars, crashed>>

-------------------------------------------------------------------------------
(* Execution of a job: one transaction, and what the contention manager does *)
(* for it.                                                                   *)

\* beginTransaction and BiModalCM::OnBeginTransaction.
Begin(c) ==
  /\ At(c, "begin")
  /\ LET job     == currJob[c]
         isFirst == newTx[c] /\ ~stamped[job]
     IN  /\ newTx' = [newTx EXCEPT ![c] = FALSE]
         /\ stamped' = [stamped EXCEPT ![job] = @ \/ isFirst]
         /\ isRO' = [isRO EXCEPT ![job] = @ \/ isFirst]
  /\ GoTo(c, "run")
  /\ UNCHANGED <<seenEpoch, seenCount, scanned, currJob, sharedVars, resched, enemy, doomed>>
  /\ UNCHANGED <<conflicts, jobEpoch, finished, clientVars, crashed>>

\* BiModalCM::OnOpenWrite.
OpenWrite(c) ==
  /\ At(c, "run")
  /\ isRO[currJob[c]]
  /\ isRO' = [isRO EXCEPT ![currJob[c]] = FALSE]
  /\ UNCHANGED <<sharedVars, runnerVars, txVars, jobEpoch, stamped, finished>>
  /\ UNCHANGED <<clientVars, crashed>>

\* The transaction of core c meets that of core d: it kills d, which it found
\* as an owner, and marks itself with d's core; or it goes on to mark d, which
\* it killed as a visible reader, or to which it gives way (or is too late to
\* kill).
Conflict(c, d) ==
  /\ At(c, "run") /\ IsRunning(d) /\ c # d
  /\ conflicts < MaxConflicts
  /\ conflicts' = conflicts + 1
  /\ \/ /\ doomed' = [doomed EXCEPT ![d] = TRUE]
        /\ resched' = [resched EXCEPT ![c] = d]
        /\ UNCHANGED <<pc, enemy>>
     \/ /\ doomed' = [doomed EXCEPT ![d] = TRUE] \/ UNCHANGED doomed
        /\ enemy' = [enemy EXCEPT ![c] = d]
        /\ GoTo(c, "mark")
        /\ UNCHANGED resched
  /\ UNCHANGED <<seenEpoch, seenCount, scanned, currJob, sharedVars, newTx>>
  /\ UNCHANGED <<jobVars, clientVars, crashed>>

\* The mark is a store of its own: by then the enemy may have ended, and may
\* run another job.
Mark(c) ==
  /\ At(c, "mark")
  /\ resched' = [resched EXCEPT ![enemy[c]] = c]
  /\ enemy' = [enemy EXCEPT ![c] = NoCore]
  /\ GoTo(c, "run")
  /\ UNCHANGED <<seenEpoch, seenCount, scanned, currJob, sharedVars>>
  /\ UNCHANGED <<newTx, doomed, conflicts, jobVars, clientVars, crashed>>

\* A mutant of Reschedule: the exception is lost, and the job runs again here.
RescheduleAndRetry(c) ==
  /\ At(c, "run")
  /\ doomed[c] /\ resched[c] # NoCore
  /\ LET job == currJob[c]
         to  == resched[c]
     IN  IF isRO[job]
         THEN roQueue' = Push(roQueue, job) /\ UNCHANGED queue
         ELSE queue' = [queue EXCEPT ![to] = PushFront(@, job)] /\ UNCHANGED roQueue
  /\ doomed' = [doomed EXCEPT ![c] = FALSE]
  /\ GoTo(c, "begin")
  /\ UNCHANGED <<epoch, roQueueCount, seenEpoch, seenCount, scanned, currJob>>
  /\ UNCHANGED <<newTx, resched, enemy, conflicts, jobVars, clientVars, crashed>>

\* abort, with onConflictWith finding m_reschedule set: the job moves to the
\* read-only queue, or to the front of the queue of the core it was marked
\* with. RescheduleException leaves abort before reschedule_core_num is reset.
Reschedule(c) ==
  /\ At(c, "run")
  /\ doomed[c] /\ resched[c] # NoCore
  /\ LET job == currJob[c]
         to  == resched[c]
     IN  IF isRO[job]
         THEN roQueue' = Push(roQueue, job) /\ UNCHANGED queue
         ELSE queue' = [queue EXCEPT ![to] = PushFront(@, job)] /\ UNCHANGED roQueue
  /\ doomed' = [doomed EXCEPT ![c] = FALSE]
  /\ GoTo(c, "clear")
  /\ UNCHANGED <<epoch, roQueueCount, seenEpoch, seenCount, scanned, currJob>>
  /\ UNCHANGED <<newTx, resched, enemy, conflicts, jobVars, clientVars, crashed>>

\* abort, without a core to move to or with m_reschedule unset: Aborted is
\* thrown and the transaction begins again on the same core.
Retry(c) ==
  /\ At(c, "run")
  /\ doomed[c]
  /\ doomed' = [doomed EXCEPT ![c] = FALSE]
  /\ resched' = [resched EXCEPT ![c] = NoCore]
  /\ GoTo(c, "begin")
  /\ UNCHANGED <<seenEpoch, seenCount, scanned, currJob, sharedVars, newTx, enemy, conflicts>>
  /\ UNCHANGED <<jobVars, clientVars, crashed>>

\* The transaction commits, the job ends and its client is signalled.
Commit(c) ==
  /\ At(c, "run")
  /\ ~doomed[c]
  /\ newTx' = [newTx EXCEPT ![c] = TRUE]
  /\ finished' = [finished EXCEPT ![currJob[c]] = TRUE]
  /\ GoTo(c, "clear")
  /\ UNCHANGED <<seenEpoch, seenCount, scanned, currJob, sharedVars, resched, enemy, doomed>>
  /\ UNCHANGED <<conflicts, jobEpoch, stamped, isRO, clientVars, crashed>>

\* m_currJob = NULL, after the job ended or the exception was caught.
ClearJob(c) ==
  /\ At(c, "clear")
  /\ currJob' = [currJob EXCEPT ![c] = NoJob]
  /\ seenEpoch' = [seenEpoch EXCEPT ![c] = 0]     \* dead until the next poll
  /\ GoTo(c, "poll")
  /\ UNCHANGED <<seenCount, scanned, sharedVars, txVars, jobVars, clientVars, crashed>>

-------------------------------------------------------------------------------
(* BiModalScheduler::schedule, run by the client of job j.                   *)

\* sched_getcpu and the size of that core's queue.
StartSchedule(j) ==
  /\ ~crashed /\ client[j] = "schedule"
  /\ \E c \in Cores :
       choice' = [choice EXCEPT ![j] = [core |-> c, min |-> Size(queue[c]), next |-> 0]]
  /\ client' = [client EXCEPT ![j] = "scan"]
  /\ UNCHANGED <<sharedVars, runnerVars, txVars, jobVars, crashed>>

\* One iteration of the loop over the queues.
ScanCore(j) ==
  /\ ~crashed /\ client[j] = "scan"
  /\ LET iQueue == choice[j].next
         size   == Size(queue[iQueue])
         better == size <= choice[j].min
         found  == better /\ size = 0
     IN  /\ choice' = [choice EXCEPT ![j] =
               [core |-> IF better THEN iQueue ELSE @.core,
                min  |-> IF better THEN size ELSE @.min,
                next |-> iQueue + 1]]
         /\ client' = [client EXCEPT ![j] =
               IF found \/ iQueue = NumCores - 1 THEN "add" ELSE "scan"]
  /\ UNCHANGED <<sharedVars, runnerVars, txVars, jobVars, crashed>>

\* RunnerThread::addJob up to waitForFinish.
AddJob(j) ==
  /\ ~crashed /\ client[j] = "add"
  /\ LET c == choice[j].core
     IN  IF queue[c].lost
         THEN crashed' = TRUE /\ UNCHANGED <<queue, client, choice>>
         ELSE /\ queue' = [queue EXCEPT ![c] = Push(@, j)]
              /\ client' = [client EXCEPT ![j] = "wait"]
              /\ choice' = [choice EXCEPT ![j] = NoChoice]
              /\ UNCHANGED crashed
  /\ UNCHANGED <<epoch, roQueueCount, roQueue, runnerVars, txVars, jobVars>>

\* waitForFinish returns and the job is deleted.
Return(j) ==
  /\ ~crashed /\ client[j] = "wait"
  /\ finished[j]
  /\ client' = [client EXCEPT ![j] = "done"]
  /\ UNCHANGED <<sharedVars, runnerVars, txVars, jobVars, choice, crashed>>

-------------------------------------------------------------------------------

\* What the thread of core c does on its own.
Runner(c) ==
  \/ ReadEpoch(c) \/ ReadCount(c) \/ Take(c) \/ TakeLast(c) \/ DequeRO(c)
  \/ EndReadingEpoch(c)
  \/ CheckROSize(c) \/ ScanQueue(c) \/ CheckRONonEmpty(c)
  \/ StartReadingEpoch(c) \/ Grant(c) \/ TakeLocal(c)
  \/ Begin(c) \/ Mark(c) \/ Reschedule(c) \/ Retry(c) \/ Commit(c) \/ ClearJob(c)

Client(j) == StartSchedule(j) \/ ScanCore(j) \/ AddJob(j) \/ Return(j)

Next ==
  \/ \E c \in Cores : Runner(c)
  \/ \E c \in Cores : OpenWrite(c)
  \/ \E c, d \in Cores : Conflict(c, d)
  \/ \E j \in Jobs : Client(j)

Spec == Init /\ [][Next]_vars

\* Runners never block, and clients block only in waitForFinish: the operating
\* system gives every thread its turns. Nothing obliges transactions to
\* conflict or to write.
Fairness ==
  /\ \A c \in Cores : WF_vars(Runner(c))
  /\ \A j \in Jobs : WF_vars(Client(j))

FairSpec == Spec /\ Fairness
-------------------------------------------------------------------------------
(* Safety.                                                                   *)

SharedTypeOK ==
  /\ epoch \in Nat /\ roQueueCount \in Nat
  /\ roQueue \in QueueType
  /\ queue \in [Cores -> QueueType]

RunnerTypeOK ==
  /\ pc \in [Cores -> RunnerLabels]
  /\ seenEpoch \in [Cores -> Nat]
  /\ seenCount \in [Cores -> Nat]
  /\ scanned \in [Cores -> 0 .. 2 * NumCores - 1]
  /\ currJob \in [Cores -> Jobs \cup {NoJob}]

TxTypeOK ==
  /\ newTx \in [Cores -> BOOLEAN]
  /\ resched \in [Cores -> Cores \cup {NoCore}]
  /\ enemy \in [Cores -> Cores \cup {NoCore}]
  /\ doomed \in [Cores -> BOOLEAN]
  /\ conflicts \in Nat

JobTypeOK ==
  /\ jobEpoch \in [Jobs -> Nat \cup {-1}]
  /\ stamped \in [Jobs -> BOOLEAN]
  /\ isRO \in [Jobs -> BOOLEAN]
  /\ finished \in [Jobs -> BOOLEAN]

ClientTypeOK ==
  /\ client \in [Jobs -> {"schedule", "scan", "add", "wait", "done"}]
  /\ choice \in [Jobs -> [core : Cores, min : Nat, next : 0 .. NumCores]]

TypeOK ==
  /\ SharedTypeOK /\ RunnerTypeOK /\ TxTypeOK /\ JobTypeOK /\ ClientTypeOK
  /\ crashed \in BOOLEAN

\* The runner c is going to change the epoch, or what there is to take in it: it
\* started a reading epoch and has not set the count, or it took the last job.
\* A runner that is late, with the number of an earlier epoch, is neither.
ChangesEpoch(c) ==
  \/ pc[c] = "grant"
  \/ pc[c] \in {"dequeLast", "bump"} /\ seenEpoch[c] = epoch

\* The runner c executes its current job: it is not unwinding from it.
IsExecuting(c) == pc[c] \in {"bump", "begin", "run", "mark"}

\* In a writing epoch there is nothing left to take from the read-only queue:
\* no interleaving of the runners' CASes carries a grant from one reading epoch
\* into the writing epoch after it (RunnerThread.cpp:103-115, 124-130).
NoGrantInWritingEpoch == ~IsReading(epoch) => roQueueCount = 0

\* The right to change the epoch is held by one party at a time: by the grants
\* still to be taken, or by one runner (RunnerThread.cpp:97-133).
OneEpochChanger ==
  /\ \A c, d \in Cores : ChangesEpoch(c) /\ ChangesEpoch(d) => c = d
  /\ (\E c \in Cores : ChangesEpoch(c)) => IsReading(epoch) /\ roQueueCount = 0

\* Where job j is: the queues and the runners that hold it, each as often as it
\* does.
Places(j) ==
  (UNION {{<<"core", c, i>> : i \in {k \in DOMAIN queue[c].items : queue[c].items[k] = j}}
            : c \in Cores})
  \cup {<<"ro", 0, i>> : i \in {k \in DOMAIN roQueue.items : roQueue.items[k] = j}}
  \cup {<<"runner", c, 0>> : c \in {d \in Cores : IsExecuting(d) /\ currJob[d] = j}}

\* A job whose client waits is in exactly one place until it is finished, and
\* in none before and after: moving it between queues neither loses it nor
\* lets two runners execute it, although the old runner still points at it
\* while it unwinds (Queue.cpp:42-102, RunnerThread.cpp:93-189,
\* BiModalScheduler.cpp:138-170).
JobInOnePlace ==
  ~crashed =>
    \A j \in Jobs :
      Cardinality(Places(j)) = IF client[j] = "wait" /\ ~finished[j] THEN 1 ELSE 0

-------------------------------------------------------------------------------
(* Action properties.                                                        *)

\* Epochs advance one at a time, and a reading epoch ends only when every job
\* granted to it has been claimed (RunnerThread.cpp:111-115, 124).
EpochAdvancesInOrder ==
  [][epoch' = epoch + 1 /\ (IsReading(epoch) => roQueueCount = 0)]_epoch

-------------------------------------------------------------------------------
(* Liveness.                                                                 *)

\* Nobody is left to change the epoch: no grant to take, no runner about to set
\* the count, no taker of the last job whose CAS can succeed.
EpochStuck ==
  IsReading(epoch) /\ roQueueCount = 0 /\ ~\E c \in Cores : ChangesEpoch(c)

\* Every client returns from schedule, unless the process crashes or the epoch
\* is stuck: jobs in the read-only queue are not starved by those of the cores,
\* nor the other way round (BiModalScheduler.cpp:93-114, Queue.h:57-66).
ClientsReturn ==
  \A j \in Jobs : <>(client[j] = "done" \/ crashed \/ EpochStuck)

-------------------------------------------------------------------------------
(* What comments of the source say.                                          *)

\* "If we are in a reading epoch, we have to take a job in the ro queue"
\* (RunnerThread.cpp:101): a runner that was granted a job finds one.
GrantedJobIsThere ==
  \A c \in Cores : pc[c] \in {"deque", "dequeLast"} => ~IsEmpty(roQueue)

\* "If this is the last job to take in the ro queue, we change the epoch"
\* (RunnerThread.cpp:114): a reading epoch always has someone left to end it.
ReadingEpochCanEnd == ~EpochStuck

\* "If this is the first time this transaction begins, we initialize its
\* timestamp, and set the transaction as read only" (BiModalCM.hpp:48-51).
RunningJobIsStamped ==
  \A c \in Cores : pc[c] = "run" => stamped[currJob[c]]

\* "Just add the job to the current queue" (RunnerThread.cpp:179): adding a job
\* to a core's queue finds a queue with a last node.
QueuesKeepTheirTail ==
  \A c \in Cores, j \in Jobs :
    client[j] = "add" /\ choice[j].core = c => ~queue[c].lost
===============================================================================
