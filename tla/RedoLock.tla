------------------------------- MODULE RedoLock -------------------------------
(*****************************************************************************)
(* The redo-lock transactional memory of Descriptor_redo_lock.h: objects     *)
(* are updated in place, under a lock, after the commit of the transaction   *)
(* that owns them.                                                           *)
(*                                                                           *)
(* The metadata of an object is two words that are read and CASed together:  *)
(* an odd version number; or the owner's descriptor and its redo log, a      *)
(* clone of the object; or the lock and the redo log that is being applied.  *)
(* A reader works on the object itself and looks at the version again after  *)
(* each field it loads.                                                      *)
(*                                                                           *)
(* A step is one access to a shared word or to the contents of an object.    *)
(* The contention manager is any. The contents of an object are named by the *)
(* transaction that wrote them; a redo log is named by the attempt that made *)
(* it, and never reused: the epochs of the reclaimer keep it.                *)
(*****************************************************************************)
EXTENDS Naturals, Sequences, FiniteSets, SequencesExt, TxHistory

CONSTANTS
  Threads,             \* threads, each with its descriptor
  Objects,             \* shared objects
  NoThread,            \* the writer of the contents objects start with
  Modes,               \* the combinations of isLazy and the validation policy
  MaxAttempts,         \* bound on the attempts of a thread
  MaxOpens,            \* bound on the objects that an attempt opens
  MaxOthers            \* bound on commits of transactions on other objects

ASSUME RedoModesAssumption == Modes \subseteq [isLazy : BOOLEAN, counts : BOOLEAN]
ASSUME RedoBoundsAssumption == {MaxAttempts, MaxOpens, MaxOthers} \subseteq Nat
ASSUME RedoNoThreadAssumption == NoThread \notin Threads
ASSUME RedoObjectsAssumption == Objects # {}

Locked == 2
Free == 1
FirstVersion == 1

\* The address of a descriptor is neither.
ASSUME RedoThreadsAssumption == Threads \cap {Free, Locked} = {}

\* A transaction that was killed and has not noticed may acquire an object
\* twice, if its enemy cleaned the metadata in between.
Initial == <<NoThread, 0>>
Txs == (Threads \X (1 .. MaxAttempts)) \cup {Initial}
NoLog == <<NoThread, 0, 0>>
Logs == (Threads \X (1 .. MaxAttempts) \X (1 .. 2)) \cup {NoLog}
ContentsOf(log) == <<log[1], log[2]>>

VARIABLES
  \* Shared memory.
  meta,                \* m_metadata of every object
  data,                \* the contents of every object, in place
  txState,             \* tx_state of every descriptor
  counter,             \* global_counter
  \* Every thread.
  mode,                \* isLazy and the policy, the same for all threads
  pc,                  \* its next statement
  attempt,             \* the number of its attempt
  loc,                 \* the locals of getReadable, getWritable, commit and cleanup
  cached,              \* cached_counter
  invisReads,          \* invisibleReads: objects and version numbers, in order
  writes,              \* eagerWrites or lazyWrites, in order
  \* History.
  seen,                \* the contents that an attempt read
  began,               \* the transactions committed when it began
  committed,           \* the committed transactions
  others               \* commits of transactions on other objects so far

shared == <<meta, data, txState, counter, others>>
private == <<mode, attempt, cached, invisReads, writes>>
history == <<seen, began, committed>>
vars == <<shared, private, pc, loc, history>>

\* Unowned at version v; owned by thread t with its redo log; or locked with
\* the log that is applied. The version of the log is that of the object when
\* it was cloned.
Unowned(v) == [owner |-> Free, ver |-> v, log |-> NoLog]
Owned(t, log, v) == [owner |-> t, ver |-> v, log |-> log]
LockedBy(m) == [m EXCEPT !.owner = Locked]

NoLocals ==
  [obj |-> CHOOSE o \in Objects : TRUE, kind |-> "none", snap |-> Unowned(0),
   state |-> "COMMITTED", copy |-> Initial, todo |-> <<>>, then |-> "work"]

Init ==
  /\ meta = [o \in Objects |-> Unowned(FirstVersion)]
  /\ data = [o \in Objects |-> Initial]
  /\ txState = [t \in Threads |-> "COMMITTED"]
  /\ counter = 0 /\ others = 0
  /\ mode \in Modes
  /\ pc = [t \in Threads |-> "idle"]
  /\ attempt = [t \in Threads |-> 0]
  /\ loc = [t \in Threads |-> NoLocals]
  /\ cached = [t \in Threads |-> 0]
  /\ invisReads = [t \in Threads |-> <<>>]
  /\ writes = [t \in Threads |-> <<>>]
  /\ seen = [t \in Threads |-> {}]
  /\ began = [t \in Threads |-> {}]
  /\ committed = {}

Tx(t) == <<t, attempt[t]>>
IsWriteOf(t, o) == \E i \in DOMAIN writes[t] : writes[t][i].obj = o
NewLog(t, o) == <<t, attempt[t], IF IsWriteOf(t, o) THEN 2 ELSE 1>>
Pairs(list) == [i \in DOMAIN list |-> <<list[i].obj, list[i].ver>>]
LazyPairs(t) == IF mode.isLazy THEN Pairs(writes[t]) ELSE <<>>

GoTo(t, label) == pc' = [pc EXCEPT ![t] = label]
OnlyGoTo(t, label) == GoTo(t, label) /\ UNCHANGED <<shared, private, loc, history>>
Killed(t) == txState[t] = "ABORTED"

\* abort: the transaction throws Aborted, which unwinds to the cleanup.
Abort(t) ==
  /\ txState' = [txState EXCEPT ![t] = "ABORTED"]
  /\ loc' = [loc EXCEPT ![t] = NoLocals]
  /\ seen' = [seen EXCEPT ![t] = {}]
  /\ GoTo(t, "restore")
  /\ UNCHANGED <<meta, data, counter, others, private, began, committed>>

\* casX of the metadata of an object from one value to another.
casX(o, from, to) == meta' = [meta EXCEPT ![o] = IF @ = from THEN to ELSE @]

-------------------------------------------------------------------------------
(* beginTransaction, and the first lines of getReadable and getWritable.     *)

Begin(t) ==
  /\ pc[t] = "idle"
  /\ attempt[t] < MaxAttempts
  /\ attempt' = [attempt EXCEPT ![t] = @ + 1]
  /\ cached' = [cached EXCEPT ![t] = counter]
  /\ txState' = [txState EXCEPT ![t] = "ACTIVE"]
  /\ began' = [began EXCEPT ![t] = {c.tx : c \in committed}]
  /\ GoTo(t, "work")
  /\ UNCHANGED <<meta, data, counter, others, mode, invisReads, writes, loc, seen, committed>>

\* An object of lazyWrites is returned at once, and changes nothing.
Open(t, o, kind) ==
  /\ pc[t] = "work"
  /\ Len(invisReads[t]) + Len(writes[t]) < MaxOpens
  /\ mode.isLazy => ~IsWriteOf(t, o)
  /\ IF Killed(t)
     THEN Abort(t)
     ELSE /\ loc' = [loc EXCEPT ![t] = [NoLocals EXCEPT !.obj = o, !.kind = kind]]
          /\ GoTo(t, "load")
          /\ UNCHANGED <<shared, private, history>>

\* open_un, which a thread calls between transactions.
OpenUn(t, o) ==
  /\ pc[t] = "idle"
  /\ attempt[t] < MaxAttempts
  /\ loc' = [loc EXCEPT ![t] = [NoLocals EXCEPT !.obj = o, !.kind = "UN"]]
  /\ GoTo(t, "load")
  /\ UNCHANGED <<shared, private, history>>

\* onContention, then verifySelf, then the loop again; open_un just spins.
Contend(t) ==
  /\ pc[t] = "contend"
  /\ IF loc[t].kind # "UN" /\ Killed(t)
     THEN Abort(t)
     ELSE /\ loc' = [loc EXCEPT ![t] = [NoLocals EXCEPT !.obj = loc[t].obj, !.kind = loc[t].kind]]
          /\ GoTo(t, "load")
          /\ UNCHANGED <<shared, private, history>>

-------------------------------------------------------------------------------
(* Validation.                                                               *)

\* Goes on to check that the pairs of todo are current, and then to label.
Validating(t, todo, label) ==
  /\ loc' = [loc EXCEPT ![t].todo = todo, ![t].then = IF todo = <<>> THEN "work" ELSE label]
  /\ GoTo(t, IF todo = <<>> THEN label ELSE "validate")

isCurrent(t, o, expected) ==
  /\ meta[o].ver = expected
  /\ meta[o].owner \in {Free, t}

Validate(t) ==
  /\ pc[t] = "validate"
  /\ LET todo == loc[t].todo
     IN  IF isCurrent(t, Head(todo)[1], Head(todo)[2])
         THEN Validating(t, Tail(todo), loc[t].then) /\ UNCHANGED <<shared, private, history>>
         ELSE Abort(t)

\* shouldValidate of the commit counter: the first load decides, and the second
\* is what is remembered.
CheckCounter(t) ==
  /\ pc[t] = "count"
  /\ OnlyGoTo(t, IF cached[t] = counter THEN "opened" ELSE "cache")

CacheCounter(t) ==
  /\ pc[t] = "cache"
  /\ cached' = [cached EXCEPT ![t] = counter]
  /\ Validating(t, invisReads[t] \o LazyPairs(t), "opened")
  /\ UNCHANGED <<shared, mode, attempt, invisReads, writes, history>>

\* addValidateInvisRead stops at an entry of the object itself; with the
\* counter the object is appended whatever is in the list.
InsertInvisRead(t, o, ver) ==
  LET known == {i \in DOMAIN invisReads[t] : invisReads[t][i][1] = o}
      upTo  == IF known = {} THEN Len(invisReads[t])
               ELSE CHOOSE i \in known : \A k \in known : i <= k
  IN  /\ invisReads' = [invisReads EXCEPT ![t] =
            IF mode.counts \/ known = {} THEN Append(@, <<o, ver>>) ELSE @]
      /\ IF mode.counts
         THEN GoTo(t, "count") /\ UNCHANGED loc
         ELSE Validating(t, SubSeq(invisReads[t], 1, upTo) \o LazyPairs(t), "opened")

-------------------------------------------------------------------------------
(* The consistent snapshot, and what to do about an owner.                   *)

Load(t) ==
  /\ pc[t] = "load"
  /\ LET snap == meta[loc[t].obj]
     IN  CASE snap.owner = Free /\ loc[t].kind = "RO" ->
                InsertInvisRead(t, loc[t].obj, snap.ver)
           [] snap.owner = Free /\ loc[t].kind = "UN" ->
                /\ loc' = [loc EXCEPT ![t] = NoLocals]
                /\ GoTo(t, "idle")
                /\ UNCHANGED invisReads
           [] OTHER ->
                /\ loc' = [loc EXCEPT ![t].snap = snap]
                /\ GoTo(t, CASE snap.owner = Free    -> "clone"
                             [] snap.owner = Locked  -> "contend"
                             [] snap.owner \in Threads -> "look")
                /\ UNCHANGED invisReads
  /\ UNCHANGED <<shared, mode, attempt, cached, writes, history>>

LookAtOwner(t) ==
  /\ pc[t] = "look"
  /\ loc' = [loc EXCEPT ![t].state = txState[loc[t].snap.owner]]
  /\ GoTo(t, "recheck")
  /\ UNCHANGED <<shared, private, history>>

\* The metadata still is what it was when the owner's state was loaded.
IsAnySnapshot(t) == TRUE         \* mutant: it is not loaded again
IsSnapshot(t) == meta[loc[t].obj] = loc[t].snap

Recheck(t) ==
  /\ pc[t] = "recheck"
  /\ LET isMine == loc[t].snap.owner = t
         label  == CASE ~IsSnapshot(t) -> "load"
                     [] IsSnapshot(t) /\ loc[t].state = "ACTIVE" /\ isMine -> "work"
                     [] IsSnapshot(t) /\ loc[t].state = "ACTIVE" /\ ~isMine -> "decide"
                     [] IsSnapshot(t) /\ loc[t].state = "ABORTED" -> "cleanAbort"
                     [] IsSnapshot(t) /\ loc[t].state = "COMMITTED" -> "lock"
     IN  /\ GoTo(t, label)
         /\ loc' = [loc EXCEPT ![t] = IF label = "work" THEN NoLocals ELSE @]
  /\ UNCHANGED <<shared, private, history>>

\* shouldAbort answers FALSE. open_un does not ask.
GiveWay(t) ==
  /\ pc[t] = "decide"
  /\ loc[t].kind # "UN"
  /\ OnlyGoTo(t, "contend")

\* The owner is killed by a CAS.
KillsAnyway(t) == TRUE         \* mutant: a store
Kills(t) == txState[loc[t].snap.owner] = "ACTIVE"

KillOwner(t) ==
  /\ pc[t] = "decide"
  /\ IF Kills(t)
     THEN /\ txState' = [txState EXCEPT ![loc[t].snap.owner] = "ABORTED"]
          /\ GoTo(t, "cleanAbort")
     ELSE GoTo(t, "contend") /\ UNCHANGED txState
  /\ UNCHANGED <<meta, data, counter, others, private, loc, history>>

\* cleanOnAbort: from the owner and its log to the log's version.
CleanOnAbort(t) ==
  /\ pc[t] = "cleanAbort"
  /\ casX(loc[t].obj, loc[t].snap, Unowned(loc[t].snap.ver))
  /\ GoTo(t, "load")
  /\ UNCHANGED <<data, txState, counter, others, private, loc, history>>

-------------------------------------------------------------------------------
(* cleanOnCommit, by whoever gets the lock.                                  *)

\* A mutant of Lock: everyone applies the log.
LockAnyway(t) ==
  /\ pc[t] = "lock"
  /\ LET l == loc[t]
     IN  /\ casX(l.obj, l.snap, LockedBy(l.snap))
         /\ loc' = [loc EXCEPT ![t].then = "load"]
         /\ GoTo(t, "redo")
  /\ UNCHANGED <<data, txState, counter, others, private, history>>

Lock(t) ==
  /\ pc[t] = "lock"
  /\ LET l == loc[t]
     IN  /\ casX(l.obj, l.snap, LockedBy(l.snap))
         /\ loc' = [loc EXCEPT ![t].then = "load"]
         /\ GoTo(t, IF meta[l.obj] = l.snap THEN "redo" ELSE "load")
  /\ UNCHANGED <<data, txState, counter, others, private, history>>

Redo(t) ==
  /\ pc[t] = "redo"
  /\ data' = [data EXCEPT ![loc[t].obj] = ContentsOf(loc[t].snap.log)]
  /\ GoTo(t, "release")
  /\ UNCHANGED <<meta, txState, counter, others, private, loc, history>>

\* Stores the next version and releases the lock. A thread that cleans up after
\* itself goes on with its next object.
SameVersion(v) == v         \* mutant
NextVersion(v) == v + 2

ReleaseLock(t) ==
  /\ pc[t] = "release"
  /\ LET l == loc[t]
     IN  /\ meta' = [meta EXCEPT ![l.obj] = Unowned(NextVersion(l.snap.ver))]
         /\ loc' = [loc EXCEPT ![t] = IF l.then = "load" THEN @ ELSE NoLocals]
         /\ GoTo(t, l.then)
  /\ UNCHANGED <<data, txState, counter, others, private, history>>

-------------------------------------------------------------------------------
(* Reading.                                                                  *)

\* A getter: it loads the field from the object, and then the validator looks
\* at the version.
ReadField(t) ==
  /\ pc[t] = "work"
  /\ \E i \in DOMAIN invisReads[t] :
       LET o == invisReads[t][i][1]
       IN  /\ \A r \in seen[t] : r[1] # o
           /\ loc' = [loc EXCEPT ![t].obj = o, ![t].snap = Unowned(invisReads[t][i][2]),
                                 ![t].copy = data[o]]
  /\ GoTo(t, "checkField")
  /\ UNCHANGED <<shared, private, history>>

\* Validator::validate.
FieldIsAnything(t) == TRUE         \* mutant
FieldIsValid(t) == meta[loc[t].obj] = loc[t].snap

CheckField(t) ==
  /\ pc[t] = "checkField"
  /\ IF FieldIsValid(t)
     THEN /\ seen' = [seen EXCEPT ![t] = @ \cup {<<loc[t].obj, loc[t].copy>>}]
          /\ loc' = [loc EXCEPT ![t] = NoLocals]
          /\ GoTo(t, "work")
          /\ UNCHANGED <<shared, private, began, committed>>
     ELSE Abort(t)

\* release: early release takes the first entry of an object out of the list. The
\* transaction does not depend on what it read there any more, unless it writes it.
Release(t) ==
  /\ pc[t] = "work"
  /\ \E i \in DOMAIN invisReads[t] :
       LET o == invisReads[t][i][1]
       IN  /\ \A k \in 1 .. i - 1 : invisReads[t][k][1] # o
           /\ invisReads' = [invisReads EXCEPT ![t] = RemoveAt(@, i)]
           /\ seen' = [seen EXCEPT ![t] =
                 IF IsWriteOf(t, o) THEN @ ELSE {r \in @ : r[1] # o}]
  /\ UNCHANGED <<shared, mode, attempt, cached, writes, pc, loc, began, committed>>

-------------------------------------------------------------------------------
(* Writing.                                                                  *)

Clone(t) ==
  /\ pc[t] = "clone"
  /\ loc' = [loc EXCEPT ![t].copy = data[loc[t].obj]]
  /\ GoTo(t, "acquire")
  /\ UNCHANGED <<shared, private, history>>

\* Eager: the CAS of the metadata to the owner and its log. Lazy: the clone
\* stays private until the commit. Then validation, if the policy wants it.
Acquire(t) ==
  /\ pc[t] = "acquire"
  /\ LET l     == loc[t]
         o     == l.obj
         entry == [obj |-> o, ver |-> l.snap.ver, log |-> NewLog(t, o), read |-> l.copy,
                   acquired |-> ~mode.isLazy]
     IN  IF mode.isLazy \/ meta[o] = l.snap
         THEN /\ writes' = [writes EXCEPT ![t] = Append(@, entry)]
              /\ meta' = [meta EXCEPT ![o] =
                    IF mode.isLazy THEN @ ELSE Owned(t, entry.log, entry.ver)]
              /\ IF mode.counts
                 THEN GoTo(t, "count") /\ UNCHANGED loc
                 ELSE Validating(t, invisReads[t] \o (IF mode.isLazy THEN Pairs(writes'[t]) ELSE <<>>),
                                 "opened")
         ELSE GoTo(t, "contend") /\ UNCHANGED <<meta, writes, loc>>
  /\ UNCHANGED <<data, txState, counter, others, mode, attempt, cached, invisReads, history>>

\* verifySelf, and the open returns. A write is a read as well: the program
\* goes on from the contents of the clone.
Opened(t) ==
  /\ pc[t] = "opened"
  /\ IF Killed(t)
     THEN Abort(t)
     ELSE /\ seen' = [seen EXCEPT ![t] =
               IF loc[t].kind = "RW" THEN @ \cup {<<loc[t].obj, loc[t].copy>>} ELSE @]
          /\ loc' = [loc EXCEPT ![t] = NoLocals]
          /\ GoTo(t, "work")
          /\ UNCHANGED <<shared, private, began, committed>>

-------------------------------------------------------------------------------
(* commit and cleanup.                                                       *)

VerifyNothing(t) == GoTo(t, "cas") /\ UNCHANGED loc         \* mutant

\* verifyInvisReads, then forceCommit.
VerifyInvisReads(t) ==
  Validating(t, invisReads[t], IF mode.counts /\ writes[t] # <<>> THEN "force" ELSE "cas")

\* What follows when every object is acquired.
Acquired(t) ==
  IF mode.counts THEN GoTo(t, "tryCommit") /\ UNCHANGED loc ELSE VerifyInvisReads(t)

Commit(t) ==
  /\ pc[t] = "work"
  /\ CASE txState[t] # "ACTIVE" -> GoTo(t, "restore") /\ UNCHANGED loc
       [] txState[t] = "ACTIVE" /\ mode.isLazy /\ writes[t] # <<>> ->
            GoTo(t, "acquireLazily") /\ UNCHANGED loc
       [] OTHER -> Acquired(t)
  /\ UNCHANGED <<shared, private, history>>

\* acquireLazily, object by object.
AcquireLazily(t) ==
  /\ pc[t] = "acquireLazily"
  /\ LET left == {i \in DOMAIN writes[t] : ~writes[t][i].acquired}
         i    == CHOOSE k \in left : \A m \in left : k <= m
         w    == writes[t][i]
     IN  IF meta[w.obj] = Unowned(w.ver)
         THEN /\ meta' = [meta EXCEPT ![w.obj] = Owned(t, w.log, w.ver)]
              /\ writes' = [writes EXCEPT ![t][i].acquired = TRUE]
              /\ IF left = {i} THEN Acquired(t) ELSE UNCHANGED <<pc, loc>>
              /\ UNCHANGED <<data, txState, counter, others, history>>
              /\ UNCHANGED <<mode, attempt, cached, invisReads>>
         ELSE Abort(t)

TryCommitLocally(t) ==         \* mutant: it counts in its own copy
  /\ pc[t] = "tryCommit"
  /\ IF counter = cached[t] THEN GoTo(t, "cas") /\ UNCHANGED loc ELSE VerifyInvisReads(t)
  /\ cached' = [cached EXCEPT ![t] =
        IF counter = @ /\ writes[t] # <<>> THEN @ + 1 ELSE @]
  /\ UNCHANGED <<shared, mode, attempt, invisReads, writes, history>>

\* tryCommit of the commit counter: a writer moves the counter on from the
\* value it remembers, and validates only if it cannot.
TryCommit(t) ==
  /\ pc[t] = "tryCommit"
  /\ IF counter = cached[t] THEN GoTo(t, "cas") /\ UNCHANGED loc ELSE VerifyInvisReads(t)
  /\ counter' = IF counter = cached[t] /\ writes[t] # <<>> THEN counter + 1 ELSE counter
  /\ UNCHANGED <<meta, data, txState, others, private, history>>

ForceCommit(t) ==
  /\ pc[t] = "force"
  /\ counter' = counter + 1
  /\ GoTo(t, "cas")
  /\ UNCHANGED <<meta, data, txState, others, private, loc, history>>

\* The commit point.
CommitCas(t) ==
  /\ pc[t] = "cas"
  /\ IF txState[t] = "ACTIVE"
     THEN /\ txState' = [txState EXCEPT ![t] = "COMMITTED"]
          /\ committed' = committed \cup
               {[tx |-> Tx(t), reads |-> seen[t], after |-> began[t],
                 writes |-> {<<writes[t][i].obj, writes[t][i].read>> : i \in DOMAIN writes[t]}]}
     ELSE UNCHANGED <<txState, committed>>
  /\ loc' = [loc EXCEPT ![t] = NoLocals]
  /\ seen' = [seen EXCEPT ![t] = {}]
  /\ GoTo(t, "restore")
  /\ UNCHANGED <<meta, data, counter, others, private, began>>

\* cleanupLazyWrites or cleanupEagerWrites, one object at a time: cleanOnAbort,
\* or the lock of cleanOnCommit.
RestoreObject(t) ==
  /\ pc[t] = "restore"
  /\ writes[t] # <<>>
  /\ LET w    == Head(writes[t])
         mine == Owned(t, w.log, w.ver)
         isCommitted == txState[t] = "COMMITTED"
     IN  /\ casX(w.obj, mine, IF isCommitted THEN LockedBy(mine) ELSE Unowned(w.ver))
         /\ IF isCommitted /\ meta[w.obj] = mine
            THEN /\ loc' = [loc EXCEPT ![t] = [@ EXCEPT !.obj = w.obj, !.snap = mine, !.then = "restore"]]
                 /\ GoTo(t, "redo")
            ELSE UNCHANGED <<loc, pc>>
  /\ writes' = [writes EXCEPT ![t] = Tail(@)]
  /\ UNCHANGED <<data, txState, counter, others, mode, attempt, cached, invisReads, history>>

EndTransaction(t) ==
  /\ pc[t] = "restore"
  /\ writes[t] = <<>>
  /\ invisReads' = [invisReads EXCEPT ![t] = <<>>]
  /\ cached' = [cached EXCEPT ![t] = 0]     \* dead until the next begin
  /\ seen' = [seen EXCEPT ![t] = {}]
  /\ began' = [began EXCEPT ![t] = {}]
  /\ GoTo(t, "idle")
  /\ UNCHANGED <<shared, mode, attempt, writes, loc, committed>>

-------------------------------------------------------------------------------

\* A transaction on other objects moves the counter on.
OtherCommit ==
  /\ mode.counts
  /\ others < MaxOthers
  /\ others' = others + 1
  /\ counter' = counter + 1
  /\ UNCHANGED <<meta, data, txState, private, pc, loc, history>>

\* What the three ways to open an object have in common: a consistent snapshot
\* of the metadata, and getting rid of the owner.
OpenLoop(t) ==
  \/ Load(t) \/ LookAtOwner(t) \/ Recheck(t) \/ Contend(t)
  \/ KillOwner(t) \/ CleanOnAbort(t)
  \/ Lock(t) \/ Redo(t) \/ ReleaseLock(t)

\* What the two transactional ones have in common.
OpenTx(t) ==
  \/ OpenLoop(t) \/ GiveWay(t)
  \/ Validate(t) \/ CheckCounter(t) \/ CacheCounter(t) \/ Opened(t)

getReadable(t) ==
  \/ \E o \in Objects : Open(t, o, "RO")
  \/ loc[t].kind = "RO" /\ OpenTx(t)

getWritable(t) ==
  \/ \E o \in Objects : Open(t, o, "RW")
  \/ loc[t].kind = "RW" /\ (OpenTx(t) \/ Clone(t) \/ Acquire(t))

open_un(t) ==
  \/ \E o \in Objects : OpenUn(t, o)
  \/ loc[t].kind = "UN" /\ OpenLoop(t)

commit(t) ==
  \/ Commit(t) \/ AcquireLazily(t) \/ TryCommit(t) \/ ForceCommit(t) \/ CommitCas(t)
  \/ loc[t].kind = "none" /\ Validate(t)

cleanup(t) ==
  \/ RestoreObject(t) \/ EndTransaction(t)
  \/ loc[t].kind = "none" /\ (Redo(t) \/ ReleaseLock(t))

Thread(t) ==
  \/ Begin(t)
  \/ getReadable(t) \/ ReadField(t) \/ CheckField(t) \/ Release(t)
  \/ getWritable(t) \/ open_un(t)
  \/ commit(t) \/ cleanup(t)

Next == OtherCommit \/ \E t \in Threads : Thread(t)

Spec == Init /\ [][Next]_vars
-------------------------------------------------------------------------------
(* Safety.                                                                   *)

Labels ==
  {"idle", "work", "load", "look", "recheck", "decide", "contend", "cleanAbort",
   "lock", "redo", "release", "validate", "count", "cache", "checkField",
   "clone", "acquire", "opened", "acquireLazily", "tryCommit", "force",
   "cas", "restore"}

TypeOK ==
  /\ meta \in [Objects -> [owner : {Free, Locked} \cup Threads, ver : Nat, log : Logs]]
  /\ data \in [Objects -> Txs]
  /\ txState \in [Threads -> {"ACTIVE", "ABORTED", "COMMITTED"}]
  /\ counter \in Nat
  /\ pc \in [Threads -> Labels]
  /\ attempt \in [Threads -> 0 .. MaxAttempts]
  /\ cached \in [Threads -> 0 .. counter]
  /\ began \in [Threads -> SUBSET Txs]

\* The attempt of t as a transaction that ends now, without writing.
Live(t) == [tx |-> Tx(t), reads |-> seen[t], after |-> began[t], writes |-> {}]

\* Opacity, as for Rstm: a running program only ever sees a consistent view of
\* the objects, although it reads them in place while others apply their logs,
\* field by field, under a lock it does not take (Descriptor_redo_lock.h:464-472,
\* 890-912, 926-1062).
Opacity ==
  OpaqueHistory(committed, {Live(t) : t \in {u \in Threads : seen[u] # {}}}, Initial)

\* A log is applied once, by one thread, to the contents it was cloned from: the
\* thread that is about to apply it holds the lock, and no other is about to
\* (Descriptor_redo_lock.h:888-913).
OneApplier ==
  \A t \in Threads : pc[t] \in {"redo", "release"} =>
    /\ meta[loc[t].obj] = LockedBy(loc[t].snap)
    /\ \A u \in Threads \ {t} :
         pc[u] \in {"redo", "release"} => loc[u].obj # loc[t].obj

-------------------------------------------------------------------------------
(* Implementation of TxMemory.                                               *)

\* The contents of an object: those of the log, once its owner has committed.
Current(o) ==
  LET m == meta[o]
  IN  IF m.owner = Locked \/ (m.owner \in Threads /\ txState[m.owner] = "COMMITTED")
      THEN ContentsOf(m.log)
      ELSE data[o]

Memory == INSTANCE TxMemory WITH
            mem <- [o \in Objects |-> Current(o)],
            log <- {[tx |-> c.tx, writes |-> c.writes] : c \in committed},
            Transactions <- Txs

\* The CAS of tx_state is the commit of TxMemory, although the objects get
\* their new contents one by one afterwards, from whoever comes first
\* (Descriptor_redo_lock.h:672-695, 888-913).
ImplementsTxMemory == Memory!Spec

-------------------------------------------------------------------------------
(* What a comment of the source says.                                        *)

\* "This method tries to increment the counter and returns true only if
\* validation can be skipped" (ConflictDetector.h:92-94): what a transaction
\* read is current when it skips the validation.
SkippedValidationIsSafe == Acyclic(committed)
===============================================================================
