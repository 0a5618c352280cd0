--------------------------------- MODULE Rstm ---------------------------------
(*****************************************************************************)
(* The RSTM transactional memory of Descriptor_rstm.h, with visible or       *)
(* invisible reads and eager or lazy acquisition.                            *)
(*                                                                           *)
(* A shared object has a header: a pointer to a version and a bit that says  *)
(* that the version is owned by the transaction that made it. A version's    *)
(* m_next is the version it was cloned from. Whether an owned object has the *)
(* new contents or the old is decided by tx_state of the owner's descriptor, *)
(* one word that transactions CAS to commit and to kill each other.          *)
(*                                                                           *)
(* A step is one access to a shared word. The contention manager is any: it  *)
(* answers TRUE or FALSE. A transaction is any sequence of opens. A version  *)
(* is named by the attempt that made it and by whether it is the attempt's   *)
(* first or second of the object, and is never reused: the epochs of the     *)
(* reclaimer keep memory that a transaction may still reach.                 *)
(*****************************************************************************)
EXTENDS Naturals, Sequences, FiniteSets, TxHistory

CONSTANTS
  Threads,             \* threads, each with its descriptor
  Objects,             \* shared objects
  NoThread,            \* the owner of the versions objects start with
  MaxAttempts,         \* bound on the attempts of a thread
  MaxOpens             \* bound on the objects that an attempt opens

ASSUME BoundAssumption == MaxAttempts \in Nat /\ MaxOpens \in Nat
ASSUME NoThreadAssumption == NoThread \notin Threads
ASSUME ObjectsAssumption == Objects # {}

\* A transaction that was killed and has not noticed may acquire an object
\* twice, if its enemy cleaned the header in between.
Initial == <<NoThread, 0, 1>>
Versions == (Threads \X (1 .. MaxAttempts) \X (1 .. 2)) \cup {Initial}
NullVersion == <<NoThread, 1, 1>>

VARIABLES
  \* Shared memory.
  header,              \* m_payload of every object: its version and its ownership bit
  next,                \* m_next of every version of every object
  readers,             \* m_readers of every object
  txState,             \* tx_state of every descriptor
  \* Every thread.
  pc,                  \* its next statement
  mode,                \* isVisible and isLazy
  attempt,             \* the number of its attempt
  loc,                 \* the locals of open_RO, open_RW and commit
  invisReads,          \* invisibleReads: the objects and the versions read, in order
  visReads,            \* visibleReads
  writes,              \* eagerWrites or lazyWrites, in order
  \* History.
  seen,                \* the versions that the open calls of an attempt returned
  began,               \* the transactions committed when it began
  committed            \* the committed transactions

memory == <<header, next, readers, txState>>
lists == <<invisReads, visReads, writes>>
history == <<seen, began, committed>>
self == <<mode, attempt>>
vars == <<memory, pc, self, loc, lists, history>>

Header == [ver : Versions, owned : BOOLEAN]
Unowned(v) == [ver |-> v, owned |-> FALSE]
Owned(v) == [ver |-> v, owned |-> TRUE]
OwnerOf(v) == v[1]

NoLocals ==
  [obj |-> CHOOSE o \in Objects : TRUE, kind |-> "RO", snap |-> Unowned(Initial),
   older |-> NullVersion, state |-> "COMMITTED", newer |-> NullVersion,
   todo |-> <<>>, pending |-> {}, then |-> "work"]

\* The program starts every thread with the same validation string, but the
\* bitmap has 32 bits: a thread with a larger id reads invisibly.
Init ==
  /\ header = [o \in Objects |-> Unowned(Initial)]
  /\ next = [o \in Objects |-> [v \in Versions |-> NullVersion]]
  /\ readers = [o \in Objects |-> {}]
  /\ txState = [t \in Threads |-> "COMMITTED"]
  /\ pc = [t \in Threads |-> "idle"]
  /\ \E lazy \in BOOLEAN : \E visible \in [Threads -> BOOLEAN] :
       mode = [t \in Threads |-> [isVisible |-> visible[t], isLazy |-> lazy]]
  /\ attempt = [t \in Threads |-> 0]
  /\ loc = [t \in Threads |-> NoLocals]
  /\ invisReads = [t \in Threads |-> <<>>]
  /\ visReads = [t \in Threads |-> {}]
  /\ writes = [t \in Threads |-> <<>>]
  /\ seen = [t \in Threads |-> {}]
  /\ began = [t \in Threads |-> {}]
  /\ committed = {}

Elements(s) == {s[i] : i \in DOMAIN s}

\* The transaction that thread t runs, and the version it makes of object o.
Tx(t) == <<t, attempt[t], 1>>
NewVersion(t, o) ==
  <<t, attempt[t], IF \E w \in Elements(writes[t]) : w.obj = o THEN 2 ELSE 1>>

GoTo(t, label) == pc' = [pc EXCEPT ![t] = label]

\* abort: the transaction throws Aborted, which unwinds to the cleanup.
Abort(t) ==
  /\ txState' = [txState EXCEPT ![t] = "ABORTED"]
  /\ loc' = [loc EXCEPT ![t] = NoLocals]
  /\ seen' = [seen EXCEPT ![t] = {}]
  /\ GoTo(t, "restore")
  /\ UNCHANGED <<header, next, readers, self, lists, began, committed>>

\* The objects and versions that verifyLazyWrites checks.
Pairs(list) == [i \in DOMAIN list |-> <<list[i].obj, list[i].old>>]
LazyPairs(t) == IF mode[t].isLazy THEN Pairs(writes[t]) ELSE <<>>

\* The statement that uses the version an open chose, by kind of open.
Use(t) ==
  CASE loc[t].kind = "RO" /\ mode[t].isVisible  -> "install"
    [] loc[t].kind = "RO" /\ ~mode[t].isVisible -> "insert"
    [] loc[t].kind = "RW" /\ mode[t].isLazy     -> "clone"
    [] loc[t].kind = "RW" /\ ~mode[t].isLazy    -> "acquire"

\* verifySelf fails: an enemy has killed the transaction.
Killed(t) == txState[t] = "ABORTED"

\* swapHeader succeeds.
SwapsAlways(o, expected) == TRUE         \* mutant: a store
Swaps(o, expected) == header[o] = expected

\* open_RW of an eager transaction leaves the header of an object whose owner
\* has ended to its own CAS; the other opens clean it first.
CleansFirst(t) == loc[t].kind = "RO" \/ mode[t].isLazy

-------------------------------------------------------------------------------
(* beginTransaction, and the first lines of open_RO and open_RW.             *)

Begin(t) ==
  /\ pc[t] = "idle"
  /\ attempt[t] < MaxAttempts
  /\ attempt' = [attempt EXCEPT ![t] = @ + 1]
  /\ txState' = [txState EXCEPT ![t] = "ACTIVE"]
  /\ began' = [began EXCEPT ![t] = {c.tx : c \in committed}]
  /\ GoTo(t, "work")
  /\ UNCHANGED <<header, next, readers, mode, loc, lists, seen, committed>>

\* An object of lazyWrites is returned at once, and changes nothing.
Open(t, o, kind) ==
  /\ pc[t] = "work"
  /\ Cardinality(seen[t]) < MaxOpens
  /\ mode[t].isLazy => \A w \in Elements(writes[t]) : w.obj # o
  /\ IF Killed(t)
     THEN Abort(t)
     ELSE /\ loc' = [loc EXCEPT ![t] = [NoLocals EXCEPT !.obj = o, !.kind = kind]]
          /\ GoTo(t, "load")
          /\ UNCHANGED <<memory, self, lists, history>>

\* onContention, then verifySelf, then the loop again.
Contend(t) ==
  /\ pc[t] = "contend"
  /\ IF Killed(t)
     THEN Abort(t)
     ELSE /\ loc' = [loc EXCEPT ![t] = [NoLocals EXCEPT !.obj = loc[t].obj, !.kind = loc[t].kind]]
          /\ GoTo(t, "load")
          /\ UNCHANGED <<memory, self, lists, history>>

-------------------------------------------------------------------------------
(* The consistent snapshot, and what to do about an owner.                   *)

Load(t) ==
  /\ pc[t] = "load"
  /\ LET snap == header[loc[t].obj]
     IN  /\ loc' = [loc EXCEPT ![t].snap = snap, ![t].newer = snap.ver]
         /\ GoTo(t, IF snap.owned THEN "look" ELSE Use(t))
  /\ UNCHANGED <<memory, self, lists, history>>

\* m_next of the new version and tx_state of its owner. An m_next that is
\* cleared between the two was cleared after the header changed.
Look(t) ==
  /\ pc[t] = "look"
  /\ LET v == loc[t].newer
     IN  loc' = [loc EXCEPT ![t].older = next[loc[t].obj][v],
                            ![t].state = txState[OwnerOf(v)]]
  /\ GoTo(t, "recheck")
  /\ UNCHANGED <<memory, self, lists, history>>

\* Takes the older version and cleans the header first if this open must.
ChooseOlder(t) ==
  /\ loc' = [loc EXCEPT ![t].newer = loc[t].older]
  /\ GoTo(t, IF CleansFirst(t) THEN "cleanAbort" ELSE "acquire")

\* The header still is what it was when the two were loaded.
IsAnySnapshot(t) == TRUE         \* mutant: it is not loaded again
IsSnapshot(t) == header[loc[t].obj] = loc[t].snap

Recheck(t) ==
  /\ pc[t] = "recheck"
  /\ LET l      == loc[t]
         isMine == OwnerOf(l.newer) = t
     IN  CASE ~IsSnapshot(t) ->
                GoTo(t, "load") /\ UNCHANGED loc
           [] IsSnapshot(t) /\ l.state = "ACTIVE" /\ isMine ->
                GoTo(t, "work") /\ loc' = [loc EXCEPT ![t] = NoLocals]
           [] IsSnapshot(t) /\ l.state = "ACTIVE" /\ ~isMine ->
                GoTo(t, "decide") /\ UNCHANGED loc
           [] IsSnapshot(t) /\ l.state = "ABORTED" ->
                ChooseOlder(t)
           [] IsSnapshot(t) /\ l.state = "COMMITTED" ->
                /\ GoTo(t, IF CleansFirst(t) THEN "cleanCommit" ELSE "acquire")
                /\ UNCHANGED loc
  /\ UNCHANGED <<memory, self, lists, history>>

\* shouldAbort answers, and on TRUE the owner is killed by a CAS.
GiveWay(t) ==
  /\ pc[t] = "decide"
  /\ GoTo(t, "contend")
  /\ UNCHANGED <<memory, self, loc, lists, history>>

KillsAnyway(t) == TRUE         \* mutant: a store
Kills(t) == txState[OwnerOf(loc[t].newer)] = "ACTIVE"

KillOwner(t) ==
  /\ pc[t] = "decide"
  /\ LET owner == OwnerOf(loc[t].newer)
     IN  IF Kills(t)
         THEN txState' = [txState EXCEPT ![owner] = "ABORTED"] /\ ChooseOlder(t)
         ELSE GoTo(t, "contend") /\ UNCHANGED <<txState, loc>>
  /\ UNCHANGED <<header, next, readers, self, lists, history>>

\* cleanOnAbort: on failure the header may be as wanted all the same.
CleanAbort(t) ==
  /\ pc[t] = "cleanAbort"
  /\ LET l    == loc[t]
         want == Unowned(l.newer)
     IN  /\ header' = [header EXCEPT ![l.obj] = IF Swaps(l.obj, l.snap) THEN want ELSE @]
         /\ GoTo(t, IF header'[l.obj] = want THEN Use(t) ELSE "contend")
  /\ UNCHANGED <<next, readers, txState, self, loc, lists, history>>

\* cleanOnCommit, which clears m_next when its CAS succeeds.
CleanCommit(t) ==
  /\ pc[t] = "cleanCommit"
  /\ LET l    == loc[t]
         want == Unowned(l.newer)
     IN  /\ header' = [header EXCEPT ![l.obj] = IF Swaps(l.obj, l.snap) THEN want ELSE @]
         /\ next' = [next EXCEPT ![l.obj][l.newer] =
                        IF Swaps(l.obj, l.snap) THEN NullVersion ELSE @]
         /\ GoTo(t, IF header'[l.obj] = want THEN Use(t) ELSE "contend")
  /\ UNCHANGED <<readers, txState, self, loc, lists, history>>

-------------------------------------------------------------------------------
(* Reading.                                                                  *)

\* Goes on to check that the pairs of todo are current, and then to label.
Validating(t, todo, label) ==
  /\ loc' = [loc EXCEPT ![t].todo = todo, ![t].pending = {},
                        ![t].then = IF todo = <<>> THEN "work" ELSE label]
  /\ GoTo(t, IF todo = <<>> THEN label ELSE "validate")

InstallUnrecorded(t) ==         \* mutant: visibleReads does not get the object
  /\ pc[t] = "install"
  /\ readers' = [readers EXCEPT ![loc[t].obj] = @ \cup {t}]
  /\ GoTo(t, "check")
  /\ UNCHANGED <<header, next, txState, self, loc, lists, history>>

InstallVisibleReader(t) ==
  /\ pc[t] = "install"
  /\ readers' = [readers EXCEPT ![loc[t].obj] = @ \cup {t}]
  /\ visReads' = [visReads EXCEPT ![t] = @ \cup {loc[t].obj}]
  /\ GoTo(t, "check")
  /\ UNCHANGED <<header, next, txState, self, loc, invisReads, writes, history>>

\* A visible reader aborts if the header changed before it was in the bitmap.
IsInTime(t) == header[loc[t].obj] = Unowned(loc[t].newer)

CheckHeader(t) ==
  /\ pc[t] = "check"
  /\ IF ~IsInTime(t)
     THEN Abort(t)
     ELSE /\ Validating(t, LazyPairs(t), "opened")
          /\ UNCHANGED <<memory, self, lists, history>>

\* addValidateInvisRead: it stops at an entry of the object itself.
InsertInvisRead(t) ==
  /\ pc[t] = "insert"
  /\ LET o     == loc[t].obj
         known == {i \in DOMAIN invisReads[t] : invisReads[t][i][1] = o}
         upTo  == IF known = {} THEN Len(invisReads[t])
                  ELSE CHOOSE i \in known : \A k \in known : i <= k
     IN  /\ invisReads' = [invisReads EXCEPT ![t] =
               IF known = {} THEN Append(@, <<o, loc[t].newer>>) ELSE @]
         /\ Validating(t, SubSeq(invisReads[t], 1, upTo) \o LazyPairs(t), "opened")
  /\ UNCHANGED <<memory, self, visReads, writes, history>>

-------------------------------------------------------------------------------
(* Writing.                                                                  *)

\* The version that is cloned.
CloneOfOlder(t) == loc[t].older         \* mutant: NULL if nobody owns the object
Cloned(t) == loc[t].newer

\* Eager: the CAS of the header to the new version, owned.
Acquire(t) ==
  /\ pc[t] = "acquire"
  /\ LET o == loc[t].obj
         new == NewVersion(t, o)
     IN  IF Swaps(o, loc[t].snap)
         THEN /\ header' = [header EXCEPT ![o] = Owned(new)]
              /\ next' = [next EXCEPT ![o][new] = Cloned(t)]
              /\ writes' = [writes EXCEPT ![t] = Append(@,
                    [obj |-> o, old |-> Cloned(t), new |-> new, acquired |-> TRUE])]
              /\ GoTo(t, "snapReaders")
         ELSE GoTo(t, "contend") /\ UNCHANGED <<header, next, writes>>
  /\ UNCHANGED <<readers, txState, self, loc, invisReads, visReads, history>>

\* shouldAbortAll answers FALSE to the readers of an object about to be
\* acquired: the open contends, and a commit waits unless it is killed.
YieldToReaders(t) ==
  \/ /\ pc[t] = "acquire"
     /\ GoTo(t, "contend")
     /\ UNCHANGED <<memory, self, loc, lists, history>>
  \/ /\ pc[t] = "acquireLazily"
     /\ \E w \in Elements(writes[t]) : ~w.acquired
     /\ Killed(t)
     /\ Abort(t)

\* Lazy: the new version is private until the commit.
CloneLazily(t) ==
  /\ pc[t] = "clone"
  /\ writes' = [writes EXCEPT ![t] = Append(@,
        [obj |-> loc[t].obj, old |-> Cloned(t), new |-> NewVersion(t, loc[t].obj),
         acquired |-> FALSE])]
  /\ Validating(t, invisReads[t] \o Pairs(writes'[t]), "opened")
  /\ UNCHANGED <<memory, self, invisReads, visReads, history>>

\* abortVisibleReaders: one load of the bitmap, then the readers one by one, in
\* any order.
NoVictims(t) == {}         \* mutant
Victims(t) == readers[loc[t].obj] \ {t}

\* Goes on to kill the victims, and after the last of them to what follows the
\* acquisition: the next lazy write, or the validation of an eager open.
KillingReaders(t, victims) ==
  CASE victims # {} ->
         loc' = [loc EXCEPT ![t].pending = victims] /\ GoTo(t, "killReaders")
    [] victims = {} /\ mode[t].isLazy ->
         loc' = [loc EXCEPT ![t] = NoLocals] /\ GoTo(t, "acquireLazily")
    [] victims = {} /\ ~mode[t].isLazy ->
         Validating(t, invisReads[t], "opened")

SnapReaders(t) ==
  /\ pc[t] = "snapReaders"
  /\ KillingReaders(t, Victims(t))
  /\ UNCHANGED <<memory, self, lists, history>>

KillReader(t) ==
  /\ pc[t] = "killReaders"
  /\ \E r \in loc[t].pending :
       /\ txState' = [txState EXCEPT ![r] = IF @ = "ACTIVE" THEN "ABORTED" ELSE @]
       /\ KillingReaders(t, loc[t].pending \ {r})
  /\ UNCHANGED <<header, next, readers, self, lists, history>>

-------------------------------------------------------------------------------
(* Validation, and the end of an open.                                       *)

isCurrent(t, o, expected) ==
  LET payload == header[o]
  IN  \/ payload = Unowned(expected)
      \/ OwnerOf(payload.ver) = t /\ next[o][payload.ver] = expected

Validate(t) ==
  /\ pc[t] = "validate"
  /\ LET todo == loc[t].todo
     IN  IF isCurrent(t, Head(todo)[1], Head(todo)[2])
         THEN /\ Validating(t, Tail(todo), loc[t].then)
              /\ UNCHANGED <<memory, self, lists, history>>
         ELSE Abort(t)

\* verifySelf, and the version goes to the program. A write is a read as well:
\* the new version is a copy of the old.
Opened(t) ==
  /\ pc[t] = "opened"
  /\ IF Killed(t)
     THEN Abort(t)
     ELSE /\ seen' = [seen EXCEPT ![t] = @ \cup {<<loc[t].obj, loc[t].newer>>}]
          /\ loc' = [loc EXCEPT ![t] = NoLocals]
          /\ GoTo(t, "work")
          /\ UNCHANGED <<memory, self, lists, began, committed>>

-------------------------------------------------------------------------------
(* commit and cleanup.                                                       *)

Commit(t) ==
  /\ pc[t] = "work"
  /\ GoTo(t, IF txState[t] # "ACTIVE" THEN "restore"
             ELSE IF mode[t].isLazy THEN "acquireLazily" ELSE "verify")
  /\ UNCHANGED <<memory, self, loc, lists, history>>

\* acquireLazily: the CAS from the version that was cloned, object by object.
AcquireLazily(t) ==
  /\ pc[t] = "acquireLazily"
  /\ LET left == {i \in DOMAIN writes[t] : ~writes[t][i].acquired}
         i    == CHOOSE k \in left : \A m \in left : k <= m
         w    == writes[t][i]
     IN  CASE left = {} ->
                GoTo(t, "verify") /\ UNCHANGED <<memory, self, loc, lists, history>>
           [] left # {} /\ Swaps(w.obj, Unowned(w.old)) ->
                /\ header' = [header EXCEPT ![w.obj] = Owned(w.new)]
                /\ next' = [next EXCEPT ![w.obj][w.new] = w.old]
                /\ writes' = [writes EXCEPT ![t][i].acquired = TRUE]
                /\ loc' = [loc EXCEPT ![t].obj = w.obj]
                /\ GoTo(t, "snapReaders")
                /\ UNCHANGED <<readers, txState, self, invisReads, visReads, history>>
           [] left # {} /\ ~Swaps(w.obj, Unowned(w.old)) ->
                Abort(t)

VerifyNothing(t) ==         \* mutant
  /\ pc[t] = "verify"
  /\ GoTo(t, "cas")
  /\ UNCHANGED <<memory, self, loc, lists, history>>

VerifyInvisReads(t) ==
  /\ pc[t] = "verify"
  /\ Validating(t, invisReads[t], "cas")
  /\ UNCHANGED <<memory, self, lists, history>>

\* The commit point.
CommitsAlways(t) == TRUE         \* mutant: a store
Commits(t) == txState[t] = "ACTIVE"

CommitCas(t) ==
  /\ pc[t] = "cas"
  /\ IF Commits(t)
     THEN /\ txState' = [txState EXCEPT ![t] = "COMMITTED"]
          /\ committed' = committed \cup
               {[tx |-> Tx(t), reads |-> seen[t], after |-> began[t],
                 writes |-> {<<w.obj, w.old>> : w \in Elements(writes[t])}]}
     ELSE UNCHANGED <<txState, committed>>
  /\ loc' = [loc EXCEPT ![t] = NoLocals]
  /\ seen' = [seen EXCEPT ![t] = {}]
  /\ GoTo(t, "restore")
  /\ UNCHANGED <<header, next, readers, self, lists, began>>

\* cleanupEagerWrites or cleanupLazyWrites, one header at a time.
RestoresCommitted(t, w) ==         \* mutant: nothing is restored after an abort
  txState[t] = "COMMITTED" /\ Swaps(w.obj, Owned(w.new))
Restores(t, w) == w.acquired /\ Swaps(w.obj, Owned(w.new))

RestoreHeader(t) ==
  /\ pc[t] = "restore"
  /\ writes[t] # <<>>
  /\ LET w    == Head(writes[t])
         keeps == IF txState[t] = "COMMITTED" THEN w.new ELSE w.old
     IN  /\ header' = [header EXCEPT ![w.obj] = IF Restores(t, w) THEN Unowned(keeps) ELSE @]
         /\ next' = [next EXCEPT ![w.obj][w.new] =
                        IF Restores(t, w) /\ txState[t] = "COMMITTED" THEN NullVersion ELSE @]
  /\ writes' = [writes EXCEPT ![t] = Tail(@)]
  /\ UNCHANGED <<readers, txState, pc, self, loc, invisReads, visReads, history>>

\* cleanupVisReads, one object at a time.
RemoveVisibleReader(t) ==
  /\ pc[t] = "restore"
  /\ writes[t] = <<>>
  /\ \E o \in visReads[t] :
       /\ readers' = [readers EXCEPT ![o] = @ \ {t}]
       /\ visReads' = [visReads EXCEPT ![t] = @ \ {o}]
  /\ UNCHANGED <<header, next, txState, pc, self, loc, invisReads, writes, history>>

EndTransaction(t) ==
  /\ pc[t] = "restore"
  /\ writes[t] = <<>> /\ visReads[t] = {}
  /\ invisReads' = [invisReads EXCEPT ![t] = <<>>]
  /\ seen' = [seen EXCEPT ![t] = {}]
  /\ began' = [began EXCEPT ![t] = {}]
  /\ GoTo(t, "idle")
  /\ UNCHANGED <<memory, self, loc, visReads, writes, committed>>

-------------------------------------------------------------------------------

Thread(t) ==
  \/ Begin(t)
  \/ \E o \in Objects, kind \in {"RO", "RW"} : Open(t, o, kind)
  \/ Contend(t) \/ Load(t) \/ Look(t) \/ Recheck(t) \/ GiveWay(t) \/ KillOwner(t)
  \/ CleanAbort(t) \/ CleanCommit(t)
  \/ InstallVisibleReader(t) \/ CheckHeader(t) \/ InsertInvisRead(t)
  \/ Acquire(t) \/ YieldToReaders(t) \/ CloneLazily(t)
  \/ SnapReaders(t) \/ KillReader(t)
  \/ Validate(t) \/ Opened(t)
  \/ Commit(t) \/ AcquireLazily(t) \/ VerifyInvisReads(t) \/ CommitCas(t)
  \/ RestoreHeader(t) \/ RemoveVisibleReader(t) \/ EndTransaction(t)

Next == \E t \in Threads : Thread(t)

Spec == Init /\ [][Next]_vars
-------------------------------------------------------------------------------
(* Safety.                                                                   *)

Labels ==
  {"idle", "work", "load", "look", "recheck", "decide", "contend",
   "cleanAbort", "cleanCommit", "install", "check", "insert",
   "acquire", "clone", "snapReaders", "killReaders", "validate", "opened",
   "acquireLazily", "verify", "cas", "restore"}

TypeOK ==
  /\ header \in [Objects -> Header]
  /\ next \in [Objects -> [Versions -> Versions \cup {NullVersion}]]
  /\ readers \in [Objects -> SUBSET Threads]
  /\ txState \in [Threads -> {"ACTIVE", "ABORTED", "COMMITTED"}]
  /\ pc \in [Threads -> Labels]
  /\ mode \in [Threads -> [isVisible : BOOLEAN, isLazy : BOOLEAN]]
  /\ attempt \in [Threads -> 0 .. MaxAttempts]
  /\ \A w \in UNION {Elements(writes[t]) : t \in Threads} :
       w \in [obj : Objects, old : Versions, new : Versions, acquired : BOOLEAN]
  /\ visReads \in [Threads -> SUBSET Objects]
  /\ began \in [Threads -> SUBSET Versions]

\* The attempt of t as a transaction that ends now, without writing.
Live(t) == [tx |-> Tx(t), reads |-> seen[t], after |-> began[t], writes |-> {}]

\* Opacity: the committed transactions have a serial order, consistent with
\* real time, in which each read the last versions written before it; and so
\* do they with any transaction that still runs, whether or not it will commit
\* and whether or not an enemy has killed it: a program never computes on an
\* inconsistent view of the objects (Descriptor_rstm.h:783-876, 1093-1457).
Opacity ==
  OpaqueHistory(committed, {Live(t) : t \in {u \in Threads : seen[u] # {}}}, Initial)

\* An owned header leads to the transaction that owns it, and not to a later
\* one that reuses the descriptor: tx_state of the owner is the state of the
\* transaction that made the version, and it will restore the header itself if
\* nobody else does (Descriptor_rstm.h:743-781, 1128-1143).
OwnerIsItsTransaction ==
  \A o \in Objects : header[o].owned =>
    \E t \in Threads :
      /\ pc[t] # "idle"
      /\ \E w \in Elements(writes[t]) :
            /\ w.obj = o /\ w.acquired
            /\ w.new = header[o].ver /\ w.old = next[o][header[o].ver]

\* What the asserts say at the use of an older version (Descriptor_rstm.h:1200,
\* 1379): m_next of a version is not cleared under a transaction that read it
\* from an owned header.
OlderVersionIsThere ==
  \A t \in Threads :
    pc[t] \in {"cleanAbort", "acquire", "clone", "install", "insert"} =>
      loc[t].newer # NullVersion

\* What a live transaction read visibly stays the current version until the
\* transaction is killed: if another owns the object, it has still to go
\* through the readers and kill this one (Descriptor_rstm.h:1221-1234,
\* 1429-1442).
VisibleReadIsProtected ==
  \A t \in Threads : \A r \in seen[t] :
    txState[t] = "ACTIVE" /\ r[1] \in visReads[t] =>
      LET h == header[r[1]]
          w == OwnerOf(h.ver)
      IN  \/ h = Unowned(r[2])
          \/ h.owned /\ w = t /\ next[r[1]][h.ver] = r[2]
          \/ h.owned /\ loc[w].obj = r[1] /\ pc[w] = "snapReaders"
          \/ h.owned /\ loc[w].obj = r[1] /\ pc[w] = "killReaders" /\ t \in loc[w].pending

\* A thread between transactions is in no object's bitmap of readers, so that
\* a writer kills a thread for what it reads and not for what it once read.
NoReaderLeftBehind ==
  \A t \in Threads, o \in Objects :
    t \in readers[o] => o \in visReads[t] /\ pc[t] # "idle"

-------------------------------------------------------------------------------
(* Implementation of TxMemory.                                               *)

\* The contents of an object: those of its version, unless its owner has not
\* committed.
Current(o) ==
  LET h == header[o]
  IN  IF h.owned /\ txState[OwnerOf(h.ver)] # "COMMITTED" THEN next[o][h.ver] ELSE h.ver

Memory == INSTANCE TxMemory WITH
            mem <- [o \in Objects |-> Current(o)],
            log <- {[tx |-> c.tx, writes |-> c.writes] : c \in committed},
            Transactions <- Versions

\* The CAS of tx_state is the commit of TxMemory: all objects a transaction
\* wrote change at once, from the versions it cloned, and no other step -
\* acquiring, killing, cleaning up after others, restoring - changes the
\* contents of an object (Descriptor_rstm.h:743-807, 897-1028, 1267-1457).
ImplementsTxMemory == Memory!Spec
===============================================================================
