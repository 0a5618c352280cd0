------------------------ MODULE RedoLockOpacity_proofs ------------------------
(*****************************************************************************)
(* A theorem about RedoLock, for every number of threads, objects and        *)
(* attempts: the transactions are opaque, unless lazy ones skip validations  *)
(* on the word of the commit counter. It rests on the invariant of           *)
(* RedoLock_proofs and on what that module says of the contents of objects.  *)
(*                                                                           *)
(* The serial order is that of numbers drawn from a clock, as in the proof   *)
(* about Rstm: a transaction draws one when it begins to validate, and       *)
(* another when it begins its last validation. What a transaction may still  *)
(* read without another open counts as read (Sight).                         *)
(*****************************************************************************)
EXTENDS RedoLock_proofs

-------------------------------------------------------------------------------
(* The history, and how it relates to the objects.                           *)

\* The modes in which it holds.
NoLazyCounting == \A m \in Modes : ~(m.isLazy /\ m.counts)

\* Contents v of object o are the initial ones or were made by a committed
\* transaction; a committed transaction has replaced them; v names a committed
\* transaction.
Made(o, v) == v = Initial \/ \E c \in committed : c.tx = v /\ \E w \in c.writes : w[1] = o
Gone(o, v) == \E c \in committed : <<o, v>> \in c.writes
IsCommitted(v) == \E c \in committed : c.tx = v

\* What counts as the contents of object o is a log. A reader that knows version
\* v of it may read it in place.
Done(o) == meta[o].owner = Locked \/ (meta[o].owner \in Threads /\ txState[meta[o].owner] = "COMMITTED")
Clean(o, v) == meta[o].ver = v /\ ~Done(o)

\* Thread t has begun, or passed, the validation that ends an open; and the one
\* before its commit, when it owns all it writes.
Passing(t) == pc[t] = "opened" \/ (pc[t] = "validate" /\ loc[t].then = "opened")
AtEnd(t) == pc[t] \in {"force", "cas"} \/ (pc[t] = "validate" /\ loc[t].then \in {"force", "cas"})
Deciding(t) == txState[t] = "ACTIVE" /\ AtEnd(t)

\* What the validation of thread t has still to check; contents c of object o
\* wait for it.
Unchecked(t) == IF pc[t] = "validate" THEN Elements(loc[t].todo) ELSE {}
Waiting(t, o, c) == \E e \in Unchecked(t) : e[1] = o /\ Fresh(o, e[2], c)

\* A committed transaction has a name of its own, and what it read, replaced and
\* began after is of committed transactions.
LogOK ==
  \A c \in committed :
    /\ \A d \in committed : c.tx = d.tx => c = d
    /\ \A w \in c.writes : w = <<w[1], w[2]>> /\ Made(w[1], w[2])
    /\ \A r \in c.reads : Made(r[1], r[2])
    /\ \A v \in c.after : IsCommitted(v)

\* The contents of an object were committed, and nobody has replaced them; what
\* stands in place was committed as well.
ContentsOK ==
  \A o \in Objects : Made(o, Current(o)) /\ ~Gone(o, Current(o)) /\ Made(o, data[o])

\* What the attempt of thread t has seen, cloned or loaded was committed.
PastOK(t) ==
  /\ pc[t] \in {"acquire", "checkField"} => Made(loc[t].obj, loc[t].copy)
  /\ \A w \in Elements(writes[t]) : Made(w.obj, w.read)
  /\ \A r \in seen[t] : Made(r[1], r[2])
  /\ \A v \in began[t] : IsCommitted(v)

\* The versions in invisibleReads are not of the future; a field is loaded from
\* an object that is there; an open for writing returns the clone.
ListOK(t) ==
  /\ pc[t] = "idle" \/ loc[t].kind = "UN" => invisReads[t] = <<>> /\ seen[t] = {}
  /\ \A e \in Elements(invisReads[t]) : e[2] <= meta[e[1]].ver
  /\ pc[t] = "checkField" => \E e \in Elements(invisReads[t]) :
       loc[t].obj = e[1] /\ loc[t].snap = Unowned(e[2]) /\ Fresh(e[1], e[2], loc[t].copy)
  /\ EndsOpen(t) /\ loc[t].kind = "RW" =>
       \E w \in Elements(writes[t]) : w.obj = loc[t].obj /\ w.read = loc[t].copy

\* What an active transaction has seen is in one of its lists; and if it writes
\* the object, it is what it cloned, or the validation will find out.
SeenOK(t) ==
  txState[t] = "ACTIVE" => \A r \in seen[t] :
    /\ \/ \E e \in Elements(invisReads[t]) : e[1] = r[1] /\ Fresh(r[1], e[2], r[2])
       \/ \E w \in Elements(writes[t]) : w.obj = r[1] /\ Fresh(r[1], w.ver, r[2])
    /\ pc[t] \notin {"count", "cache"} => \A w \in Elements(writes[t]) : w.obj = r[1] =>
         Fresh(r[1], w.ver, r[2]) \/ Waiting(t, r[1], r[2])

\* With the commit counter: while it is what thread t remembers, what t has in
\* its list is still there. The owner of an object that t knows remembers
\* a count that is not older, and does not commit before the counter has moved on.
CountOK(t) ==
  mode.counts /\ ~Ended(t) =>
    /\ cached[t] = counter => \A e \in Elements(invisReads[t]) \ Unchecked(t) : Clean(e[1], e[2])
    /\ \A e \in Elements(invisReads[t]) \ Unchecked(t), u \in Threads \ {t} :
         meta[e[1]].owner = u /\ txState[u] = "ACTIVE" /\ pc[u] \notin {"count", "cache"} =>
           cached[t] <= cached[u]
    /\ Deciding(t) /\ writes[t] # <<>> => cached[t] < counter

\* A transaction that has not ended, or that was killed, is in the history of nobody.
LiveOK(t) == seen[t] # {} => ~IsCommitted(Tx(t))

\* Only the commit counter is looked at, and moved on.
ModeOK(t) == pc[t] \in {"count", "cache", "tryCommit"} => mode.counts

LocalOK(t) == ModeOK(t) /\ PastOK(t) /\ ListOK(t) /\ SeenOK(t) /\ CountOK(t) /\ LiveOK(t)

SeenType == seen \in [Threads -> SUBSET (Objects \X Txs)]

HistInv == SeenType /\ ~(mode.isLazy /\ mode.counts) /\ LogOK /\ ContentsOK /\ \A t \in Threads : LocalOK(t)

-------------------------------------------------------------------------------
(* What a step changes.                                                      *)

\* A step of thread u changes variable x at u only.
Alone(new, old, u) == \A t \in Threads \ {u} : new[t] = old[t]

\* The state of others stays.
LEMMA OwnState ==
  ASSUME Inv, SeenType, NEW u \in Threads, Thread(u)
  PROVE  /\ Alone(pc', pc, u) /\ Alone(loc', loc, u) /\ Alone(attempt', attempt, u)
         /\ Alone(cached', cached, u) /\ Alone(invisReads', invisReads, u) /\ Alone(writes', writes, u)
         /\ Alone(seen', seen, u) /\ Alone(began', began, u) /\ mode' = mode
<1>t. /\ pc \in [Threads -> Labels] /\ attempt \in [Threads -> 0 .. MaxAttempts] /\ loc \in [Threads -> Locals]
      /\ writes \in [Threads -> Seq(Entry)] /\ cached \in [Threads -> 0 .. counter]
      /\ invisReads \in [Threads -> Seq(Pair)] /\ began \in [Threads -> SUBSET Txs]
      /\ seen \in [Threads -> SUBSET (Objects \X Txs)]
  BY Types DEF Inv, TypeInv, HistoryOK, SeenType
<1> USE <1>t DEF Alone, Abort, GoTo, OnlyGoTo, Validating, shared, private, history
<1>1. CASE Begin(u) \/ KillOwner(u) \/ CleanOnAbort(u)
  BY <1>1 DEF Begin, KillOwner, CleanOnAbort
<1>2. CASE \E o \in Objects, kind \in {"RO", "RW"} : Open(u, o, kind)
  BY <1>2 DEF Open
<1>3. CASE (\E o \in Objects : OpenUn(u, o)) \/ Contend(u) \/ Validate(u)
  BY <1>3 DEF OpenUn, Contend, Validate
<1>4. CASE CheckCounter(u) \/ CacheCounter(u) \/ LookAtOwner(u) \/ Recheck(u) \/ GiveWay(u)
  BY <1>4 DEF CheckCounter, CacheCounter, LookAtOwner, Recheck, GiveWay
<1>5. CASE Load(u)
  BY <1>5 DEF Load, InsertInvisRead
<1>6. CASE Lock(u) \/ Redo(u) \/ ReleaseLock(u) \/ ReadField(u) \/ CheckField(u) \/ Release(u) \/ Clone(u) \/ Opened(u)
  BY <1>6 DEF Lock, Redo, ReleaseLock, ReadField, CheckField, Release, Clone, Opened
<1>7. CASE Acquire(u)
  BY <1>7 DEF Acquire
<1>8. CASE Commit(u) \/ TryCommit(u) \/ ForceCommit(u)
  BY <1>8 DEF Commit, Acquired, VerifyInvisReads, TryCommit, ForceCommit
<1>9. CASE AcquireLazily(u)
  BY <1>9 DEF AcquireLazily, Acquired, VerifyInvisReads
<1>10. CASE CommitCas(u) \/ RestoreObject(u) \/ EndTransaction(u)
  BY <1>10 DEF CommitCas, RestoreObject, EndTransaction
<1>11. QED
  BY <1>1, <1>2, <1>3, <1>4, <1>5, <1>6, <1>7, <1>8, <1>9, <1>10
  DEF Thread, getReadable, getWritable, open_un, commit, cleanup, OpenTx, OpenLoop

\* The entry that acquireLazily takes is the first that is not acquired.
LEMMA FirstUnacquired ==
  ASSUME Inv, NEW u \in Threads, pc[u] = "acquireLazily",
         NEW i, i = CHOOSE k \in {j \in DOMAIN writes[u] : ~writes[u][j].acquired} :
                      \A m \in {j \in DOMAIN writes[u] : ~writes[u][j].acquired} : k <= m
  PROVE  i \in DOMAIN writes[u] /\ ~writes[u][i].acquired /\ \E w \in Elements(writes[u]) : w = writes[u][i]
<1>s. PICK s \in Seq(Entry) : s = writes[u]
  BY Types
<1>l. PICK left : left = {j \in DOMAIN s : ~s[j].acquired}
  OBVIOUS
<1>1. left # {} /\ left \subseteq Nat
  BY <1>s, <1>l, ThreadFacts DEF WritesOK, Elements
<1>2. \E k \in left : \A m \in left : k <= m
  BY <1>1, NatLeast
<1>3. i = CHOOSE k \in left : \A m \in left : k <= m
  BY <1>s, <1>l
<1>4. i \in left
  BY <1>2, <1>3
<1>5. i \in DOMAIN s /\ ~s[i].acquired
  BY <1>l, <1>4
<1>6. \E w \in Elements(s) : w = s[i]
  BY <1>5 DEF Elements
<1>7. QED
  BY <1>s, <1>5, <1>6

\* A transaction is killed while it is active, aborts or commits itself, or begins.
LEMMA StateChange ==
  ASSUME Inv, NEW u \in Threads, Thread(u)
  PROVE  /\ \A t \in Threads \ {u} :
              txState'[t] = txState[t] \/ (txState[t] = "ACTIVE" /\ txState'[t] = "ABORTED")
         /\ \/ txState'[u] = txState[u]
            \/ CommitsNow(u)
            \/ Begin(u)
            \/ txState[u] # "COMMITTED" /\ txState'[u] = "ABORTED"
<1>t. txState \in [Threads -> States]
  BY Types
<1>0. KindOK(u) /\ PhaseOK(u)
  BY ThreadFacts
<1>a. ASSUME Abort(u), ~Ended(u)
      PROVE  /\ txState[u] # "COMMITTED" /\ txState'[u] = "ABORTED"
             /\ \A t \in Threads \ {u} : txState'[t] = txState[t]
  BY <1>t, <1>0, <1>a DEF Abort, PhaseOK
<1>b. UNCHANGED txState \/ (Abort(u) /\ ~Ended(u)) => 
        /\ \A t \in Threads \ {u} :
              txState'[t] = txState[t] \/ (txState[t] = "ACTIVE" /\ txState'[t] = "ABORTED")
        /\ txState'[u] = txState[u] \/ (txState[u] # "COMMITTED" /\ txState'[u] = "ABORTED")
  BY <1>a
<1> USE DEF shared
<1>1. CASE Begin(u)
  BY <1>1, <1>t DEF Begin
<1>2. CASE KillOwner(u)
  <2>1. loc[u].snap.owner \in Threads /\ ~(loc[u].snap.owner = u /\ txState[u] = "COMMITTED" /\ Kills(u))
    BY <1>2, ThreadFacts DEF KillOwner, SnapOK, Kills
  <2>2. CASE Kills(u)
    BY <1>2, <1>t, <2>1, <2>2 DEF KillOwner, Kills
  <2>3. CASE ~Kills(u)
    BY <1>2, <1>b, <2>3 DEF KillOwner
  <2>4. QED
    BY <2>2, <2>3
<1>3. CASE (\E o \in Objects, kind \in {"RO", "RW"} : Open(u, o, kind)) \/ Contend(u) \/ Validate(u) \/ CheckField(u) \/ Opened(u)
  <2>1. ~Ended(u) \/ (Contend(u) /\ UNCHANGED txState) \/ (Contend(u) /\ ~Ended(u))
    BY <1>0, <1>3 DEF Open, Contend, Validate, CheckField, Opened, Ended, KindOK
  <2>2. UNCHANGED txState \/ Abort(u)
    BY <1>3 DEF Open, Contend, Validate, CheckField, Opened
  <2>3. QED
    BY <1>b, <2>1, <2>2
<1>4. CASE AcquireLazily(u)
  <2>1. ~Ended(u)
    BY <1>0, <1>4 DEF AcquireLazily, Ended, KindOK
  <2>2. UNCHANGED txState \/ Abort(u)
    BY <1>4 DEF AcquireLazily
  <2>3. QED
    BY <1>b, <2>1, <2>2
<1>5. CASE CommitCas(u)
  <2>1. CASE txState[u] = "ACTIVE"
    <3>1. CommitsNow(u)
      BY <1>5, <2>1 DEF CommitCas, CommitsNow
    <3>2. \A t \in Threads \ {u} : txState'[t] = txState[t]
      BY <1>t, <3>1 DEF CommitsNow
    <3>3. QED
      BY <3>1, <3>2
  <2>2. CASE txState[u] # "ACTIVE"
    BY <1>5, <1>b, <2>2 DEF CommitCas
  <2>3. QED
    BY <2>1, <2>2
<1>6. CASE (\E o \in Objects : OpenUn(u, o)) \/ CheckCounter(u) \/ CacheCounter(u) \/ Load(u) \/ LookAtOwner(u) \/ Recheck(u)
  BY <1>6, <1>b DEF OpenUn, CheckCounter, CacheCounter, Load, LookAtOwner, Recheck, OnlyGoTo
<1>7. CASE GiveWay(u) \/ CleanOnAbort(u) \/ Lock(u) \/ Redo(u) \/ ReleaseLock(u) \/ ReadField(u) \/ Release(u) \/ Clone(u)
  BY <1>7, <1>b DEF GiveWay, CleanOnAbort, Lock, Redo, ReleaseLock, ReadField, Release, Clone, OnlyGoTo
<1>8. CASE Acquire(u) \/ Commit(u) \/ TryCommit(u) \/ ForceCommit(u) \/ RestoreObject(u) \/ EndTransaction(u)
  BY <1>8, <1>b DEF Acquire, Commit, TryCommit, ForceCommit, RestoreObject, EndTransaction
<1>9. QED
  BY <1>1, <1>2, <1>3, <1>4, <1>5, <1>6, <1>7, <1>8
  DEF Thread, getReadable, getWritable, open_un, commit, cleanup, OpenTx, OpenLoop

\* What a step of thread u does to the metadata of object o: nothing; it acquires a
\* free object; it removes the log of an owner that has not committed; it locks
\* the log of one that has; or it releases the lock, with another version.
MetaChanged(u, o) ==
  \/ meta'[o] = meta[o]
  \/ meta[o].owner = Free /\ meta'[o].owner = u /\ meta'[o].ver = meta[o].ver /\ ~Ended(u) /\ u \in Threads
     /\ pc[u] = IF mode.isLazy THEN "acquireLazily" ELSE "acquire"
  \/ /\ meta[o].owner \in Threads /\ txState[meta[o].owner] # "COMMITTED"
     /\ meta'[o].owner = Free /\ meta'[o].ver = meta[o].ver
  \/ Done(o) /\ meta'[o].owner = Locked /\ meta'[o].ver = meta[o].ver
  \/ meta[o].owner = Locked /\ meta[o].ver < meta'[o].ver /\ meta'[o].owner = Free

\* A CAS does so if it does when it succeeds.
LEMMA CasChange ==
  ASSUME Inv, NEW u \in Threads, NEW p \in Objects, NEW from, NEW to, 
         meta' = [meta EXCEPT ![p] = IF meta[p] = from THEN to ELSE meta[p]],
         meta[p] = from /\ meta'[p] = to => MetaChanged(u, p),
         NEW o \in Objects
  PROVE  MetaChanged(u, o)
<1>1. meta \in [Objects -> Meta]
  BY Types
<1>2. CASE o # p
  BY <1>1, <1>2 DEF MetaChanged
<1>3. CASE o = p
  <2>1. meta'[p] = IF meta[p] = from THEN to ELSE meta[p]
    BY <1>1
  <2>2. QED
    BY <1>3, <2>1 DEF MetaChanged
<1>4. QED
  BY <1>2, <1>3

\* Every step does one of these.
LEMMA MetaChange ==
  ASSUME Inv, NEW u \in Threads, Thread(u), NEW o \in Objects
  PROVE  MetaChanged(u, o)
<1>0. UNCHANGED meta => MetaChanged(u, o)
  BY DEF MetaChanged
<1>t. meta \in [Objects -> Meta] /\ KindOK(u) /\ PhaseOK(u) /\ SnapOK(u) /\ RedoOK(u)
  BY Types, ThreadFacts
<1>p. PICK p \in Objects, s \in Meta : p = loc[u].obj /\ s = loc[u].snap
  BY LocTypes
<1>s. s.ver \in Nat /\ s.log \in Logs
  BY MetaFacts
<1>1. CASE CleanOnAbort(u)
  <2>1. meta' = [meta EXCEPT ![p] = IF meta[p] = s THEN Unowned(s.ver) ELSE meta[p]]
    BY <1>1, <1>p DEF CleanOnAbort, casX
  <2>2. s.owner \in Threads /\ (meta[p] = s => txState[s.owner] = "ABORTED")
    BY <1>1, <1>p, <1>t DEF CleanOnAbort, SnapOK
  <2>3. meta[p] = s /\ meta'[p] = Unowned(s.ver) => MetaChanged(u, p)
    BY <1>s, <2>2, MetaFacts DEF MetaChanged
  <2>4. QED
    BY <2>1, <2>3, CasChange
<1>2. CASE Lock(u)
  <2>1. meta' = [meta EXCEPT ![p] = IF meta[p] = s THEN LockedBy(s) ELSE meta[p]]
    BY <1>2, <1>p DEF Lock, casX
  <2>2. s.owner \in Threads /\ (meta[p] = s => txState[s.owner] = "COMMITTED")
    BY <1>2, <1>p, <1>t DEF Lock, SnapOK
  <2>3. meta[p] = s /\ meta'[p] = LockedBy(s) => MetaChanged(u, p)
    BY <1>s, <2>2, MetaFacts DEF MetaChanged, Done
  <2>4. QED
    BY <2>1, <2>3, CasChange
<1>3. CASE ReleaseLock(u)
  <2>1. meta[p] = LockedBy(s)
    BY <1>3, <1>p, <1>t DEF ReleaseLock, RedoOK
  <2>v. PICK v \in Nat : v = s.ver + 2
    BY <1>s
  <2>2. meta' = [meta EXCEPT ![p] = IF meta[p] = LockedBy(s) THEN Unowned(v) ELSE meta[p]]
    BY <1>3, <1>p, <2>1, <2>v DEF ReleaseLock, NextVersion
  <2>3. meta[p] = LockedBy(s) /\ meta'[p] = Unowned(v) => MetaChanged(u, p)
    BY <1>s, <2>v, MetaFacts DEF MetaChanged
  <2>4. QED
    BY <2>2, <2>3, CasChange
<1>4. CASE Acquire(u) /\ loc[u].kind = "RW"
  <2>0. ~Ended(u) /\ s.owner = Free /\ pc[u] = "acquire"
    BY <1>4, <1>p, <1>t DEF Acquire, Ended, SnapOK
  <2>g. PICK log \in Logs : log = NewLog(u, p)
    BY <1>4, <1>p, NewLogFacts DEF Acquire
  <2>1. UNCHANGED meta \/ (~mode.isLazy /\ meta' = [meta EXCEPT ![p] = IF meta[p] = s THEN Owned(u, log, s.ver) ELSE meta[p]])
    BY <1>4, <1>p, <1>t, <2>g DEF Acquire
  <2>3. ~mode.isLazy /\ meta[p] = s /\ meta'[p] = Owned(u, log, s.ver) => MetaChanged(u, p)
    BY <1>s, <2>0, MetaFacts DEF MetaChanged
  <2>4. QED
    BY <1>0, <2>1, <2>3, CasChange
<1>5. CASE AcquireLazily(u)
  <2>0. ~Ended(u) /\ pc[u] = "acquireLazily" /\ mode.isLazy
    BY <1>5, <1>t, ThreadFacts DEF AcquireLazily, Ended, KindOK, WritesOK
  <2>i. PICK i : i = CHOOSE k \in {j \in DOMAIN writes[u] : ~writes[u][j].acquired} :
                        \A m \in {j \in DOMAIN writes[u] : ~writes[u][j].acquired} : k <= m
    OBVIOUS
  <2>w. PICK w : w = writes[u][i] /\ w \in Elements(writes[u])
    BY <2>0, <2>i, FirstUnacquired
  <2>1. UNCHANGED meta \/ (meta[w.obj] = Unowned(w.ver) /\ meta' = [meta EXCEPT ![w.obj] = Owned(u, w.log, w.ver)])
    BY <1>5, <2>i, <2>w DEF AcquireLazily, Abort
  <2>2. w.obj \in Objects /\ w.ver \in Nat /\ w.log \in Logs
    BY <2>w, EntryFacts
  <2>3. meta[w.obj] = Unowned(w.ver) /\ meta'[w.obj] = Owned(u, w.log, w.ver) => MetaChanged(u, w.obj)
    BY <2>0, <2>2, MetaFacts DEF MetaChanged
  <2>q. PICK q \in Objects : q = w.obj
    BY <2>2
  <2>5. UNCHANGED meta \/ meta' = [meta EXCEPT ![q] = IF meta[q] = Unowned(w.ver) THEN Owned(u, w.log, w.ver) ELSE meta[q]]
    BY <2>1, <2>q
  <2>4. QED
    BY <1>0, <2>q, <2>3, <2>5, CasChange
<1>6. CASE RestoreObject(u)
  <2>w. PICK w \in Elements(writes[u]) : w = Head(writes[u])
    <3>1. PICK q \in Seq(Entry) : q = writes[u] /\ q # <<>>
      BY <1>6, Types DEF RestoreObject
    <3>2. QED
      BY <3>1, ElementsTail
  <2>1. PICK q \in Objects, v \in Nat, log \in Logs : q = w.obj /\ v = w.ver /\ log = w.log
    BY EntryFacts
  <2>m. PICK mine \in Meta : mine = Owned(u, log, v)
    BY MetaFacts
  <2>t. PICK to : to = IF txState[u] = "COMMITTED" THEN LockedBy(mine) ELSE Unowned(v)
    OBVIOUS
  <2>2. meta' = [meta EXCEPT ![q] = IF meta[q] = mine THEN to ELSE meta[q]]
    BY <1>6, <2>w, <2>1, <2>m, <2>t DEF RestoreObject, casX
  <2>3. meta[q] = mine /\ meta'[q] = to => MetaChanged(u, q)
    BY <2>m, <2>t, MetaFacts DEF MetaChanged, Done
  <2>4. QED
    BY <2>2, <2>3, CasChange
<1> USE <1>0 DEF shared, Abort, OnlyGoTo
<1>7. CASE Begin(u) \/ KillOwner(u) \/ (\E q \in Objects, kind \in {"RO", "RW"} : Open(u, q, kind)) \/ Contend(u)
  BY <1>7 DEF Begin, KillOwner, Open, Contend
<1>8. CASE Validate(u) \/ CheckField(u) \/ Opened(u) \/ CommitCas(u) \/ (\E q \in Objects : OpenUn(u, q))
  BY <1>8 DEF Validate, CheckField, Opened, CommitCas, OpenUn
<1>9. CASE CheckCounter(u) \/ CacheCounter(u) \/ Load(u) \/ LookAtOwner(u) \/ Recheck(u) \/ GiveWay(u) \/ Redo(u)
  BY <1>9 DEF CheckCounter, CacheCounter, Load, LookAtOwner, Recheck, GiveWay, Redo
<1>10. CASE ReadField(u) \/ Release(u) \/ Clone(u) \/ Commit(u) \/ TryCommit(u) \/ ForceCommit(u) \/ EndTransaction(u)
  BY <1>10 DEF ReadField, Release, Clone, Commit, TryCommit, ForceCommit, EndTransaction
<1>11. QED
  BY <1>1, <1>2, <1>3, <1>4, <1>5, <1>6, <1>7, <1>8, <1>9, <1>10
  DEF Thread, getReadable, getWritable, open_un, commit, cleanup, OpenTx, OpenLoop

\* Contents in place change only under a lock, and to what the log says; then the
\* metadata stay.
LEMMA DataChange ==
  ASSUME Inv, NEW u \in Threads, Thread(u), NEW o \in Objects, data'[o] # data[o]
  PROVE  meta[o].owner = Locked /\ meta' = meta /\ data'[o] = Current(o)
<1>t. data \in [Objects -> Txs]
  BY Types
<1>1. CASE Redo(u)
  <2>1. meta[loc[u].obj] = LockedBy(loc[u].snap) /\ loc[u].snap \in Meta
    BY <1>1, ThreadFacts, LocTypes DEF Redo, RedoOK
  <2>2. o = loc[u].obj /\ data'[o] = ContentsOf(loc[u].snap.log) /\ meta' = meta
    BY <1>1, <1>t DEF Redo
  <2>3. QED
    BY <2>1, <2>2, MetaFacts DEF Current
<1> USE <1>t DEF shared, Abort, OnlyGoTo
<1>2. CASE Begin(u) \/ KillOwner(u) \/ (\E q \in Objects, kind \in {"RO", "RW"} : Open(u, q, kind)) \/ Contend(u)
  BY <1>2 DEF Begin, KillOwner, Open, Contend
<1>3. CASE Validate(u) \/ CheckField(u) \/ Opened(u) \/ CommitCas(u) \/ (\E q \in Objects : OpenUn(u, q))
  BY <1>3 DEF Validate, CheckField, Opened, CommitCas, OpenUn
<1>4. CASE CheckCounter(u) \/ CacheCounter(u) \/ Load(u) \/ LookAtOwner(u) \/ Recheck(u) \/ GiveWay(u)
  BY <1>4 DEF CheckCounter, CacheCounter, Load, LookAtOwner, Recheck, GiveWay
<1>5. CASE ReadField(u) \/ Release(u) \/ Clone(u) \/ Commit(u) \/ TryCommit(u) \/ ForceCommit(u) \/ EndTransaction(u)
  BY <1>5 DEF ReadField, Release, Clone, Commit, TryCommit, ForceCommit, EndTransaction
<1>6. CASE CleanOnAbort(u) \/ Lock(u) \/ ReleaseLock(u) \/ Acquire(u) \/ AcquireLazily(u) \/ RestoreObject(u)
  BY <1>6 DEF CleanOnAbort, Lock, ReleaseLock, Acquire, AcquireLazily, RestoreObject
<1>7. QED
  BY <1>1, <1>2, <1>3, <1>4, <1>5, <1>6
  DEF Thread, getReadable, getWritable, open_un, commit, cleanup, OpenTx, OpenLoop

\* Versions grow.
LEMMA VersionsGrow ==
  ASSUME Inv, Inv', NEW u \in Threads, Thread(u), NEW o \in Objects
  PROVE  meta[o].ver \in Nat /\ meta'[o].ver \in Nat /\ meta[o].ver <= meta'[o].ver
<1>1. meta[o].ver \in Nat /\ meta'[o].ver \in Nat
  BY Types DEF Inv, TypeInv, MemoryOK, Meta
<1>2. QED
  BY <1>1, MetaChange DEF MetaChanged

\* What is Fresh stays so.
LEMMA FreshStays ==
  ASSUME Inv, Inv', NEW u \in Threads, Thread(u), NEW o \in Objects, NEW v \in Nat, NEW c, Fresh(o, v, c)
  PROVE  Fresh(o, v, c)'
<1>1. meta[o].ver \in Nat /\ meta'[o].ver \in Nat /\ meta[o].ver <= meta'[o].ver
  BY VersionsGrow
<1>2. MetaChanged(u, o)
  BY MetaChange
<1>3. data'[o] # data[o] => meta[o].owner = Locked /\ meta'[o] = meta[o]
  BY DataChange
<1>4. meta'[o].ver = v /\ meta'[o].owner # Locked => meta[o].ver = v /\ meta[o].owner # Locked
  BY <1>1, <1>2, MetaFacts DEF MetaChanged, Fresh
<1>5. QED
  BY <1>1, <1>3, <1>4 DEF Fresh

\* A commit changes no metadata.
LEMMA CommitFacts ==
  ASSUME Inv, NEW u \in Threads, CommitsNow(u)
  PROVE  /\ txState[u] = "ACTIVE" /\ txState'[u] = "COMMITTED" /\ \A t \in Threads \ {u} : txState'[t] = txState[t]
         /\ meta' = meta /\ data' = data /\ pc[u] = "cas" /\ Deciding(u) /\ ~Ended(u)
<1>1. txState \in [Threads -> States]
  BY Types
<1>2. ~Ended(u)
  BY ThreadFacts DEF CommitsNow, Ended, KindOK
<1>3. QED
  BY <1>1, <1>2 DEF CommitsNow, Deciding, AtEnd

\* The owner of an object has not begun just now.
LEMMA OwnersRun ==
  ASSUME Inv, NEW o \in Objects, meta[o].owner \in Threads
  PROVE  pc[meta[o].owner] # "idle" /\ writes[meta[o].owner] # <<>>
<1>1. PICK u \in Threads : u = meta[o].owner
  OBVIOUS
<1>2. \E w \in Elements(writes[u]) : w.obj = o
  BY <1>1, OwnedFacts
<1>3. writes[u] # <<>>
  BY <1>2 DEF Elements
<1>4. pc[u] # "idle"
  BY <1>3, ThreadFacts DEF WritesOK
<1>5. QED
  BY <1>1, <1>3, <1>4

\* What is the log stays so until another version is there.
LEMMA DoneStays ==
  ASSUME Inv, Inv', NEW u \in Threads, Thread(u), NEW o \in Objects, Done(o), meta'[o].ver = meta[o].ver
  PROVE  Done(o)'
<1>1. MetaChanged(u, o) /\ meta[o].ver \in Nat
  BY MetaChange, VersionsGrow
<1>2. CASE meta'[o] = meta[o]
  <2>1. CASE meta[o].owner = Locked
    BY <1>2, <2>1 DEF Done
  <2>2. CASE meta[o].owner \in Threads /\ txState[meta[o].owner] = "COMMITTED"
    <3>1. ~(meta[o].owner = u /\ Begin(u))
      BY <2>2, OwnersRun DEF Begin
    <3>2. txState'[meta[o].owner] = "COMMITTED"
      BY <2>2, <3>1, StateChange, CommitFacts
    <3>3. QED
      BY <1>2, <2>2, <3>2 DEF Done
  <2>3. QED
    BY <2>1, <2>2 DEF Done
<1>3. CASE meta'[o] # meta[o]
  BY <1>1, <1>3, MetaFacts DEF MetaChanged, Done
<1>4. QED
  BY <1>2, <1>3

\* What can be read in place after a step could be before, and is the same.
LEMMA CleanBefore ==
  ASSUME Inv, Inv', NEW u \in Threads, Thread(u), NEW o \in Objects, NEW v \in Nat, v <= meta[o].ver, Clean(o, v)'
  PROVE  Clean(o, v) /\ Current(o)' = Current(o)
<1>1. meta[o].ver \in Nat /\ meta'[o].ver \in Nat /\ meta[o].ver <= meta'[o].ver
  BY VersionsGrow
<1>2. meta[o].ver = v /\ meta'[o].ver = v /\ ~Done(o)'
  BY <1>1 DEF Clean
<1>3. ~Done(o)
  BY <1>2, DoneStays
<1>4. Current(o)' = data'[o] /\ Current(o) = data[o]
  BY <1>2, <1>3 DEF Done, Current
<1>5. data'[o] = data[o]
  BY <1>3, DataChange DEF Done
<1>6. QED
  BY <1>2, <1>3, <1>4, <1>5 DEF Clean

\* It stays until its owner commits.
LEMMA CleanStays ==
  ASSUME Inv, Inv', NEW u \in Threads, Thread(u), NEW o \in Objects, NEW v, Clean(o, v),
         ~(CommitsNow(u) /\ meta[o].owner = u)
  PROVE  Clean(o, v)'
<1>1. MetaChanged(u, o) /\ ~Done(o) /\ meta[o].ver = v
  BY MetaChange DEF Clean
<1>2. CASE meta'[o] = meta[o]
  <2>1. meta[o].owner \in Threads => txState'[meta[o].owner] # "COMMITTED"
    <3>1. ASSUME meta[o].owner \in Threads PROVE txState'[meta[o].owner] # "COMMITTED"
      <4>1. txState[meta[o].owner] # "COMMITTED" /\ ~(meta[o].owner = u /\ CommitsNow(u))
        BY <1>1, <3>1 DEF Done
      <4>2. ~(meta[o].owner = u /\ Begin(u))
        BY <3>1, OwnersRun DEF Begin
      <4>3. QED
        BY <3>1, <4>1, <4>2, StateChange
    <3>2. QED
      BY <3>1
  <2>2. QED
    BY <1>1, <1>2, <2>1 DEF Clean, Done
<1>3. CASE meta'[o] # meta[o]
  <2>1. meta[o].owner # Locked
    BY <1>1 DEF Done
  <2>2. CASE meta'[o].owner = u /\ ~Ended(u) /\ meta'[o].ver = v
    <3>1. txState[u] # "COMMITTED" /\ pc[u] # "idle"
      BY <2>2, ThreadFacts DEF PhaseOK, Ended
    <3>2. ~CommitsNow(u)
      BY <1>3, CommitFacts
    <3>3. txState'[u] # "COMMITTED"
      BY <3>1, <3>2, StateChange DEF Begin
    <3>4. QED
      BY <2>2, <3>3, MetaFacts DEF Clean, Done
  <2>3. QED
    BY <1>1, <1>3, <2>1, <2>2, MetaFacts DEF MetaChanged, Clean, Done
<1>4. QED
  BY <1>2, <1>3

-------------------------------------------------------------------------------
(* The log and the contents of the objects.                                  *)

\* The record of the transaction that thread t commits.
IsCommitOf(c, t) ==
  /\ c.tx = Tx(t) /\ c.reads = seen[t] /\ c.after = began[t]
  /\ c.writes = {<<w.obj, w.read>> : w \in Elements(writes[t])}
  /\ committed' = committed \cup {c}

\* A commit adds this record.
LEMMA CommitRecord ==
  ASSUME NEW t \in Threads, CommitsNow(t)
  PROVE  \E c : IsCommitOf(c, t)
<1>1. PICK c : c = [tx |-> Tx(t), reads |-> seen[t], after |-> began[t],
                    writes |-> {<<writes[t][i].obj, writes[t][i].read>> : i \in DOMAIN writes[t]}]
  OBVIOUS
<1>2. c.tx = Tx(t) /\ c.reads = seen[t] /\ c.after = began[t]
      /\ c.writes = {<<writes[t][i].obj, writes[t][i].read>> : i \in DOMAIN writes[t]}
  BY <1>1
<1>3. c.writes = {<<w.obj, w.read>> : w \in Elements(writes[t])}
  BY <1>2 DEF Elements
<1>4. committed' = committed \cup {c}
  BY <1>1 DEF CommitsNow
<1>5. QED
  BY <1>2, <1>3, <1>4 DEF IsCommitOf

\* What is committed stays so.
LEMMA CommittedStays ==
  ASSUME Inv, NEW u \in Threads, Thread(u)
  PROVE  /\ committed \subseteq committed'
         /\ \A o, v : (Made(o, v) => Made(o, v)') /\ (Gone(o, v) => Gone(o, v)')
         /\ \A v : IsCommitted(v) => IsCommitted(v)'
<1>1. committed \subseteq committed'
  BY ThreadKept DEF Kept, CommitsNow
<1>2. QED
  BY <1>1 DEF Made, Gone, IsCommitted

\* Committed contents have the name of a committed transaction.
LEMMA MadeFacts ==
  ASSUME NEW o, NEW v, Made(o, v)
  PROVE  v = Initial \/ IsCommitted(v)
  BY DEF Made, IsCommitted

\* An attempt that has not ended has not committed.
RunningIsUncommitted ==
  \A t \in Threads : Inv /\ ~Ended(t) => ~IsCommitted(Tx(t)) /\ Tx(t) \in Txs /\ Tx(t) # Initial

LEMMA RunningUncommitted == RunningIsUncommitted
<1>1. ASSUME NEW t \in Threads, Inv, ~Ended(t)
      PROVE  ~IsCommitted(Tx(t)) /\ Tx(t) \in Txs /\ Tx(t) # Initial
  <2>1. attempt[t] \in 1 .. MaxAttempts
    BY <1>1, Types, ThreadFacts DEF PhaseOK
  <2>2. Tx(t) \in Txs
    BY <2>1 DEF Tx, Txs
  <2>3. Tx(t) # Initial
    BY RedoNoThreadAssumption DEF Tx, Initial
  <2>4. ASSUME NEW c \in committed, c.tx = Tx(t) PROVE FALSE
    <3>1. PICK u \in Threads : c.tx = <<u, c.tx[2]>> /\ (c.tx[2] = attempt[u] => Ended(u))
      BY <1>1 DEF Inv, CommittedOK
    <3>2. u = t /\ c.tx[2] = attempt[t]
      BY <2>4, <3>1 DEF Tx
    <3>3. QED
      BY <1>1, <3>1, <3>2
  <2>5. QED
    BY <2>2, <2>3, <2>4 DEF IsCommitted
<1>2. QED
  BY <1>1 DEF RunningIsUncommitted

\* What the committing transaction replaces is current, and nobody has replaced
\* it before.
LEMMA CommitWrites ==
  ASSUME Inv, HistInv, NEW t \in Threads, CommitsNow(t), NEW c, IsCommitOf(c, t)
  PROVE  /\ \A w \in c.writes :
              /\ w = <<w[1], w[2]>> /\ w[1] \in Objects
              /\ w[2] = Current(w[1]) /\ Made(w[1], w[2]) /\ Current(w[1])' = Tx(t)
         /\ \A o \in Objects : (\E w \in c.writes : w[1] = o) \/ Current(o)' = Current(o)
         /\ ~IsCommitted(Tx(t)) /\ Tx(t) \in Txs /\ Tx(t) # Initial
<1>0. pc[t] = "cas" /\ txState[t] = "ACTIVE" /\ ~Ended(t)
  BY CommitFacts DEF CommitsNow
<1>1. PICK written : written = {w.obj : w \in Elements(writes[t])}
  OBVIOUS
<1>2. Memory!Commit(Tx(t), written)
  BY <1>1, CommitIsAtomic
<1>3. Mem' = [o \in Objects |-> IF o \in written THEN Tx(t) ELSE Mem[o]]
  BY <1>2 DEF Memory!Commit, Mem
<1>4. \A o \in Objects : Current(o)' = IF o \in written THEN Tx(t) ELSE Current(o)
  BY <1>3 DEF Mem
<1>5. \A w \in Elements(writes[t]) : w.obj \in Objects /\ Current(w.obj) = w.read
  BY <1>0, Written
<1>6. ASSUME NEW e \in c.writes
      PROVE  /\ e = <<e[1], e[2]>> /\ e[1] \in Objects
             /\ e[2] = Current(e[1]) /\ Made(e[1], e[2]) /\ Current(e[1])' = Tx(t)
  <2>1. PICK w \in Elements(writes[t]) : e = <<w.obj, w.read>>
    BY DEF IsCommitOf
  <2>2. e[1] = w.obj /\ e[2] = w.read /\ w.obj \in Objects
    BY <2>1, EntryFacts
  <2>3. Current(w.obj) = w.read /\ w.obj \in written
    BY <1>1, <1>5
  <2>5. Made(w.obj, w.read)
    BY DEF HistInv, LocalOK, PastOK
  <2>6. QED
    BY <1>4, <2>1, <2>2, <2>3, <2>5
<1>7. ASSUME NEW o \in Objects, Current(o)' # Current(o)
      PROVE  \E w \in c.writes : w[1] = o
  <2>1. PICK w \in Elements(writes[t]) : w.obj = o
    BY <1>1, <1>4, <1>7
  <2>2. <<w.obj, w.read>> \in c.writes
    BY DEF IsCommitOf
  <2>3. QED
    BY <2>1, <2>2
<1>8. QED
  BY <1>0, <1>6, <1>7, RunningUncommitted DEF RunningIsUncommitted

\* The log stays well-formed.
LEMMA LogStep ==
  ASSUME Inv, HistInv, NEW u \in Threads, Thread(u)
  PROVE  LogOK'
<1>g. /\ \A o, v : Made(o, v) => Made(o, v)'
      /\ \A v : IsCommitted(v) => IsCommitted(v)'
  BY CommittedStays
<1>1. ASSUME NEW c \in committed
      PROVE  /\ \A w \in c.writes : w = <<w[1], w[2]>> /\ Made(w[1], w[2])'
             /\ \A r \in c.reads : Made(r[1], r[2])'
             /\ \A v \in c.after : IsCommitted(v)'
  BY <1>g DEF HistInv, LogOK
<1>2. CASE Kept
  <2>1. committed' = committed
    BY <1>2 DEF Kept
  <2>2. \A c \in committed : \A d \in committed : c.tx = d.tx => c = d
    BY DEF HistInv, LogOK
  <2>3. QED
    BY <1>1, <2>1, <2>2 DEF LogOK
<1>3. CASE CommitsNow(u)
  <2>1. PICK c0 : IsCommitOf(c0, u)
    BY <1>3, CommitRecord
  <2>2. /\ \A w \in c0.writes : w = <<w[1], w[2]>> /\ Made(w[1], w[2])
        /\ ~IsCommitted(Tx(u))
    BY <1>3, <2>1, CommitWrites
  <2>3. committed' = committed \cup {c0} /\ c0.tx = Tx(u) /\ c0.reads = seen[u] /\ c0.after = began[u]
    BY <2>1 DEF IsCommitOf
  <2>4. \A c \in committed' : \A d \in committed' : c.tx = d.tx => c = d
    BY <2>2, <2>3 DEF HistInv, LogOK, IsCommitted
  <2>5. (\A r \in c0.reads : Made(r[1], r[2])') /\ \A v \in c0.after : IsCommitted(v)'
    BY <1>g, <2>3 DEF HistInv, LocalOK, PastOK
  <2>6. ASSUME NEW c \in committed'
        PROVE  /\ \A w \in c.writes : w = <<w[1], w[2]>> /\ Made(w[1], w[2])'
               /\ \A r \in c.reads : Made(r[1], r[2])'
               /\ \A v \in c.after : IsCommitted(v)'
    <3>1. CASE c = c0
      BY <1>g, <2>2, <2>5, <3>1
    <3>2. CASE c \in committed
      BY <1>1, <3>2
    <3>3. QED
      BY <2>3, <3>1, <3>2
  <2>7. QED
    BY <2>4, <2>6 DEF LogOK
<1>4. QED
  BY <1>2, <1>3, ThreadKept

\* The contents of an object are what was written last.
LEMMA ContentsStep ==
  ASSUME Inv, HistInv, NEW u \in Threads, Thread(u)
  PROVE  ContentsOK'
<1>g. \A o, v : (Made(o, v) => Made(o, v)') /\ (Gone(o, v) => Gone(o, v)')
  BY CommittedStays
<1>0. \A o \in Objects : Made(o, Current(o)) /\ ~Gone(o, Current(o)) /\ Made(o, data[o])
  BY DEF HistInv, ContentsOK
<1>d. ASSUME NEW o \in Objects PROVE Made(o, data[o])'
  <2>d. PICK d : d = data'[o]
    OBVIOUS
  <2>1. d = data[o] \/ d = Current(o)
    BY <2>d, DataChange
  <2>2. Made(o, d)'
    BY <1>g, <1>0, <2>1
  <2>3. QED
    BY <2>d, <2>2 DEF Made
<1>1. CASE Kept
  <2>1. /\ \A o \in Objects : Current(o)' = Current(o)
        /\ \A o, v : (Made(o, v)' <=> Made(o, v)) /\ (Gone(o, v)' <=> Gone(o, v))
    BY <1>1 DEF Kept, Made, Gone
  <2>2. QED
    BY <1>d, <1>0, <2>1 DEF ContentsOK, Made, Gone
<1>2. CASE CommitsNow(u)
  <2>1. PICK c : IsCommitOf(c, u)
    BY <1>2, CommitRecord
  <2>2. /\ \A w \in c.writes :
              /\ w = <<w[1], w[2]>> /\ w[1] \in Objects
              /\ w[2] = Current(w[1]) /\ Made(w[1], w[2]) /\ Current(w[1])' = Tx(u)
        /\ \A o \in Objects : (\E w \in c.writes : w[1] = o) \/ Current(o)' = Current(o)
        /\ ~IsCommitted(Tx(u)) /\ Tx(u) # Initial
    BY <1>2, <2>1, CommitWrites
  <2>3. committed' = committed \cup {c} /\ c.tx = Tx(u)
    BY <2>1 DEF IsCommitOf
  <2>n. \A o, v : Gone(o, v)' => Gone(o, v) \/ <<o, v>> \in c.writes
    BY <2>3 DEF Gone
  <2>p. \A o : ~Made(o, Tx(u))
    BY <2>2, MadeFacts
  <2>q. \A o, v : Gone(o, v) => Made(o, v)
    <3>1. ASSUME NEW o, NEW v, NEW d \in committed, <<o, v>> \in d.writes PROVE Made(o, v)
      <4>1. PICK w \in d.writes : w = <<o, v>>
        BY <3>1
      <4>2. w[1] = o /\ w[2] = v
        BY <4>1
      <4>3. Made(w[1], w[2])
        BY DEF HistInv, LogOK
      <4>4. QED
        BY <4>2, <4>3
    <3>2. QED
      BY <3>1 DEF Gone
  <2>x. PICK x : x = Tx(u)
    OBVIOUS
  <2>w. \A o, v : <<o, v>> \in c.writes => v = Current(o) /\ Made(o, v)
    <3>1. ASSUME NEW o, NEW v, <<o, v>> \in c.writes PROVE v = Current(o) /\ Made(o, v)
      <4>1. PICK w \in c.writes : w = <<o, v>>
        BY <3>1
      <4>2. w[1] = o /\ w[2] = v
        BY <4>1
      <4>3. w[2] = Current(w[1]) /\ Made(w[1], w[2])
        BY <2>2
      <4>4. QED
        BY <4>2, <4>3
    <3>2. QED
      BY <3>1
  <2>4. ASSUME NEW o \in Objects, NEW w \in c.writes, w[1] = o
        PROVE  Current(o)' = x /\ Made(o, x)' /\ ~Gone(o, x)'
    <3>1. Current(o)' = x
      BY <2>x, <2>2, <2>4
    <3>2. Made(o, x)'
      BY <2>x, <2>3, <2>4 DEF Made
    <3>3. ~Gone(o, x)'
      BY <2>x, <2>n, <2>p, <2>q, <2>w
    <3>4. QED
      BY <3>1, <3>2, <3>3
  <2>5. ASSUME NEW o \in Objects, ~ \E w \in c.writes : w[1] = o
        PROVE  \E z : Current(o)' = z /\ Made(o, z)' /\ ~Gone(o, z)'
    <3>y. PICK y : y = Current(o)
      OBVIOUS
    <3>1. Current(o)' = y
      BY <2>2, <2>5, <3>y
    <3>2. \A v : <<o, v>> \notin c.writes
      <4>1. SUFFICES ASSUME NEW v, <<o, v>> \in c.writes PROVE FALSE
        OBVIOUS
      <4>2. PICK e \in c.writes : e = <<o, v>>
        BY <4>1
      <4>3. e[1] = o
        BY <4>2
      <4>4. QED
        BY <2>5, <4>3
    <3>3. QED
      BY <1>0, <1>g, <2>n, <3>y, <3>1, <3>2
  <2>6. ASSUME NEW o \in Objects PROVE Made(o, Current(o))' /\ ~Gone(o, Current(o))'
    <3>1. PICK y : Current(o)' = y /\ Made(o, y)' /\ ~Gone(o, y)'
      BY <2>4, <2>5
    <3>2. QED
      BY <3>1 DEF Made, Gone
  <2>7. QED
    BY <1>d, <2>6 DEF ContentsOK
<1>3. QED
  BY <1>1, <1>2, ThreadKept

-------------------------------------------------------------------------------
(* The kinds of steps, by what they do to the lists of their thread.         *)

\* The transaction of thread u goes on.
Runs(u) == ~Ended(u) /\ ~Ended(u)' /\ attempt'[u] = attempt[u] /\ began'[u] = began[u]

\* Its lists stay; the same objects are in its list of writes; the same open is
\* still going on; nothing happens in memory.
SameSeen(u) == invisReads'[u] = invisReads[u] /\ seen'[u] = seen[u]
SameEntry(w, x) == x.obj = w.obj /\ x.ver = w.ver /\ x.read = w.read
SameWrites(u) ==
  /\ \A w \in Elements(writes[u]) : \E x \in Elements(writes'[u]) : SameEntry(w, x)
  /\ \A x \in Elements(writes'[u]) : \E w \in Elements(writes[u]) : SameEntry(w, x)
SameOpen(u) == loc'[u].kind = loc[u].kind /\ loc'[u].obj = loc[u].obj /\ loc'[u].copy = loc[u].copy
Rests(u) == meta' = meta /\ data' = data /\ txState' = txState /\ writes'[u] = writes[u]

\* All that it has read, and all that it has still to acquire, is unchecked.
ListUnchecked(t) == \A e \in Elements(invisReads[t]) : e \in Unchecked(t)
WritesUnchecked(t) == \A w \in Elements(writes[t]) : w.acquired \/ <<w.obj, w.ver>> \in Unchecked(t)

\* The transaction ends, or has.
Finishes(u) ==
  /\ Ended(u)' /\ attempt'[u] = attempt[u]
  /\ invisReads'[u] = invisReads[u] \/ invisReads'[u] = <<>>
  /\ Elements(writes'[u]) \subseteq Elements(writes[u])
  /\ seen'[u] \subseteq seen[u] /\ began'[u] \subseteq began[u]
  /\ seen'[u] = {} \/ committed' = committed
  /\ pc'[u] = "idle" \/ loc'[u].kind = "UN" =>
       (invisReads'[u] = <<>> /\ seen'[u] = {}) \/ pc[u] = "idle" \/ loc[u].kind = "UN"

\* No open ends, and the lists stay. A field is loaded, or the object is cloned.
Moves(u) ==
  /\ Runs(u) /\ SameSeen(u) /\ SameWrites(u) /\ cached'[u] = cached[u]
  /\ pc[u] # "checkField" /\ ~EndsOpen(u) /\ ~EndsOpen(u)' /\ ~AtEnd(u) /\ ~AtEnd(u)' 
  /\ pc[u] = "acquire" => meta' = meta
  /\ pc'[u] = "acquire" => loc'[u].copy = data[loc'[u].obj]
  /\ pc'[u] = "checkField" => \E e \in Elements(invisReads[u]) :
       loc'[u].obj = e[1] /\ loc'[u].snap = Unowned(e[2]) /\ loc'[u].copy = data[e[1]] /\ meta' = meta /\ data' = data

\* The version is that of the field that was loaded.
Finds(u) ==
  /\ Runs(u) /\ Rests(u) /\ invisReads'[u] = invisReads[u] /\ cached'[u] = cached[u]
  /\ pc[u] = "checkField" /\ pc'[u] = "work"
  /\ meta[loc[u].obj] = loc[u].snap
  /\ seen'[u] = seen[u] \cup {<<loc[u].obj, loc[u].copy>>}

\* Early release.
Releases(u) ==
  /\ Runs(u) /\ Rests(u) /\ cached'[u] = cached[u] /\ pc[u] = "work" /\ pc'[u] = "work"
  /\ Elements(invisReads'[u]) \subseteq Elements(invisReads[u])
  /\ \E o \in Objects :
       /\ \A e \in Elements(invisReads[u]) : e[1] # o => e \in Elements(invisReads'[u])
       /\ seen'[u] = IF \E w \in Elements(writes[u]) : w.obj = o THEN seen[u] ELSE {r \in seen[u] : r[1] # o}

\* An open for reading adds to the list, or finds the object there. With the
\* commit counter, that is looked at first; without it, validation begins.
BeginsCheck(u) ==
  IF mode.counts THEN pc'[u] = "count" ELSE Passing(u)'

Inserts(u) ==
  /\ Runs(u) /\ Rests(u) /\ seen'[u] = seen[u] /\ cached'[u] = cached[u]
  /\ pc[u] = "load" /\ loc'[u].kind = "RO" /\ BeginsCheck(u)
  /\ \E o \in Objects :
       /\ meta[o].owner = Free
       /\ Elements(invisReads'[u]) = Elements(invisReads[u]) \cup {<<o, meta[o].ver>>}
  /\ ~mode.counts => /\ \A e \in Elements(invisReads[u]) : e \in Unchecked(u)'
                     /\ WritesUnchecked(u)'

Repeats(u) ==
  /\ Runs(u) /\ Rests(u) /\ SameSeen(u) /\ cached'[u] = cached[u]
  /\ pc[u] = "load" /\ loc'[u].kind = "RO" /\ ~mode.counts /\ Passing(u)'

\* An open for writing adds to the list.
Takes(u) ==
  /\ Runs(u) /\ SameSeen(u) /\ SameOpen(u) /\ cached'[u] = cached[u] /\ data' = data
  /\ pc[u] = "acquire" /\ loc[u].kind = "RW" /\ BeginsCheck(u)
  /\ \E x \in Elements(writes'[u]) :
       /\ x.obj = loc[u].obj /\ x.read = loc[u].copy /\ Elements(writes'[u]) = Elements(writes[u]) \cup {x}
       /\ txState[u] = "ACTIVE" => \A w \in Elements(writes[u]) : w.obj # x.obj
  /\ ~mode.counts => ListUnchecked(u)' /\ WritesUnchecked(u)'

\* The commit counter is not what the thread remembers; it is; or it is now.
Counts(u) ==
  /\ Runs(u) /\ Rests(u) /\ SameSeen(u) /\ SameOpen(u) /\ cached'[u] = cached[u]
  /\ mode.counts /\ pc[u] = "count" /\ pc'[u] = "cache"

Skips(u) ==
  /\ Runs(u) /\ Rests(u) /\ SameSeen(u) /\ SameOpen(u) /\ cached'[u] = cached[u]
  /\ mode.counts /\ pc[u] = "count" /\ pc'[u] = "opened" /\ cached[u] = counter

Caches(u) ==
  /\ Runs(u) /\ Rests(u) /\ SameSeen(u) /\ SameOpen(u) /\ cached'[u] = counter
  /\ mode.counts /\ pc[u] = "cache" /\ Passing(u)' /\ ListUnchecked(u)'

\* One pair is found to be current.
Checks(u) ==
  /\ Runs(u) /\ Rests(u) /\ SameSeen(u) /\ SameOpen(u) /\ cached'[u] = cached[u] /\ counter' = counter
  /\ pc[u] = "validate" /\ (Passing(u) <=> Passing(u)') /\ (AtEnd(u) <=> AtEnd(u)')
  /\ \E e \in Unchecked(u) : isCurrent(u, e[1], e[2]) /\ Unchecked(u) = Unchecked(u)' \cup {e}

\* The last validation begins, or the counter says that there is no need.
Decides(u) ==
  /\ Runs(u) /\ SameSeen(u) /\ SameWrites(u) /\ cached'[u] = cached[u] /\ data' = data /\ txState' = txState
  /\ pc[u] \in {"work", "acquireLazily", "tryCommit"} /\ AtEnd(u)'
  /\ ListUnchecked(u)' \/ (mode.counts /\ cached[u] = counter /\ meta' = meta)
  /\ mode.counts /\ writes'[u] # <<>> => cached[u] < counter'

\* forceCommit.
Forces(u) ==
  /\ Runs(u) /\ Rests(u) /\ SameSeen(u) /\ cached'[u] = cached[u]
  /\ pc[u] = "force" /\ pc'[u] = "cas"

\* An open returns.
Returns(u) ==
  /\ Runs(u) /\ Rests(u) /\ invisReads'[u] = invisReads[u] /\ cached'[u] = cached[u]
  /\ pc[u] = "opened" /\ pc'[u] = "work" /\ ~Killed(u)
  /\ seen'[u] = IF loc[u].kind = "RW" THEN seen[u] \cup {<<loc[u].obj, loc[u].copy>>} ELSE seen[u]

Kind(u) ==
  \/ Begin(u) \/ Finishes(u) \/ Moves(u) \/ Finds(u) \/ Releases(u)
  \/ Inserts(u) \/ Repeats(u) \/ Takes(u)
  \/ Counts(u) \/ Skips(u) \/ Caches(u) \/ Checks(u) \/ Decides(u) \/ Forces(u) \/ Returns(u)

\* The types of the variables, for the facts about single threads.
LEMMA AllTypes ==
  ASSUME Inv, SeenType
  PROVE  /\ pc \in [Threads -> Labels] /\ attempt \in [Threads -> 0 .. MaxAttempts] /\ loc \in [Threads -> Locals]
         /\ writes \in [Threads -> Seq(Entry)] /\ cached \in [Threads -> 0 .. counter] /\ counter \in Nat
         /\ invisReads \in [Threads -> Seq(Pair)] /\ began \in [Threads -> SUBSET Txs]
         /\ seen \in [Threads -> SUBSET (Objects \X Txs)] /\ txState \in [Threads -> States]
         /\ meta \in [Objects -> Meta] /\ data \in [Objects -> Txs]
  BY Types DEF Inv, TypeInv, HistoryOK, SeenType

\* An entry is the same as itself.
LEMMA SameList ==
  ASSUME NEW u, writes'[u] = writes[u]
  PROVE  SameWrites(u)
  BY DEF SameWrites, SameEntry

\* A statement that keeps the lists, and neither ends an open nor a commit.
LEMMA StaysKind ==
  ASSUME Inv, NEW u \in Threads, 
         invisReads'[u] = invisReads[u], writes'[u] = writes[u], cached'[u] = cached[u], seen'[u] = seen[u],
         attempt'[u] = attempt[u], began'[u] = began[u], committed' = committed,
         pc[u] \notin {"checkField", "count", "cache", "opened", "validate", "force", "cas"},
         pc'[u] \notin {"count", "cache", "opened", "validate", "force", "cas"},
         pc[u] = "acquire" => meta' = meta,
         pc'[u] = "acquire" => loc'[u].copy = data[loc'[u].obj],
         pc'[u] = "checkField" => \E e \in Elements(invisReads[u]) :
           loc'[u].obj = e[1] /\ loc'[u].snap = Unowned(e[2]) /\ loc'[u].copy = data[e[1]] /\ meta' = meta /\ data' = data,
         Ended(u)' <=> Ended(u),
         pc'[u] = "idle" \/ loc'[u].kind = "UN" => pc[u] = "idle" \/ loc[u].kind = "UN"
  PROVE  Moves(u) \/ Finishes(u)
<1>1. ~EndsOpen(u) /\ ~AtEnd(u) /\ ~EndsOpen(u)' /\ ~AtEnd(u)'
  BY DEF EndsOpen, AtEnd
<1>2. CASE Ended(u)
  BY <1>2 DEF Finishes
<1>3. CASE ~Ended(u)
  BY <1>1, <1>3, SameList DEF Moves, Runs, SameSeen
<1>4. QED
  BY <1>2, <1>3

\* abort.
LEMMA AbortKind ==
  ASSUME Inv, SeenType, NEW u \in Threads, Abort(u)
  PROVE  Finishes(u)
<1>1. /\ pc'[u] = "restore" /\ loc'[u] = NoLocals /\ seen'[u] = {}
      /\ attempt'[u] = attempt[u] /\ invisReads'[u] = invisReads[u] /\ writes'[u] = writes[u] /\ began'[u] = began[u]
  BY AllTypes DEF Abort, GoTo, private
<1>2. QED
  BY <1>1, NoLocalsType DEF Finishes, Ended

\* The statements of an open that change only the control and the locals, or what
\* others see.
LEMMA QuietKind ==
  ASSUME Inv, SeenType, NEW u \in Threads, 
         LookAtOwner(u) \/ GiveWay(u) \/ KillOwner(u) \/ CleanOnAbort(u) \/ Lock(u) \/ Redo(u)
  PROVE  Moves(u) \/ Finishes(u)
<1>t. pc \in [Threads -> Labels] /\ loc \in [Threads -> Locals] /\ KindOK(u)
  BY AllTypes, ThreadFacts
<1>1. /\ invisReads' = invisReads /\ writes' = writes /\ cached' = cached /\ seen' = seen
      /\ attempt' = attempt /\ began' = began /\ committed' = committed
  BY DEF LookAtOwner, GiveWay, KillOwner, CleanOnAbort, Lock, Redo, OnlyGoTo, private, history
<1>2. loc'[u].kind = loc[u].kind
  BY <1>t DEF LookAtOwner, GiveWay, KillOwner, CleanOnAbort, Lock, Redo, OnlyGoTo, private, history, Locals
<1>3. /\ pc[u] \in {"look", "decide", "cleanAbort", "lock", "redo"}
      /\ pc'[u] \in {"recheck", "contend", "cleanAbort", "load", "redo", "release"}
      /\ pc[u] = "redo" <=> pc'[u] = "release"
      /\ pc'[u] = "redo" => pc[u] = "lock"
  BY <1>t DEF LookAtOwner, GiveWay, KillOwner, CleanOnAbort, Lock, Redo, OnlyGoTo, GoTo
<1>4. Ended(u)' <=> Ended(u)
  BY <1>t, <1>2, <1>3 DEF Ended, KindOK
<1>5. QED
  BY <1>1, <1>2, <1>3, <1>4, StaysKind

\* The pairs of two lists, one after the other.
LEMMA ElementsConcat ==
  ASSUME NEW S, NEW s \in Seq(S), NEW r \in Seq(S)
  PROVE  s \o r \in Seq(S) /\ Elements(s \o r) = Elements(s) \cup Elements(r)
<1>1. PICK n \in Nat, m \in Nat : n = Len(s) /\ m = Len(r) /\ DOMAIN s = 1 .. n /\ DOMAIN r = 1 .. m
  OBVIOUS
<1>2. /\ s \o r \in Seq(S) /\ DOMAIN (s \o r) = 1 .. n + m
      /\ \A i \in 1 .. n : (s \o r)[i] = s[i]
      /\ \A i \in n + 1 .. n + m : (s \o r)[i] = r[i - n]
  BY <1>1
<1>3. ASSUME NEW i \in 1 .. n + m PROVE (s \o r)[i] \in Elements(s) \cup Elements(r)
  <2>1. CASE i <= n
    BY <1>1, <1>2, <2>1 DEF Elements
  <2>2. CASE ~(i <= n)
    <3>1. i \in n + 1 .. n + m /\ i - n \in 1 .. m
      BY <2>2
    <3>2. QED
      BY <1>1, <1>2, <3>1 DEF Elements
  <2>3. QED
    BY <2>1, <2>2
<1>4. ASSUME NEW i \in 1 .. n PROVE s[i] \in Elements(s \o r)
  <2>1. i \in 1 .. n + m
    BY <1>1
  <2>2. QED
    BY <1>2, <2>1 DEF Elements
<1>5. ASSUME NEW i \in 1 .. m PROVE r[i] \in Elements(s \o r)
  <2>1. i + n \in n + 1 .. n + m /\ i + n \in 1 .. n + m /\ (i + n) - n = i
    BY <1>1
  <2>2. (s \o r)[i + n] = r[i]
    BY <1>2, <2>1
  <2>3. QED
    BY <1>2, <2>1, <2>2 DEF Elements
<1>6. Elements(s \o r) \subseteq Elements(s) \cup Elements(r)
  <2>1. ASSUME NEW w \in Elements(s \o r) PROVE w \in Elements(s) \cup Elements(r)
    <3>1. PICK i \in 1 .. n + m : w = (s \o r)[i]
      BY <1>2 DEF Elements
    <3>2. QED
      BY <1>3, <3>1
  <2>2. QED
    BY <2>1
<1>7. Elements(s) \subseteq Elements(s \o r)
  <2>1. ASSUME NEW w \in Elements(s) PROVE w \in Elements(s \o r)
    <3>1. PICK i \in 1 .. n : w = s[i]
      BY <1>1 DEF Elements
    <3>2. QED
      BY <1>4, <3>1
  <2>2. QED
    BY <2>1
<1>8. Elements(r) \subseteq Elements(s \o r)
  <2>1. ASSUME NEW w \in Elements(r) PROVE w \in Elements(s \o r)
    <3>1. PICK i \in 1 .. m : w = r[i]
      BY <1>1 DEF Elements
    <3>2. QED
      BY <1>5, <3>1
  <2>2. QED
    BY <2>1
<1>9. QED
  BY <1>2, <1>6, <1>7, <1>8

\* The pairs of a list of entries.
LEMMA PairsElements ==
  ASSUME NEW s \in Seq(Entry), NEW w \in Elements(s)
  PROVE  <<w.obj, w.ver>> \in Elements(Pairs(s))
<1>1. PICK i \in DOMAIN s : w = s[i]
  BY DEF Elements
<1>2. i \in DOMAIN Pairs(s) /\ Pairs(s)[i] = <<w.obj, w.ver>>
  BY <1>1 DEF Pairs
<1>3. QED
  BY <1>2 DEF Elements

\* What Validating leaves to check.
LEMMA ValidatingLists ==
  ASSUME NEW u \in Threads, pc \in [Threads -> Labels], loc \in [Threads -> Locals],
         NEW todo \in Seq(Pair), NEW goal \in {"opened", "force", "cas"}, Validating(u, todo, goal)
  PROVE  /\ Unchecked(u)' = Elements(todo) /\ SameOpen(u) /\ pc'[u] \in {goal, "validate"}
         /\ goal = "opened" => Passing(u)' /\ ~AtEnd(u)'
         /\ goal # "opened" => AtEnd(u)' /\ ~Passing(u)'
         /\ loc[u].kind # "UN" => ~Ended(u)'
<1>1. loc[u] \in Locals
  OBVIOUS
<1>2. PICK then \in {"work", "opened", "force", "cas"} : then = IF todo = <<>> THEN "work" ELSE goal
  OBVIOUS
<1>3. PICK l \in Locals : l = [loc[u] EXCEPT !.todo = todo, !.then = then]
  BY <1>1 DEF Locals
<1>4. /\ l.obj = loc[u].obj /\ l.kind = loc[u].kind
      /\ l.copy = loc[u].copy /\ l.then = then /\ l.todo = todo
  BY <1>1, <1>3 DEF Locals
<1>5. pc'[u] = IF todo = <<>> THEN goal ELSE "validate"
  BY DEF Validating, GoTo
<1>6. loc'[u] = l
  <2>1. loc' = [loc EXCEPT ![u].todo = todo, ![u].then = then]
    BY <1>2 DEF Validating
  <2>2. QED
    BY <2>1, <1>3
<1>7. SameOpen(u)
  BY <1>4, <1>6 DEF SameOpen
<1>8. Unchecked(u)' = Elements(todo)
  <2>1. CASE todo = <<>>
    <3>1. Elements(todo) = {}
      BY <2>1 DEF Elements
    <3>2. QED
      BY <1>5, <2>1, <3>1 DEF Unchecked
  <2>2. CASE todo # <<>>
    BY <1>4, <1>5, <1>6, <2>2 DEF Unchecked
  <2>3. QED
    BY <2>1, <2>2
<1>9. /\ goal = "opened" => Passing(u)' /\ ~AtEnd(u)'
      /\ goal # "opened" => AtEnd(u)' /\ ~Passing(u)'
  BY <1>2, <1>4, <1>5, <1>6 DEF Passing, AtEnd
<1>10. loc[u].kind # "UN" => ~Ended(u)'
  BY <1>4, <1>5, <1>6 DEF Ended
<1>11. QED
  BY <1>5, <1>7, <1>8, <1>9, <1>10

\* The statements between the opens and in the loop of an open.
LEMMA LoopKind ==
  ASSUME Inv, SeenType, NEW u \in Threads, 
         \/ \E o \in Objects, kind \in {"RO", "RW"} : Open(u, o, kind)
         \/ \E o \in Objects : OpenUn(u, o)
         \/ Contend(u) \/ Recheck(u) \/ ReleaseLock(u)
  PROVE  Moves(u) \/ Finishes(u)
<1>t. pc \in [Threads -> Labels] /\ loc \in [Threads -> Locals] /\ KindOK(u)
  BY AllTypes, ThreadFacts
<1> SUFFICES ASSUME ~Abort(u) PROVE Moves(u) \/ Finishes(u)
  BY AbortKind
<1>1. /\ invisReads' = invisReads /\ writes' = writes /\ cached' = cached /\ seen' = seen
      /\ attempt' = attempt /\ began' = began /\ committed' = committed
  BY DEF Open, OpenUn, Contend, Recheck, ReleaseLock, private, history
<1>2. CASE \E o \in Objects, kind \in {"RO", "RW"} : Open(u, o, kind)
  <2>1. PICK o \in Objects, kind \in {"RO", "RW"} : Open(u, o, kind)
    BY <1>2
  <2>2. loc'[u] = Start(o, kind) /\ pc[u] = "work" /\ pc'[u] = "load"
    BY <1>t, <2>1 DEF Open, Start, GoTo
  <2>3. loc'[u].kind = kind
    BY <2>2, StartType
  <2>4. QED
    BY <1>1, <1>t, <2>2, <2>3, StaysKind DEF Ended, KindOK
<1>3. CASE \E o \in Objects : OpenUn(u, o)
  <2>1. PICK o \in Objects : OpenUn(u, o)
    BY <1>3
  <2>2. loc'[u] = Start(o, "UN") /\ pc[u] = "idle" /\ pc'[u] = "load"
    BY <1>t, <2>1 DEF OpenUn, Start, GoTo
  <2>3. loc'[u].kind = "UN"
    BY <2>2, StartType
  <2>4. QED
    BY <1>1, <1>t, <2>2, <2>3, StaysKind DEF Ended, KindOK
<1>4. CASE Contend(u)
  <2>0. loc[u].obj \in Objects /\ loc[u].kind \in {"RO", "RW", "UN"} /\ pc[u] = "contend"
    BY <1>4, <1>t, LocTypes DEF Contend, KindOK
  <2>1. loc'[u] = Start(loc[u].obj, loc[u].kind) /\ pc'[u] = "load"
    BY <1>t, <1>4 DEF Contend, Start, GoTo
  <2>2. loc'[u].kind = loc[u].kind
    BY <2>0, <2>1, StartType
  <2>3. QED
    BY <1>1, <1>t, <2>0, <2>1, <2>2, StaysKind DEF Ended
<1>5. CASE Recheck(u)
  <2>0. SnapOK(u) /\ pc[u] = "recheck" /\ loc[u].state \in States
    BY <1>5, ThreadFacts, LocTypes DEF Recheck
  <2>1. /\ pc'[u] \in {"load", "work", "decide", "cleanAbort", "lock"}
        /\ loc'[u] = IF pc'[u] = "work" THEN NoLocals ELSE loc[u]
        /\ pc'[u] = "work" => loc[u].snap.owner = u /\ loc[u].state = "ACTIVE"
    <3>1. PICK mine \in BOOLEAN, same \in BOOLEAN, state \in States :
            mine = (loc[u].snap.owner = u) /\ same = IsSnapshot(u) /\ state = loc[u].state
      BY <2>0 DEF IsSnapshot
    <3>2. PICK label : label = CASE ~same -> "load"
                     [] same /\ state = "ACTIVE" /\ mine -> "work"
                     [] same /\ state = "ACTIVE" /\ ~mine -> "decide"
                     [] same /\ state = "ABORTED" -> "cleanAbort"
                     [] same /\ state = "COMMITTED" -> "lock"
      OBVIOUS
    <3>3. pc'[u] = label /\ loc'[u] = IF label = "work" THEN NoLocals ELSE loc[u]
      BY <1>t, <1>5, <3>1, <3>2 DEF Recheck, GoTo
    <3>4. label \in {"load", "work", "decide", "cleanAbort", "lock"} /\ (label = "work" => mine /\ state = "ACTIVE")
      BY <3>1, <3>2 DEF States
    <3>5. QED
      BY <3>1, <3>3, <3>4
  <2>2. pc'[u] = "work" => loc[u].kind # "UN"
    BY <2>0, <2>1 DEF SnapOK
  <2>3. Ended(u)' <=> Ended(u)
    BY <2>0, <2>1, <2>2, NoLocalsType DEF Ended
  <2>4. pc'[u] # "idle" /\ (loc'[u].kind = "UN" => loc[u].kind = "UN")
    BY <2>1, NoLocalsType
  <2>5. QED
    BY <1>1, <2>0, <2>1, <2>3, <2>4, StaysKind
<1>6. CASE ReleaseLock(u)
  <2>1. /\ pc[u] = "release" /\ pc'[u] = loc[u].then
        /\ loc'[u] = IF loc[u].then = "load" THEN loc[u] ELSE NoLocals
        /\ loc[u].then = IF loc[u].kind = "none" THEN "restore" ELSE "load"
    BY <1>t, <1>6 DEF ReleaseLock, GoTo, KindOK
  <2>2. QED
    BY <1>1, <2>1, NoLocalsType, StaysKind DEF Ended
<1>7. QED
  BY <1>2, <1>3, <1>4, <1>5, <1>6

\* The snapshot, and the list of reads when the object is free.
LEMMA LoadKind ==
  ASSUME Inv, SeenType, HistInv, NEW u \in Threads, Load(u)
  PROVE  Moves(u) \/ Finishes(u) \/ Inserts(u) \/ Repeats(u)
<1>t. pc \in [Threads -> Labels] /\ loc \in [Threads -> Locals] /\ KindOK(u) /\ WritesOK(u) /\ PhaseOK(u)
  BY AllTypes, ThreadFacts
<1>o. PICK o \in Objects, s \in Meta : o = loc[u].obj /\ s = meta[o]
  BY LocTypes
<1>s. s.ver \in Nat /\ s.owner \in {Free, Locked} \cup Threads /\ Free # Locked
  BY MetaFacts
<1>k. pc[u] = "load" /\ loc[u].kind \in {"RO", "RW", "UN"}
  BY <1>t, LocTypes DEF Load, KindOK
<1>1. /\ UNCHANGED <<meta, data, txState, writes, cached, seen, attempt, began, committed>>
  BY DEF Load, shared, history
<1>3. CASE s.owner = Free /\ loc[u].kind = "RO"
  <2>1. InsertInvisRead(u, o, s.ver)
    BY <1>3, <1>o DEF Load
  <2>i. invisReads \in [Threads -> Seq(Pair)] /\ <<o, s.ver>> \in Pair /\ writes \in [Threads -> Seq(Entry)]
    BY <1>s, AllTypes DEF Pair
  <2>a. PICK list \in Seq(Pair), entry \in Pair : list = invisReads[u] /\ entry = <<o, s.ver>>
    BY <2>i
  <2>e. Elements(Append(list, entry)) = Elements(list) \cup {entry}
    BY ElementsAppend
  <2>2. CASE mode.counts
    <3>1. invisReads'[u] = Append(list, <<o, s.ver>>) /\ pc'[u] = "count" /\ loc'[u] = loc[u]
      BY <1>t, <2>1, <2>2, <2>i, <2>a DEF InsertInvisRead, GoTo
    <3>2. Elements(invisReads'[u]) = Elements(invisReads[u]) \cup {<<o, s.ver>>}
      BY <2>a, <2>e, <3>1
    <3>3. Runs(u)
      BY <1>1, <1>3, <1>k, <3>1 DEF Runs, Ended
    <3>4. QED
      BY <1>1, <1>3, <1>k, <1>o, <2>2, <3>1, <3>2, <3>3 DEF Inserts, Rests, BeginsCheck
  <2>3. CASE ~mode.counts
    <3> DEFINE known == {i \in DOMAIN invisReads[u] : invisReads[u][i][1] = o}
               upTo == IF known = {} THEN Len(invisReads[u])
                       ELSE CHOOSE i \in known : \A k \in known : i <= k
    <3>n. PICK m \in Nat : m = Len(list) /\ DOMAIN list = 1 .. m
      OBVIOUS
    <3>1. upTo \in 0 .. m
      <4>1. known \subseteq Nat /\ known \subseteq 1 .. m
        BY <2>a, <3>n
      <4>2. known = {} => upTo = m
        BY <2>a, <3>n
      <4> HIDE DEF known
      <4>3. known # {} => \E i \in known : \A k \in known : i <= k
        BY <4>1, NatLeast
      <4>4. known # {} => upTo \in known
        BY <4>3
      <4>5. m \in 0 .. m /\ 1 .. m \subseteq 0 .. m
        BY <3>n
      <4>6. CASE known = {}
        BY <4>2, <4>5, <4>6
      <4>7. CASE known # {}
        BY <4>1, <4>4, <4>5, <4>7
      <4>8. QED
        BY <4>6, <4>7
    <3>2. PICK todo \in Seq(Pair) : todo = SubSeq(list, 1, upTo) \o LazyPairs(u)
      BY <2>a, <3>n, <3>1, PairsType
    <3>3. Validating(u, todo, "opened")
      BY <2>1, <2>3, <2>a, <3>2 DEF InsertInvisRead
    <3>4. Unchecked(u)' = Elements(todo) /\ SameOpen(u) /\ Passing(u)' /\ ~Ended(u)'
      BY <1>3, <1>t, <3>3, ValidatingLists
    <3>5. Runs(u) /\ loc'[u].kind = "RO"
      BY <1>1, <1>3, <1>k, <3>4 DEF Runs, Ended, SameOpen
    <3>6. CASE known # {}
      <4>1. invisReads'[u] = invisReads[u]
        BY <2>1, <2>3, <2>i, <3>6 DEF InsertInvisRead
      <4>2. QED
        BY <1>1, <1>k, <2>3, <3>4, <3>5, <4>1 DEF Repeats, Rests, SameSeen
    <3>7. CASE known = {}
      <4>1. invisReads'[u] = Append(list, <<o, s.ver>>)
        BY <2>1, <2>i, <2>a, <3>7 DEF InsertInvisRead
      <4>2. Elements(invisReads'[u]) = Elements(invisReads[u]) \cup {<<o, s.ver>>}
        BY <2>a, <2>e, <4>1
      <4>3. todo = list \o LazyPairs(u) /\ LazyPairs(u) \in Seq(Pair)
        <5>1. upTo = m /\ SubSeq(list, 1, m) = list
          BY <2>a, <3>n, <3>7
        <5>2. QED
          BY <3>2, <5>1, PairsType
      <4>4. Elements(todo) = Elements(list) \cup Elements(LazyPairs(u))
        BY <4>3, ElementsConcat
      <4>5. \A e \in Elements(invisReads[u]) : e \in Unchecked(u)'
        BY <2>a, <3>4, <4>4
      <4>6. WritesUnchecked(u)'
        <5>1. ASSUME NEW w \in Elements(writes[u]), ~w.acquired PROVE <<w.obj, w.ver>> \in Elements(LazyPairs(u))
          <6>1. mode.isLazy
            BY <1>t, <5>1 DEF WritesOK
          <6>2. QED
            BY <2>i, <5>1, <6>1, PairsElements DEF LazyPairs
        <5>2. QED
          BY <1>1, <3>4, <4>4, <5>1 DEF WritesUnchecked
      <4>7. QED
        BY <1>1, <1>3, <1>k, <1>o, <2>3, <3>4, <3>5, <4>2, <4>5, <4>6 DEF Inserts, Rests, BeginsCheck
    <3>8. QED
      BY <3>6, <3>7
  <2>4. QED
    BY <2>2, <2>3
<1>4. CASE s.owner = Free /\ loc[u].kind = "UN"
  <2>1. loc'[u] = NoLocals /\ pc'[u] = "idle" /\ invisReads' = invisReads
    BY <1>t, <1>4, <1>o DEF Load, GoTo
  <2>2. QED
    BY <1>1, <1>4, <1>k, <2>1, NoLocalsType, StaysKind DEF Ended
<1>5. CASE ~(s.owner = Free /\ loc[u].kind = "RO") /\ ~(s.owner = Free /\ loc[u].kind = "UN")
  <2>1. invisReads' = invisReads /\ loc'[u].kind = loc[u].kind
    BY <1>t, <1>5, <1>o DEF Load, Locals
  <2>2. PICK label \in {"clone", "contend", "look"} :
          label = CASE s.owner = Free    -> "clone"
                    [] s.owner = Locked  -> "contend"
                    [] s.owner \in Threads -> "look"
    BY <1>s
  <2>3. pc'[u] = label
    BY <1>t, <1>5, <1>o, <2>2 DEF Load, GoTo
  <2>4. QED
    BY <1>1, <1>k, <2>1, <2>3, StaysKind DEF Ended
<1>6. QED
  BY <1>3, <1>4, <1>5

\* The fields, and the clone.
LEMMA FieldKind ==
  ASSUME Inv, SeenType, NEW u \in Threads,
         ReadField(u) \/ CheckField(u) \/ Release(u) \/ (Clone(u) /\ loc[u].kind = "RW")
  PROVE  Moves(u) \/ Finishes(u) \/ Finds(u) \/ Releases(u)
<1>t. /\ pc \in [Threads -> Labels] /\ loc \in [Threads -> Locals] /\ invisReads \in [Threads -> Seq(Pair)]
      /\ seen \in [Threads -> SUBSET (Objects \X Txs)] /\ KindOK(u)
  BY AllTypes, ThreadFacts
<1>1. CASE ReadField(u)
  <2>1. PICK i \in DOMAIN invisReads[u] :
           loc' = [loc EXCEPT ![u].obj = invisReads[u][i][1], ![u].snap = Unowned(invisReads[u][i][2]),
                              ![u].copy = data[invisReads[u][i][1]]]
    BY <1>1 DEF ReadField
  <2>2. PICK e : e = invisReads[u][i] /\ e \in Elements(invisReads[u])
    BY DEF Elements
  <2>3. loc'[u].obj = e[1] /\ loc'[u].snap = Unowned(e[2]) /\ loc'[u].copy = data[e[1]] /\ loc'[u].kind = loc[u].kind
    BY <1>t, <2>1, <2>2 DEF Locals
  <2>4. /\ pc[u] = "work" /\ pc'[u] = "checkField"
        /\ UNCHANGED <<meta, data, invisReads, writes, cached, seen, attempt, began, committed>>
    BY <1>t, <1>1 DEF ReadField, GoTo, shared, private, history
  <2>5. QED
    BY <1>t, <2>2, <2>3, <2>4, StaysKind DEF Ended, KindOK
<1>2. CASE CheckField(u)
  <2>1. CASE ~FieldIsValid(u)
    BY <1>2, <2>1, AbortKind DEF CheckField
  <2>2. CASE FieldIsValid(u)
    <3>1. /\ pc[u] = "checkField" /\ pc'[u] = "work" /\ loc'[u] = NoLocals
          /\ seen'[u] = seen[u] \cup {<<loc[u].obj, loc[u].copy>>}
          /\ UNCHANGED <<meta, data, txState, invisReads, writes, cached, attempt, began>>
      BY <1>t, <1>2, <2>2 DEF CheckField, GoTo, shared, private
    <3>2. Runs(u)
      BY <1>t, <3>1, NoLocalsType DEF Runs, Ended, KindOK
    <3>3. QED
      BY <2>2, <3>1, <3>2 DEF Finds, Rests, FieldIsValid
  <2>3. QED
    BY <2>1, <2>2
<1>3. CASE Release(u)
  <2>1. PICK i \in DOMAIN invisReads[u] :
           /\ invisReads' = [invisReads EXCEPT ![u] = RemoveAt(@, i)]
           /\ seen' = [seen EXCEPT ![u] =
                 IF IsWriteOf(u, invisReads[u][i][1]) THEN @ ELSE {r \in @ : r[1] # invisReads[u][i][1]}]
    BY <1>3 DEF Release
  <2>s. PICK s \in Seq(Pair), n \in Nat : s = invisReads[u] /\ n = Len(s) /\ DOMAIN s = 1 .. n
    BY <1>t
  <2>o. PICK o \in Objects : o = s[i][1]
    BY <2>s DEF Pair
  <2>i. i \in 1 .. n
    BY <2>s
  <2>a. PICK a \in Seq(Pair), b \in Seq(Pair) : a = SubSeq(s, 1, i - 1) /\ b = SubSeq(s, i + 1, n)
    <3>1. SubSeq(s, 1, i - 1) \in Seq(Pair)
      BY <2>s, <2>i
    <3>2. SubSeq(s, i + 1, n) \in Seq(Pair)
      BY <2>s, <2>i
    <3>3. QED
      BY <3>1, <3>2
  <2>2. invisReads'[u] = a \o b
    BY <1>t, <2>1, <2>s, <2>a DEF RemoveAt
  <2>3. Elements(invisReads'[u]) = Elements(a) \cup Elements(b)
    BY <2>2, ElementsConcat
  <2>4. DOMAIN a = 1 .. i - 1 /\ \A k \in 1 .. i - 1 : a[k] = s[k]
    BY <2>s, <2>a, <2>i
  <2>5. DOMAIN b = 1 .. n - i /\ \A k \in 1 .. n - i : b[k] = s[k + i]
    BY <2>s, <2>a, <2>i
  <2>d. \A k \in 1 .. n : s[k] \in Elements(s)
    BY <2>s DEF Elements
  <2>6. Elements(a) \subseteq Elements(s) /\ \A k \in 1 .. i - 1 : s[k] \in Elements(a)
    <3>1. ASSUME NEW w \in Elements(a) PROVE w \in Elements(s)
      <4>1. PICK k \in 1 .. i - 1 : w = a[k]
        BY <2>4 DEF Elements
      <4>2. k \in 1 .. n /\ w = s[k]
        BY <2>4, <2>i, <4>1
      <4>3. QED
        BY <2>d, <4>2
    <3>2. ASSUME NEW k \in 1 .. i - 1 PROVE s[k] \in Elements(a)
      BY <2>4 DEF Elements
    <3>3. QED
      BY <3>1, <3>2
  <2>7. Elements(b) \subseteq Elements(s) /\ \A k \in i + 1 .. n : s[k] \in Elements(b)
    <3>1. \A k \in 1 .. n - i : k + i \in 1 .. n
      BY <2>i
    <3>2. ASSUME NEW k \in i + 1 .. n PROVE s[k] \in Elements(b)
      <4>1. k - i \in 1 .. n - i /\ (k - i) + i = k
        BY <2>i
      <4>2. QED
        BY <2>5, <4>1 DEF Elements
    <3>3. ASSUME NEW w \in Elements(b) PROVE w \in Elements(s)
      <4>1. PICK k \in 1 .. n - i : w = b[k]
        BY <2>5 DEF Elements
      <4>2. k + i \in 1 .. n /\ w = s[k + i]
        BY <2>5, <3>1, <4>1
      <4>3. QED
        BY <2>d, <4>2
    <3>4. QED
      BY <3>2, <3>3
  <2>8. \A e \in Elements(s) : e[1] # o => e \in Elements(a) \cup Elements(b)
    <3>1. ASSUME NEW k \in 1 .. n, s[k][1] # o PROVE s[k] \in Elements(a) \cup Elements(b)
      <4>1. k \in 1 .. i - 1 \/ k \in i + 1 .. n
        BY <2>i, <2>o, <3>1
      <4>2. QED
        BY <2>6, <2>7, <4>1
    <3>2. QED
      BY <2>s, <3>1 DEF Elements
  <2>9. seen'[u] = IF \E w \in Elements(writes[u]) : w.obj = o THEN seen[u] ELSE {r \in seen[u] : r[1] # o}
    <3>1. IsWriteOf(u, o) <=> \E w \in Elements(writes[u]) : w.obj = o
      BY DEF IsWriteOf, Elements
    <3>2. QED
      BY <1>t, <2>1, <2>s, <2>o, <3>1
  <2>10. /\ pc[u] = "work" /\ pc'[u] = "work" /\ loc'[u] = loc[u]
         /\ UNCHANGED <<meta, data, txState, writes, cached, attempt, began>>
    BY <1>3 DEF Release, shared
  <2>11. Runs(u)
    BY <1>t, <2>10 DEF Runs, Ended, KindOK
  <2>12. QED
    BY <2>3, <2>6, <2>7, <2>8, <2>9, <2>10, <2>11, <2>s DEF Releases, Rests
<1>4. CASE Clone(u) /\ loc[u].kind = "RW"
  <2>1. loc'[u].obj = loc[u].obj /\ loc'[u].kind = loc[u].kind /\ loc'[u].copy = data[loc[u].obj]
    BY <1>t, <1>4 DEF Clone, Locals
  <2>2. /\ pc[u] = "clone" /\ pc'[u] = "acquire"
        /\ UNCHANGED <<invisReads, writes, cached, seen, attempt, began, committed>>
    BY <1>t, <1>4 DEF Clone, GoTo, private, history
  <2>3. QED
    BY <2>1, <2>2, StaysKind DEF Ended
<1>5. QED
  BY <1>1, <1>2, <1>3, <1>4

\* An open for writing takes the object, or it has changed hands.
LEMMA AcquireKind ==
  ASSUME Inv, SeenType, NEW u \in Threads, Acquire(u), loc[u].kind = "RW"
  PROVE  Moves(u) \/ Finishes(u) \/ Takes(u)
<1>t. /\ pc \in [Threads -> Labels] /\ loc \in [Threads -> Locals] /\ invisReads \in [Threads -> Seq(Pair)]
      /\ writes \in [Threads -> Seq(Entry)] /\ KindOK(u) /\ WritesOK(u) /\ SnapOK(u) /\ PhaseOK(u)
  BY AllTypes, ThreadFacts
<1>o. PICK o \in Objects, s \in Meta, c \in Txs : o = loc[u].obj /\ s = loc[u].snap /\ c = loc[u].copy
  BY LocTypes
<1>p. pc[u] = "acquire" /\ s.owner = Free /\ s.ver \in Nat
  BY <1>t, <1>o, MetaFacts DEF Acquire, SnapOK
<1>g. PICK log : log = NewLog(u, o)
  OBVIOUS
<1>1. /\ log \in Logs /\ ~Ended(u)
      /\ IsWriteOf(u, o) <=> \E w \in Elements(writes[u]) : w.obj = o
      /\ IsWriteOf(u, o) => ~mode.isLazy
  BY <1>o, <1>p, <1>g, NewLogFacts
<1>b. PICK b \in BOOLEAN, v \in Nat : b = ~mode.isLazy /\ v = s.ver
  BY <1>p, Types
<1>f. [obj |-> o, ver |-> v, log |-> log, read |-> c, acquired |-> b] \in Entry
  BY <1>1 DEF Entry
<1>h. PICK e \in Entry : e = [obj |-> o, ver |-> v, log |-> log, read |-> c, acquired |-> b]
  BY <1>f
<1>e. e.obj = o /\ e.ver = s.ver /\ e.log = log /\ e.read = c /\ e.acquired = ~mode.isLazy
  BY <1>b, <1>h
<1>2. /\ UNCHANGED <<data, txState, attempt, cached, invisReads, seen, began, committed>>
      /\ IF mode.isLazy \/ meta[o] = s
         THEN /\ writes' = [writes EXCEPT ![u] = Append(writes[u], e)]
              /\ IF mode.counts
                 THEN GoTo(u, "count") /\ UNCHANGED loc
                 ELSE Validating(u, invisReads[u] \o (IF mode.isLazy THEN Pairs(writes'[u]) ELSE <<>>), "opened")
         ELSE GoTo(u, "contend") /\ UNCHANGED <<meta, writes, loc>>
  BY <1>o, <1>g, <1>b, <1>h DEF Acquire, history
<1>3. CASE ~(mode.isLazy \/ meta[o] = s)
  <2>1. pc'[u] = "contend" /\ loc' = loc /\ meta' = meta /\ writes' = writes
    BY <1>t, <1>2, <1>3 DEF GoTo
  <2>2. QED
    BY <1>1, <1>2, <1>p, <1>o, <2>1, StaysKind DEF Ended
<1>4. CASE mode.isLazy \/ meta[o] = s
  <2>1. writes'[u] = Append(writes[u], e) /\ writes'[u] \in Seq(Entry)
    <3>1. writes' = [writes EXCEPT ![u] = Append(writes[u], e)]
      BY <1>2, <1>4
    <3>2. writes[u] \in Seq(Entry) /\ writes'[u] = Append(writes[u], e)
      BY <1>t, <3>1
    <3>3. QED
      BY <3>2, ElementsAppend
  <2>2. Elements(writes'[u]) = Elements(writes[u]) \cup {e}
    BY <1>t, <2>1, ElementsAppend
  <2>3. SameOpen(u) /\ BeginsCheck(u) /\ ~Ended(u)' /\ (~mode.counts => ListUnchecked(u)' /\ WritesUnchecked(u)')
    <3>1. CASE mode.counts
      <4>1. pc'[u] = "count" /\ loc'[u] = loc[u]
        BY <1>t, <1>2, <1>4, <3>1 DEF GoTo
      <4>2. QED
        BY <3>1, <4>1 DEF SameOpen, BeginsCheck, Ended
    <3>2. CASE ~mode.counts
      <4>1. PICK pairs \in Seq(Pair) : pairs = (IF mode.isLazy THEN Pairs(writes'[u]) ELSE <<>>)
        <5>1. Pairs(writes'[u]) \in Seq(Pair)
          BY <2>1, PairsSeq
        <5>2. <<>> \in Seq(Pair)
          OBVIOUS
        <5>3. QED
          BY <5>1, <5>2
      <4>2. PICK todo \in Seq(Pair) : todo = invisReads[u] \o pairs
        BY <1>t, <4>1, ElementsConcat
      <4>3. Elements(todo) = Elements(invisReads[u]) \cup Elements(pairs)
        <5>1. PICK list \in Seq(Pair) : list = invisReads[u]
          BY <1>t
        <5>2. Elements(list \o pairs) = Elements(list) \cup Elements(pairs)
          BY ElementsConcat
        <5>3. QED
          BY <4>2, <5>1, <5>2
      <4>4. Validating(u, todo, "opened")
        BY <1>2, <1>4, <3>2, <4>1, <4>2
      <4>5. Unchecked(u)' = Elements(todo) /\ SameOpen(u) /\ Passing(u)' /\ ~Ended(u)'
        BY <1>t, <4>4, ValidatingLists
      <4>6. ListUnchecked(u)'
        BY <1>2, <4>3, <4>5 DEF ListUnchecked
      <4>7. ASSUME NEW w \in Elements(writes'[u]), ~w.acquired PROVE <<w.obj, w.ver>> \in Elements(pairs)
        <5>1. mode.isLazy
          BY <1>t, <1>e, <2>2, <4>7 DEF WritesOK
        <5>2. QED
          BY <2>1, <4>1, <4>7, <5>1, PairsElements
      <4>8. WritesUnchecked(u)'
        BY <4>3, <4>5, <4>7 DEF WritesUnchecked
      <4>9. QED
        BY <3>2, <4>5, <4>6, <4>8 DEF BeginsCheck
    <3>3. QED
      BY <3>1, <3>2
  <2>4. ASSUME txState[u] = "ACTIVE", NEW w \in Elements(writes[u]), w.obj = o PROVE FALSE
    <3>1. ~mode.isLazy /\ w.acquired
      BY <1>1, <1>t, <2>4 DEF WritesOK
    <3>2. meta[o] = Owned(u, w.log, w.ver)
      BY <1>t, <2>4, <3>1 DEF WritesOK
    <3>3. meta[o].owner = u
      BY <3>2, EntryFacts, MetaFacts
    <3>4. QED
      BY <1>4, <1>p, <3>1, <3>3, MetaFacts
  <2>5. Runs(u)
    BY <1>1, <1>2, <2>3 DEF Runs
  <2>6. e \in Elements(writes'[u]) /\ \A w \in Elements(writes[u]) : txState[u] = "ACTIVE" => w.obj # e.obj
    BY <1>e, <2>2, <2>4
  <2>7. QED
    BY <1>2, <1>e, <1>o, <1>p, <2>2, <2>3, <2>5, <2>6 DEF Takes, SameSeen
<1>5. QED
  BY <1>3, <1>4

\* A pair is looked at.
LEMMA ValidateKind ==
  ASSUME Inv, SeenType, NEW u \in Threads, Validate(u)
  PROVE  Finishes(u) \/ Checks(u)
<1>t. pc \in [Threads -> Labels] /\ loc \in [Threads -> Locals] /\ KindOK(u)
  BY AllTypes, ThreadFacts
<1>1. /\ pc[u] = "validate" /\ loc[u].todo # <<>> /\ loc[u].todo \in Seq(Pair)
      /\ loc[u].then \in {"opened", "force", "cas"} /\ loc[u].kind # "UN"
      /\ ~Ended(u)
  BY <1>t, LocTypes DEF Validate, KindOK, Ended
<1>2. CASE Abort(u)
  BY <1>2, AbortKind
<1>3. CASE ~Abort(u)
  <2>1. PICK todo \in Seq(Pair), goal \in {"opened", "force", "cas"}, e \in Pair :
          todo = Tail(loc[u].todo) /\ goal = loc[u].then /\ e = Head(loc[u].todo)
    BY <1>1, ElementsTail
  <2>2. isCurrent(u, e[1], e[2]) /\ Validating(u, todo, goal) /\ UNCHANGED <<shared, private, history>>
    BY <1>3, <2>1 DEF Validate
  <2>3. Elements(loc[u].todo) = {e} \cup Elements(todo)
    BY <1>1, <2>1, ElementsTail
  <2>4. /\ Unchecked(u)' = Elements(todo) /\ SameOpen(u) /\ ~Ended(u)'
        /\ goal = "opened" => Passing(u)' /\ ~AtEnd(u)'
        /\ goal # "opened" => AtEnd(u)' /\ ~Passing(u)'
    BY <1>1, <1>t, <2>2, ValidatingLists
  <2>5. Unchecked(u) = {e} \cup Elements(todo)
    BY <1>1, <2>3 DEF Unchecked
  <2>6. (Passing(u) <=> goal = "opened") /\ (AtEnd(u) <=> goal # "opened")
    BY <1>1, <2>1 DEF Passing, AtEnd
  <2>7. QED
    BY <1>1, <2>2, <2>4, <2>5, <2>6 DEF Checks, Runs, Rests, SameSeen, shared, private, history
<1>4. QED
  BY <1>2, <1>3

\* The commit counter is looked at.
LEMMA CounterKind ==
  ASSUME Inv, SeenType, HistInv, NEW u \in Threads, CheckCounter(u) \/ CacheCounter(u)
  PROVE  Counts(u) \/ Skips(u) \/ Caches(u)
<1>t. /\ pc \in [Threads -> Labels] /\ loc \in [Threads -> Locals] /\ KindOK(u)
      /\ cached \in [Threads -> 0 .. counter] /\ invisReads \in [Threads -> Seq(Pair)]
  BY AllTypes, ThreadFacts
<1>1. mode.counts /\ ~Ended(u)
  BY <1>t DEF CheckCounter, CacheCounter, KindOK, Ended, HistInv, LocalOK, ModeOK
<1>2. CASE CheckCounter(u)
  <2>1. /\ pc[u] = "count" /\ pc'[u] = IF cached[u] = counter THEN "opened" ELSE "cache"
        /\ UNCHANGED <<shared, private, loc, history>>
    BY <1>t, <1>2 DEF CheckCounter, OnlyGoTo, GoTo
  <2>2. Runs(u) /\ Rests(u) /\ SameSeen(u) /\ SameOpen(u) /\ cached'[u] = cached[u]
    BY <1>t, <1>1, <2>1 DEF Runs, Rests, SameSeen, SameOpen, Ended, KindOK, shared, private, history
  <2>3. QED
    BY <1>1, <2>1, <2>2 DEF Counts, Skips
<1>3. CASE CacheCounter(u)
  <2>1. PICK todo \in Seq(Pair) : todo = invisReads[u] \o LazyPairs(u)
    BY PairsType
  <2>2. /\ pc[u] = "cache" /\ cached'[u] = counter /\ Validating(u, todo, "opened")
        /\ UNCHANGED <<meta, data, txState, attempt, invisReads, writes, seen, began>>
    BY <1>t, <1>3, <2>1 DEF CacheCounter, shared, history
  <2>3. Elements(todo) = Elements(invisReads[u]) \cup Elements(LazyPairs(u))
    BY <2>1, PairsType, ElementsConcat
  <2>4. Unchecked(u)' = Elements(todo) /\ SameOpen(u) /\ Passing(u)' /\ (loc[u].kind # "UN" => ~Ended(u)')
    BY <1>t, <2>2, ValidatingLists
  <2>5. loc[u].kind # "UN"
    BY <1>t, <2>2 DEF KindOK
  <2>6. QED
    BY <1>1, <2>2, <2>3, <2>4, <2>5 DEF Caches, Runs, Rests, SameSeen, ListUnchecked
<1>4. QED
  BY <1>2, <1>3

\* The open returns.
LEMMA OpenedKind ==
  ASSUME Inv, SeenType, NEW u \in Threads, Opened(u)
  PROVE  Finishes(u) \/ Returns(u)
<1>t. /\ pc \in [Threads -> Labels] /\ loc \in [Threads -> Locals] /\ KindOK(u)
      /\ seen \in [Threads -> SUBSET (Objects \X Txs)]
  BY AllTypes, ThreadFacts
<1>1. CASE Killed(u)
  BY <1>1, AbortKind DEF Opened
<1>2. CASE ~Killed(u)
  <2>1. /\ pc[u] = "opened" /\ pc'[u] = "work" /\ loc'[u] = NoLocals
        /\ seen'[u] = IF loc[u].kind = "RW" THEN seen[u] \cup {<<loc[u].obj, loc[u].copy>>} ELSE seen[u]
        /\ UNCHANGED <<meta, data, txState, invisReads, writes, cached, attempt, began>>
    BY <1>t, <1>2 DEF Opened, GoTo, shared, private
  <2>2. Runs(u)
    BY <1>t, <2>1, NoLocalsType DEF Runs, Ended, KindOK
  <2>3. QED
    BY <1>2, <2>1, <2>2 DEF Returns, Rests
<1>3. QED
  BY <1>1, <1>2

\* The list of reads is validated before the commit.
LEMMA VerifyKind ==
  ASSUME Inv, SeenType, NEW u \in Threads, VerifyInvisReads(u), loc[u].kind = "none", invisReads'[u] = invisReads[u]
  PROVE  ListUnchecked(u)' /\ SameOpen(u) /\ AtEnd(u)' /\ ~Ended(u)'
<1>t. pc \in [Threads -> Labels] /\ loc \in [Threads -> Locals]
  BY AllTypes
<1>1. PICK todo \in Seq(Pair), goal \in {"force", "cas"} :
        todo = invisReads[u] /\ goal = IF mode.counts /\ writes[u] # <<>> THEN "force" ELSE "cas"
  BY AllTypes
<1>2. Validating(u, todo, goal)
  BY <1>1 DEF VerifyInvisReads
<1>3. Unchecked(u)' = Elements(todo) /\ SameOpen(u) /\ AtEnd(u)' /\ ~Ended(u)'
  BY <1>t, <1>2, ValidatingLists
<1>4. QED
  BY <1>1, <1>3 DEF ListUnchecked

\* The commit begins.
LEMMA CommitKind ==
  ASSUME Inv, SeenType, NEW u \in Threads, Commit(u)
  PROVE  Finishes(u) \/ Moves(u) \/ Decides(u)
<1>t. pc \in [Threads -> Labels] /\ loc \in [Threads -> Locals] /\ KindOK(u)
  BY AllTypes, ThreadFacts
<1>1. /\ pc[u] = "work" /\ loc[u].kind = "none" /\ ~Ended(u)
      /\ UNCHANGED <<meta, data, txState, counter, mode, attempt, cached, invisReads, writes, seen, began, committed>>
  BY <1>t DEF Commit, KindOK, Ended, shared, private, history
<1>2. CASE txState[u] # "ACTIVE"
  <2>1. pc'[u] = "restore" /\ loc' = loc
    BY <1>t, <1>2 DEF Commit, GoTo
  <2>2. QED
    BY <1>1, <2>1 DEF Finishes, Ended
<1>3. CASE txState[u] = "ACTIVE" /\ mode.isLazy /\ writes[u] # <<>>
  <2>1. pc'[u] = "acquireLazily" /\ loc' = loc
    BY <1>t, <1>3 DEF Commit, GoTo
  <2>2. QED
    BY <1>1, <2>1, StaysKind DEF Ended
<1>4. CASE txState[u] = "ACTIVE" /\ ~(mode.isLazy /\ writes[u] # <<>>)
  <2>1. Acquired(u)
    BY <1>4 DEF Commit
  <2>2. CASE mode.counts
    <3>1. pc'[u] = "tryCommit" /\ loc' = loc
      BY <1>t, <2>1, <2>2 DEF Acquired, GoTo
    <3>2. QED
      BY <1>1, <3>1, StaysKind DEF Ended
  <2>3. CASE ~mode.counts
    <3>1. ListUnchecked(u)' /\ SameOpen(u) /\ AtEnd(u)' /\ ~Ended(u)'
      BY <1>1, <2>1, <2>3, VerifyKind DEF Acquired
    <3>2. QED
      BY <1>1, <2>3, <3>1, SameList DEF Decides, Runs, SameSeen
  <2>4. QED
    BY <2>2, <2>3
<1>5. QED
  BY <1>2, <1>3, <1>4

\* The commit of a lazy transaction acquires an object.
LEMMA AcquireLazilyKind ==
  ASSUME Inv, SeenType, HistInv, NEW u \in Threads, AcquireLazily(u)
  PROVE  Finishes(u) \/ Moves(u) \/ Decides(u)
<1>t. /\ pc \in [Threads -> Labels] /\ loc \in [Threads -> Locals] /\ KindOK(u) /\ WritesOK(u)
      /\ writes \in [Threads -> Seq(Entry)]
  BY AllTypes, ThreadFacts
<1>0. pc[u] = "acquireLazily" /\ loc[u].kind = "none" /\ ~Ended(u) /\ mode.isLazy
  BY <1>t DEF AcquireLazily, KindOK, WritesOK, Ended
<1>c. ~mode.counts
  BY <1>0 DEF HistInv
<1>l. PICK left : left = {j \in DOMAIN writes[u] : ~writes[u][j].acquired}
  OBVIOUS
<1>i. PICK i : i = CHOOSE k \in left : \A m \in left : k <= m
  OBVIOUS
<1>1. i \in DOMAIN writes[u] /\ ~writes[u][i].acquired
  BY <1>0, <1>l, <1>i, FirstUnacquired
<1>2. CASE Abort(u)
  BY <1>2, AbortKind
<1>3. CASE ~Abort(u)
  <2>1. /\ writes' = [writes EXCEPT ![u][i].acquired = TRUE]
        /\ IF left = {i} THEN Acquired(u) ELSE UNCHANGED <<pc, loc>>
        /\ UNCHANGED <<data, txState, counter, attempt, cached, invisReads, seen, began, committed>>
    BY <1>3, <1>l, <1>i DEF AcquireLazily, history
  <2>2. SameWrites(u)
    <3>s. PICK s \in Seq(Entry), n \in Nat : s = writes[u] /\ n = Len(s) /\ DOMAIN s = 1 .. n
      BY <1>t
    <3>w. PICK w \in Entry : w = s[i]
      BY <1>1, <3>s
    <3>f. [w EXCEPT !.acquired = TRUE] \in Entry
      BY DEF Entry
    <3>g. PICK e \in Entry : e = [w EXCEPT !.acquired = TRUE]
      BY <3>f
    <3>e. e.obj = w.obj /\ e.ver = w.ver /\ e.read = w.read
      BY <3>g DEF Entry
    <3>r. PICK r : r = [s EXCEPT ![i] = e]
      OBVIOUS
    <3>1. writes'[u] = r
      <4>1. [writes[u] EXCEPT ![i].acquired = TRUE] = r
        BY <3>s, <3>w, <3>g, <3>r
      <4>2. QED
        BY <1>t, <2>1, <4>1
    <3>2. DOMAIN r = DOMAIN s /\ r[i] = e /\ \A j \in DOMAIN s : j # i => r[j] = s[j]
      BY <1>1, <3>s, <3>r
    <3>3. \A j \in DOMAIN s : SameEntry(s[j], r[j])
      BY <3>2, <3>w, <3>e DEF SameEntry
    <3>4. QED
      BY <3>s, <3>1, <3>2, <3>3 DEF SameWrites, Elements
  <2>3. CASE left = {i}
    <3>1. ListUnchecked(u)' /\ SameOpen(u) /\ AtEnd(u)' /\ ~Ended(u)'
      BY <1>0, <1>c, <2>1, <2>3, VerifyKind DEF Acquired
    <3>m. mode' = mode
      BY <1>3 DEF AcquireLazily
    <3>2. QED
      BY <1>0, <1>c, <2>1, <2>2, <3>1 DEF Decides, Runs, SameSeen
  <2>4. CASE left # {i}
    <3>1. pc' = pc /\ loc' = loc
      BY <2>1, <2>4
    <3>2. ~EndsOpen(u) /\ ~EndsOpen(u)' /\ ~AtEnd(u) /\ ~AtEnd(u)' /\ ~Ended(u)'
      BY <1>0, <3>1 DEF EndsOpen, AtEnd, Ended
    <3>3. QED
      BY <1>0, <2>1, <2>2, <3>1, <3>2 DEF Moves, Runs, SameSeen
  <2>5. QED
    BY <2>3, <2>4
<1>4. QED
  BY <1>2, <1>3

\* tryCommit and forceCommit.
LEMMA CountKind ==
  ASSUME Inv, SeenType, HistInv, NEW u \in Threads, TryCommit(u) \/ ForceCommit(u)
  PROVE  Decides(u) \/ Forces(u)
<1>t. /\ pc \in [Threads -> Labels] /\ loc \in [Threads -> Locals] /\ KindOK(u)
      /\ cached \in [Threads -> 0 .. counter] /\ counter \in Nat
  BY AllTypes, ThreadFacts
<1>c. pc[u] = "tryCommit" => mode.counts
  BY DEF HistInv, LocalOK, ModeOK
<1>1. /\ loc[u].kind = "none" /\ ~Ended(u)
      /\ UNCHANGED <<meta, data, txState, attempt, cached, invisReads, writes, seen, began, committed>>
  BY <1>t DEF TryCommit, ForceCommit, KindOK, Ended, private, history
<1>2. CASE TryCommit(u)
  <2>1. cached[u] <= counter /\ cached[u] \in Nat
    BY <1>t
  <2>2. CASE counter = cached[u]
    <3>1. /\ pc'[u] = "cas" /\ loc' = loc /\ pc[u] = "tryCommit"
          /\ counter' = IF writes[u] # <<>> THEN counter + 1 ELSE counter
      BY <1>t, <1>2, <2>2 DEF TryCommit, GoTo
    <3>2. writes'[u] # <<>> => cached[u] < counter'
      BY <1>1, <1>t, <2>2, <3>1
    <3>3. AtEnd(u)' /\ ~Ended(u)'
      BY <1>1, <3>1 DEF AtEnd, Ended
    <3>4. QED
      BY <1>1, <1>c, <2>2, <3>1, <3>2, <3>3, SameList DEF Decides, Runs, SameSeen
  <2>3. CASE counter # cached[u]
    <3>1. VerifyInvisReads(u) /\ pc[u] = "tryCommit" /\ counter' = counter
      BY <1>2, <2>3 DEF TryCommit
    <3>2. ListUnchecked(u)' /\ AtEnd(u)' /\ ~Ended(u)'
      BY <1>1, <3>1, VerifyKind
    <3>3. cached[u] < counter'
      BY <1>t, <2>1, <2>3, <3>1
    <3>4. QED
      BY <1>1, <3>1, <3>2, <3>3, SameList DEF Decides, Runs, SameSeen
  <2>4. QED
    BY <2>2, <2>3
<1>3. CASE ForceCommit(u)
  <2>1. pc[u] = "force" /\ pc'[u] = "cas" /\ loc' = loc
    BY <1>t, <1>3 DEF ForceCommit, GoTo
  <2>2. QED
    BY <1>1, <2>1 DEF Forces, Runs, Rests, SameSeen, Ended
<1>4. QED
  BY <1>2, <1>3

\* The commit point, and the cleanup.
LEMMA CleanupKind ==
  ASSUME Inv, SeenType, NEW u \in Threads, CommitCas(u) \/ RestoreObject(u) \/ EndTransaction(u)
  PROVE  Finishes(u)
<1>t. /\ pc \in [Threads -> Labels] /\ loc \in [Threads -> Locals] /\ KindOK(u)
      /\ writes \in [Threads -> Seq(Entry)] /\ invisReads \in [Threads -> Seq(Pair)]
      /\ seen \in [Threads -> SUBSET (Objects \X Txs)] /\ began \in [Threads -> SUBSET Txs]
  BY AllTypes, ThreadFacts
<1>1. CASE CommitCas(u)
  <2>1. /\ pc'[u] = "restore" /\ loc'[u] = NoLocals /\ seen'[u] = {}
        /\ UNCHANGED <<attempt, invisReads, writes, began>>
    BY <1>t, <1>1 DEF CommitCas, GoTo, private
  <2>2. QED
    BY <2>1, NoLocalsType DEF Finishes, Ended
<1>2. CASE RestoreObject(u)
  <2>1. UNCHANGED <<attempt, invisReads, seen, began, committed>> /\ pc[u] = "restore" /\ loc[u].kind = "none"
    BY <1>2, <1>t DEF RestoreObject, history, KindOK
  <2>2. Elements(writes'[u]) \subseteq Elements(writes[u])
    <3>1. PICK s \in Seq(Entry) : s = writes[u] /\ s # <<>>
      BY <1>t, <1>2 DEF RestoreObject
    <3>2. writes'[u] = Tail(s)
      BY <1>t, <1>2, <3>1 DEF RestoreObject
    <3>3. QED
      BY <3>1, <3>2, ElementsTail
  <2>3. pc'[u] \in {"restore", "redo"} /\ loc'[u].kind = "none"
    <3>l. PICK l \in Locals : l = loc[u]
      BY <1>t
    <3>1. PICK o, mine : \/ /\ loc' = [loc EXCEPT ![u] = [loc[u] EXCEPT !.obj = o, !.snap = mine, !.then = "restore"]]
                            /\ pc' = [pc EXCEPT ![u] = "redo"]
                         \/ UNCHANGED <<loc, pc>>
      BY <1>2 DEF RestoreObject, GoTo
    <3>2. PICK k : k = [l EXCEPT !.obj = o, !.snap = mine, !.then = "restore"]
      OBVIOUS
    <3>3. k.kind = l.kind
      BY <3>2 DEF Locals
    <3>4. (loc'[u] = k /\ pc'[u] = "redo") \/ (loc'[u] = l /\ pc'[u] = pc[u])
      <4>1. CASE UNCHANGED <<loc, pc>>
        BY <3>l, <4>1
      <4>2. CASE loc' = [loc EXCEPT ![u] = k] /\ pc' = [pc EXCEPT ![u] = "redo"]
        BY <1>t, <4>2
      <4>3. QED
        BY <3>l, <3>1, <3>2, <4>1, <4>2
    <3>5. QED
      BY <2>1, <3>l, <3>3, <3>4
  <2>4. QED
    BY <2>1, <2>2, <2>3 DEF Finishes, Ended
<1>3. CASE EndTransaction(u)
  <2>1. /\ pc'[u] = "idle" /\ seen'[u] = {} /\ began'[u] = {} /\ invisReads'[u] = <<>>
        /\ UNCHANGED <<attempt, writes>>
    BY <1>t, <1>3 DEF EndTransaction, GoTo
  <2>2. QED
    BY <2>1 DEF Finishes, Ended
<1>4. QED
  BY <1>1, <1>2, <1>3

\* Every step is of a kind.
LEMMA StepKinds ==
  ASSUME Inv, SeenType, HistInv, NEW u \in Threads, Thread(u)
  PROVE  Kind(u)
<1> USE DEF Kind
<1>1. CASE Begin(u)
  BY <1>1
<1>2. CASE \/ \E o \in Objects, kind \in {"RO", "RW"} : Open(u, o, kind)
           \/ \E o \in Objects : OpenUn(u, o)
           \/ Contend(u) \/ Recheck(u) \/ ReleaseLock(u)
  BY <1>2, LoopKind
<1>3. CASE LookAtOwner(u) \/ GiveWay(u) \/ KillOwner(u) \/ CleanOnAbort(u) \/ Lock(u) \/ Redo(u)
  BY <1>3, QuietKind
<1>4. CASE Load(u)
  BY <1>4, LoadKind
<1>5. CASE ReadField(u) \/ CheckField(u) \/ Release(u) \/ (Clone(u) /\ loc[u].kind = "RW")
  BY <1>5, FieldKind
<1>6. CASE Acquire(u) /\ loc[u].kind = "RW"
  BY <1>6, AcquireKind
<1>7. CASE Validate(u)
  BY <1>7, ValidateKind
<1>8. CASE CheckCounter(u) \/ CacheCounter(u)
  BY <1>8, CounterKind
<1>9. CASE Opened(u)
  BY <1>9, OpenedKind
<1>10. CASE Commit(u)
  BY <1>10, CommitKind
<1>11. CASE AcquireLazily(u)
  BY <1>11, AcquireLazilyKind
<1>12. CASE TryCommit(u) \/ ForceCommit(u)
  BY <1>12, CountKind
<1>13. CASE CommitCas(u) \/ RestoreObject(u) \/ EndTransaction(u)
  BY <1>13, CleanupKind
<1>14. QED
  BY <1>1, <1>2, <1>3, <1>4, <1>5, <1>6, <1>7, <1>8, <1>9, <1>10, <1>11, <1>12, <1>13
  DEF Thread, getReadable, getWritable, open_un, commit, cleanup, OpenTx, OpenLoop

-------------------------------------------------------------------------------
(* The invariant of the history.                                             *)

\* The types of what was read.
LEMMA SeenTypeStep ==
  ASSUME Inv, SeenType, NEW u \in Threads, Thread(u)
  PROVE  SeenType'
<1>t. /\ seen \in [Threads -> SUBSET (Objects \X Txs)]
      /\ loc[u].obj \in Objects /\ loc[u].copy \in Txs
  BY LocTypes DEF SeenType
<1> USE <1>t DEF SeenType, Abort, OnlyGoTo, history
<1>1. CASE Begin(u) \/ KillOwner(u) \/ CleanOnAbort(u) \/ (\E o \in Objects, kind \in {"RO", "RW"} : Open(u, o, kind))
  BY <1>1 DEF Begin, KillOwner, CleanOnAbort, Open
<1>2. CASE (\E o \in Objects : OpenUn(u, o)) \/ Contend(u) \/ Validate(u) \/ CheckCounter(u) \/ CacheCounter(u)
  BY <1>2 DEF OpenUn, Contend, Validate, CheckCounter, CacheCounter
<1>3. CASE LookAtOwner(u) \/ Recheck(u) \/ GiveWay(u) \/ Load(u) \/ Lock(u) \/ Redo(u) \/ ReleaseLock(u)
  BY <1>3 DEF LookAtOwner, Recheck, GiveWay, Load, Lock, Redo, ReleaseLock
<1>4. CASE ReadField(u) \/ Clone(u) \/ Acquire(u)
  BY <1>4 DEF ReadField, Clone, Acquire
<1>8. CASE CheckField(u) \/ Opened(u)
  <2>1. PICK r \in Objects \X Txs : r = <<loc[u].obj, loc[u].copy>>
    BY <1>t
  <2>2. seen' = seen \/ seen' = [seen EXCEPT ![u] = {}] \/ seen' = [seen EXCEPT ![u] = seen[u] \cup {r}]
    BY <1>8, <2>1 DEF CheckField, Opened
  <2>3. QED
    BY <2>2
<1>r. CASE Release(u)
  <2>1. PICK reads \in SUBSET (Objects \X Txs) : seen' = [seen EXCEPT ![u] = reads]
    <3>1. PICK o : seen' = [seen EXCEPT ![u] = IF IsWriteOf(u, o) THEN seen[u] ELSE {q \in seen[u] : q[1] # o}]
      BY <1>r DEF Release
    <3>2. seen[u] \in SUBSET (Objects \X Txs) /\ {q \in seen[u] : q[1] # o} \in SUBSET (Objects \X Txs)
      BY <1>t
    <3>3. QED
      BY <3>1, <3>2
  <2>2. QED
    BY <2>1
<1>5. CASE Commit(u) \/ TryCommit(u) \/ ForceCommit(u) \/ AcquireLazily(u)
  BY <1>5 DEF Commit, TryCommit, ForceCommit, AcquireLazily
<1>6. CASE CommitCas(u) \/ RestoreObject(u) \/ EndTransaction(u)
  BY <1>6 DEF CommitCas, RestoreObject, EndTransaction
<1>7. QED
  BY <1>1, <1>2, <1>3, <1>4, <1>8, <1>r, <1>5, <1>6
  DEF Thread, getReadable, getWritable, open_un, commit, cleanup, OpenTx, OpenLoop

\* The commit counter is looked at only if the policy is to.
LEMMA ModeStep ==
  ASSUME Inv, SeenType, NEW u \in Threads, Thread(u), ModeOK(u)
  PROVE  pc'[u] \in {"count", "cache", "tryCommit"} => mode.counts
<1>t. pc \in [Threads -> Labels] /\ loc \in [Threads -> Locals] /\ KindOK(u)
  BY AllTypes, ThreadFacts
<1>s. meta[loc[u].obj].owner \in {Free, Locked} \cup Threads
  BY LocTypes, MetaFacts
<1>l. ASSUME NEW o, NEW ver, InsertInvisRead(u, o, ver), ~mode.counts PROVE \E todo : Validating(u, todo, "opened")
  BY <1>l DEF InsertInvisRead
<1> USE <1>t DEF Abort, GoTo, OnlyGoTo, Validating, VerifyInvisReads
<1>1. CASE Begin(u) \/ KillOwner(u) \/ CleanOnAbort(u) \/ (\E o \in Objects, kind \in {"RO", "RW"} : Open(u, o, kind))
  BY <1>1 DEF Begin, KillOwner, CleanOnAbort, Open
<1>2. CASE (\E o \in Objects : OpenUn(u, o)) \/ Contend(u) \/ CacheCounter(u)
  BY <1>2 DEF OpenUn, Contend, CacheCounter
<1>v. CASE Validate(u)
  <2>1. loc[u].then \in {"opened", "force", "cas"}
    BY <1>v DEF Validate, KindOK
  <2>2. QED
    BY <1>v, <2>1 DEF Validate
<1>c. CASE CheckCounter(u)
  BY <1>c DEF CheckCounter, ModeOK
<1>3. CASE LookAtOwner(u) \/ GiveWay(u) \/ Lock(u) \/ Redo(u)
  BY <1>3 DEF LookAtOwner, GiveWay, Lock, Redo
<1>4. CASE Load(u)
  <2>1. CASE meta[loc[u].obj].owner = Free /\ loc[u].kind = "RO"
    <3>1. InsertInvisRead(u, loc[u].obj, meta[loc[u].obj].ver)
      BY <1>4, <2>1 DEF Load
    <3>2. CASE mode.counts
      BY <3>2
    <3>3. CASE ~mode.counts
      <4>1. PICK todo : Validating(u, todo, "opened")
        BY <1>l, <3>1, <3>3
      <4>2. pc'[u] \in {"opened", "validate"}
        BY <4>1
      <4>3. QED
        BY <4>2
    <3>4. QED
      BY <3>2, <3>3
  <2>2. CASE ~(meta[loc[u].obj].owner = Free /\ loc[u].kind = "RO")
    <3>1. PICK label \in {"idle", "clone", "contend", "look"} : pc' = [pc EXCEPT ![u] = label]
      BY <1>4, <1>s, <2>2 DEF Load
    <3>2. QED
      BY <3>1
  <2>3. QED
    BY <2>1, <2>2
<1>5. CASE Recheck(u) \/ ReleaseLock(u)
  <2>2. CASE ReleaseLock(u)
    <3>1. pc'[u] = loc[u].then /\ loc[u].then \in {"restore", "load"}
      BY <2>2 DEF ReleaseLock, KindOK
    <3>2. QED
      BY <3>1
  <2>3. CASE Recheck(u)
    <3>1. PICK label \in {"load", "work", "decide", "cleanAbort", "lock"} : pc' = [pc EXCEPT ![u] = label]
      BY <2>3, LocTypes DEF Recheck, States
    <3>2. QED
      BY <3>1
  <2>4. QED
    BY <1>5, <2>2, <2>3
<1>6. CASE ReadField(u) \/ CheckField(u) \/ Release(u) \/ Clone(u) \/ Opened(u) \/ Acquire(u)
  BY <1>6 DEF ReadField, CheckField, Release, Clone, Opened, Acquire, KindOK
<1>7. CASE Commit(u) \/ TryCommit(u) \/ ForceCommit(u)
  BY <1>7 DEF Commit, TryCommit, ForceCommit, Acquired
<1>8. CASE AcquireLazily(u)
  BY <1>8 DEF AcquireLazily, Acquired
<1>9. CASE CommitCas(u) \/ RestoreObject(u) \/ EndTransaction(u)
  BY <1>9 DEF CommitCas, RestoreObject, EndTransaction
<1>10. QED
  BY <1>1, <1>2, <1>v, <1>c, <1>3, <1>4, <1>5, <1>6, <1>7, <1>8, <1>9
  DEF Thread, getReadable, getWritable, open_un, commit, cleanup, OpenTx, OpenLoop

\* The lists of thread t, and what they hold.
LEMMA ListTypes ==
  ASSUME Inv, SeenType, NEW t \in Threads
  PROVE  /\ \A e \in Elements(invisReads[t]) : e \in Pair /\ e[1] \in Objects /\ e[2] \in Nat
         /\ \A e \in Unchecked(t) : e \in Pair /\ e[1] \in Objects /\ e[2] \in Nat
         /\ \A w \in Elements(writes[t]) : w.obj \in Objects /\ w.ver \in Nat /\ w.read \in Txs
         /\ \A r \in seen[t] : r = <<r[1], r[2]>> /\ r[1] \in Objects /\ r[2] \in Txs
<1>1. invisReads[t] \in Seq(Pair) /\ loc[t].todo \in Seq(Pair)
  BY AllTypes, LocTypes
<1>2. Elements(invisReads[t]) \subseteq Pair
  BY <1>1 DEF Elements
<1>3. Unchecked(t) \subseteq Pair
  BY <1>1 DEF Elements, Unchecked
<1>4. \A e \in Pair : e[1] \in Objects /\ e[2] \in Nat
  BY DEF Pair
<1>5. seen[t] \subseteq Objects \X Txs
  BY AllTypes
<1>6. QED
  BY <1>2, <1>3, <1>4, <1>5, EntryFacts

\* A thread that does not validate has nothing unchecked.
LEMMA NotValidating ==
  ASSUME Inv, NEW t \in Threads
  PROVE  pc[t] # "validate" \/ (~EndsOpen(t) /\ ~AtEnd(t)) => Unchecked(t) = {}
  BY ThreadFacts DEF Unchecked, KindOK, EndsOpen, AtEnd

\* A step of thread u leaves what it leaves of another thread t.
LEMMA OtherFrame ==
  ASSUME Inv, SeenType, NEW u \in Threads, Thread(u), NEW t \in Threads \ {u}
  PROVE  /\ pc'[t] = pc[t] /\ loc'[t] = loc[t] /\ attempt'[t] = attempt[t] /\ cached'[t] = cached[t]
         /\ invisReads'[t] = invisReads[t] /\ writes'[t] = writes[t] /\ seen'[t] = seen[t] /\ began'[t] = began[t]
         /\ mode' = mode /\ Unchecked(t)' = Unchecked(t) /\ (Ended(t)' <=> Ended(t))
         /\ (AtEnd(t)' <=> AtEnd(t)) /\ (Passing(t)' <=> Passing(t)) /\ (EndsOpen(t)' <=> EndsOpen(t))
         /\ (Deciding(t)' => Deciding(t)) /\ (txState'[t] = "ACTIVE" => txState[t] = "ACTIVE")
<1>1. /\ pc'[t] = pc[t] /\ loc'[t] = loc[t] /\ attempt'[t] = attempt[t] /\ cached'[t] = cached[t]
      /\ invisReads'[t] = invisReads[t] /\ writes'[t] = writes[t] /\ seen'[t] = seen[t] /\ began'[t] = began[t]
      /\ mode' = mode
  BY OwnState DEF Alone
<1>2. txState'[t] = "ACTIVE" => txState[t] = "ACTIVE"
  BY StateChange
<1>3. QED
  BY <1>1, <1>2 DEF Unchecked, Ended, AtEnd, Passing, EndsOpen, Deciding

\* What the others have read, and hold in their lists, stays as it should be.
LEMMA OtherLists ==
  ASSUME Inv, Inv', HistInv, NEW u \in Threads, Thread(u), NEW t \in Threads \ {u}
  PROVE  ModeOK(t)' /\ PastOK(t)' /\ ListOK(t)' /\ SeenOK(t)'
<1>s. SeenType /\ LocalOK(t)
  BY DEF HistInv
<1>f. /\ pc'[t] = pc[t] /\ loc'[t] = loc[t] /\ attempt'[t] = attempt[t]
      /\ invisReads'[t] = invisReads[t] /\ writes'[t] = writes[t] /\ seen'[t] = seen[t] /\ began'[t] = began[t]
      /\ mode' = mode /\ Unchecked(t)' = Unchecked(t) /\ (EndsOpen(t)' <=> EndsOpen(t))
      /\ (txState'[t] = "ACTIVE" => txState[t] = "ACTIVE")
  BY <1>s, OtherFrame
<1>t. /\ \A e \in Elements(invisReads[t]) : e[1] \in Objects /\ e[2] \in Nat
      /\ \A e \in Unchecked(t) : e[1] \in Objects /\ e[2] \in Nat
      /\ \A w \in Elements(writes[t]) : w.obj \in Objects /\ w.ver \in Nat
      /\ \A r \in seen[t] : r[1] \in Objects
  BY <1>s, ListTypes
<1>g. /\ \A o, v : Made(o, v) => Made(o, v)'
      /\ \A v : IsCommitted(v) => IsCommitted(v)'
  BY CommittedStays
<1>h. \A o \in Objects, v \in Nat : \A c : Fresh(o, v, c) => Fresh(o, v, c)'
  BY FreshStays
<1>1. ModeOK(t)'
  BY <1>s, <1>f DEF LocalOK, ModeOK
<1>2. PastOK(t)'
  <2>1. PICK o, c : o = loc[t].obj /\ c = loc[t].copy
    OBVIOUS
  <2>2. pc'[t] \in {"acquire", "checkField"} => Made(o, c)'
    BY <1>s, <1>f, <1>g, <2>1 DEF LocalOK, PastOK
  <2>3. pc'[t] \in {"acquire", "checkField"} => Made(loc[t].obj, loc[t].copy)'
    BY <1>f, <2>1, <2>2 DEF Made
  <2>4. \A w \in Elements(writes[t]) : Made(w.obj, w.read)'
    BY <1>s, <1>g DEF LocalOK, PastOK
  <2>5. (\A r \in seen[t] : Made(r[1], r[2])') /\ \A v \in began[t] : IsCommitted(v)'
    BY <1>s, <1>g DEF LocalOK, PastOK
  <2>6. QED
    BY <1>f, <2>3, <2>4, <2>5 DEF PastOK, Made
<1>3. ListOK(t)'
  <2>1. \A e \in Elements(invisReads[t]) : e[2] <= meta'[e[1]].ver
    <3>1. ASSUME NEW e \in Elements(invisReads[t]) PROVE e[2] <= meta'[e[1]].ver
      <4>1. PICK o \in Objects, v \in Nat : o = e[1] /\ v = e[2]
        BY <1>t
      <4>2. v <= meta[o].ver
        BY <1>s, <4>1 DEF LocalOK, ListOK
      <4>3. meta[o].ver \in Nat /\ meta'[o].ver \in Nat /\ meta[o].ver <= meta'[o].ver
        BY VersionsGrow
      <4>4. QED
        BY <4>1, <4>2, <4>3
    <3>2. QED
      BY <3>1
  <2>c. PICK c : c = loc[t].copy
    OBVIOUS
  <2>2. pc[t] = "checkField" => \E e \in Elements(invisReads[t]) :
          loc[t].obj = e[1] /\ loc[t].snap = Unowned(e[2]) /\ Fresh(e[1], e[2], c)'
    BY <1>s, <1>t, <1>h, <2>c DEF LocalOK, ListOK
  <2>3. pc[t] = "checkField" => \E e \in Elements(invisReads[t]) :
          loc[t].obj = e[1] /\ loc[t].snap = Unowned(e[2]) /\ Fresh(e[1], e[2], loc[t].copy)'
    BY <1>f, <2>c, <2>2 DEF Fresh
  <2>4. QED
    BY <1>s, <1>f, <2>1, <2>3 DEF LocalOK, ListOK, Fresh
<1>4. SeenOK(t)'
  <2>1. ASSUME txState'[t] = "ACTIVE", NEW r \in seen[t]
        PROVE  /\ \/ \E e \in Elements(invisReads[t]) : e[1] = r[1] /\ Fresh(r[1], e[2], r[2])'
                  \/ \E w \in Elements(writes[t]) : w.obj = r[1] /\ Fresh(r[1], w.ver, r[2])'
               /\ pc[t] \notin {"count", "cache"} => \A w \in Elements(writes[t]) : w.obj = r[1] =>
                    Fresh(r[1], w.ver, r[2])' \/ \E e \in Unchecked(t) : e[1] = r[1] /\ Fresh(r[1], e[2], r[2])'
    BY <1>s, <1>f, <1>t, <1>h, <2>1 DEF LocalOK, SeenOK, Waiting
  <2>2. QED
    BY <1>f, <2>1 DEF SeenOK, Waiting, Fresh
<1>5. QED
  BY <1>1, <1>2, <1>3, <1>4

\* Where the kinds of steps lead.
LEMMA KindPlaces ==
  ASSUME Inv, Inv', SeenType, NEW u \in Threads, Kind(u)
  PROVE  /\ ~Ended(u)' => Begin(u) \/ Runs(u)
         /\ Begin(u) => pc[u] = "idle" /\ pc'[u] = "work" /\ attempt'[u] = attempt[u] + 1
                        /\ UNCHANGED <<meta, data, counter, invisReads, writes, loc, seen, committed>>
                        /\ began'[u] = {c.tx : c \in committed}
         /\ pc'[u] \in {"acquire", "checkField"} => Moves(u)
         /\ EndsOpen(u)' => Inserts(u) \/ Repeats(u) \/ Takes(u) \/ Counts(u) \/ Skips(u) \/ Caches(u) \/ Checks(u)
         /\ AtEnd(u)' => Checks(u) \/ Decides(u) \/ Forces(u)
         /\ pc'[u] \in {"count", "cache"} => (Inserts(u) \/ Takes(u) \/ Counts(u)) /\ ~Skips(u) /\ ~Caches(u) /\ ~Checks(u)
         /\ Checks(u) => (Passing(u) /\ Passing(u)' /\ ~AtEnd(u) /\ ~AtEnd(u)') \/ (AtEnd(u) /\ AtEnd(u)' /\ ~EndsOpen(u) /\ ~EndsOpen(u)')
<1>t. KindOK(u) /\ KindOK(u)' /\ pc \in [Threads -> Labels] /\ attempt \in [Threads -> 0 .. MaxAttempts] /\ began \in [Threads -> SUBSET Txs]
  <2>1. \A t \in Threads : KindOK(t)'
    BY DEF Inv, ThreadInv
  <2>2. QED
    BY <2>1, AllTypes, ThreadFacts
<1>1. Begin(u) => pc[u] = "idle" /\ pc'[u] = "work" /\ attempt'[u] = attempt[u] + 1
                  /\ UNCHANGED <<meta, data, counter, invisReads, writes, loc, seen, committed>>
                  /\ began'[u] = {c.tx : c \in committed}
  BY <1>t DEF Begin, GoTo
<1>2. Finishes(u) => /\ Ended(u)' /\ pc'[u] \notin {"acquire", "checkField", "count", "cache"}
                     /\ ~EndsOpen(u)' /\ ~AtEnd(u)'
  BY <1>t DEF Finishes, Ended, KindOK, EndsOpen, AtEnd
<1>3. Passing(u)' => pc'[u] \in {"opened", "validate"} /\ ~AtEnd(u)' /\ EndsOpen(u)'
  BY DEF Passing, AtEnd, EndsOpen
<1>4. AtEnd(u)' => pc'[u] \in {"force", "cas", "validate"} /\ ~EndsOpen(u)'
  BY DEF AtEnd, EndsOpen
<1>5. Inserts(u) \/ Repeats(u) \/ Takes(u) => pc'[u] \in {"opened", "validate", "count"} /\ ~AtEnd(u)'
  BY <1>3 DEF Inserts, Repeats, Takes, BeginsCheck, AtEnd
<1>6. Counts(u) \/ Skips(u) \/ Caches(u) \/ Returns(u) \/ Releases(u) \/ Finds(u) =>
        pc'[u] \in {"opened", "validate", "cache", "work"} /\ ~AtEnd(u)'
  BY <1>3 DEF Counts, Skips, Caches, Returns, Releases, Finds, AtEnd
<1>7. Skips(u) \/ Caches(u) => pc'[u] \in {"opened", "validate"}
  BY <1>3 DEF Skips, Caches
<1>8. Returns(u) \/ Releases(u) \/ Finds(u) \/ Forces(u) => pc'[u] \in {"work", "cas"} /\ ~EndsOpen(u)'
  BY DEF Returns, Releases, Finds, Forces, EndsOpen
<1>9. Checks(u) =>
        (Passing(u) /\ Passing(u)' /\ ~AtEnd(u) /\ ~AtEnd(u)') \/ (AtEnd(u) /\ AtEnd(u)' /\ ~EndsOpen(u) /\ ~EndsOpen(u)')
  BY <1>t, <1>3, <1>4 DEF Checks, KindOK, Passing, AtEnd, EndsOpen
<1>10. Checks(u) => pc'[u] \in {"opened", "validate", "force", "cas"}
  BY <1>3, <1>4, <1>9
<1>11. Decides(u) => pc'[u] \in {"force", "cas", "validate"} /\ ~EndsOpen(u)'
  BY <1>4 DEF Decides
<1>12. Moves(u) => ~EndsOpen(u)' /\ ~AtEnd(u)' /\ pc'[u] \notin {"count", "cache"}
  BY DEF Moves, EndsOpen
<1>13. Kind(u) => Begin(u) \/ Finishes(u) \/ Runs(u)
  BY DEF Kind, Moves, Finds, Releases, Inserts, Repeats, Takes, Counts, Skips, Caches, Checks, Decides, Forces, Returns
<1>14. ~Ended(u)' => Begin(u) \/ Runs(u)
  BY <1>2, <1>13
<1>15. Begin(u) => ~EndsOpen(u)' /\ ~AtEnd(u)' /\ pc'[u] = "work"
  BY <1>1 DEF EndsOpen, AtEnd
<1>16. pc'[u] \in {"acquire", "checkField"} => Moves(u)
  BY <1>2, <1>5, <1>6, <1>8, <1>10, <1>11, <1>15 DEF Kind
<1>17. EndsOpen(u)' => Inserts(u) \/ Repeats(u) \/ Takes(u) \/ Counts(u) \/ Skips(u) \/ Caches(u) \/ Checks(u)
  BY <1>2, <1>8, <1>11, <1>12, <1>15 DEF Kind
<1>18. AtEnd(u)' => Checks(u) \/ Decides(u) \/ Forces(u)
  BY <1>2, <1>5, <1>6, <1>12, <1>15 DEF Kind
<1>19. pc'[u] \in {"count", "cache"} => (Inserts(u) \/ Takes(u) \/ Counts(u)) /\ ~Skips(u) /\ ~Caches(u) /\ ~Checks(u)
  <2>1. pc'[u] \in {"count", "cache"} => EndsOpen(u)' /\ ~Repeats(u) /\ ~Skips(u) /\ ~Caches(u) /\ ~Checks(u)
    BY <1>3, <1>7, <1>10 DEF EndsOpen, Repeats
  <2>2. QED
    BY <1>17, <2>1
<1>20. QED
  BY <1>1, <1>9, <1>14, <1>16, <1>17, <1>18, <1>19

\* What a thread has read, or cloned, was committed.
LEMMA OwnPast ==
  ASSUME Inv, Inv', HistInv, NEW u \in Threads, Thread(u)
  PROVE  PastOK(u)'
<1>s. SeenType /\ PastOK(u) /\ ListOK(u) /\ Kind(u)
  BY StepKinds DEF HistInv, LocalOK
<1>p. /\ ~Ended(u)' => Begin(u) \/ Runs(u)
      /\ Begin(u) => pc[u] = "idle" /\ UNCHANGED <<writes, seen>> /\ began'[u] = {c.tx : c \in committed}
      /\ pc'[u] \in {"acquire", "checkField"} => Moves(u)
  BY <1>s, KindPlaces
<1>g. /\ \A o, v : Made(o, v) => Made(o, v)'
      /\ \A v : IsCommitted(v) => IsCommitted(v)'
  BY CommittedStays
<1>1. pc'[u] \in {"acquire", "checkField"} => Made(loc[u].obj, loc[u].copy)'
  <2>1. ASSUME pc'[u] \in {"acquire", "checkField"} PROVE Made(loc[u].obj, loc[u].copy)'
    <3>1. PICK o, c : o = loc'[u].obj /\ c = loc'[u].copy
      OBVIOUS
    <3>2. o \in Objects /\ c = data[o]
      <4>1. o \in Objects
        <5>1. \A t \in Threads : loc'[t].obj \in Objects
          BY DEF Inv, TypeInv, ThreadOK, Locals
        <5>2. QED
          BY <3>1, <5>1
      <4>2. QED
        BY <1>p, <2>1, <3>1, <4>1 DEF Moves
    <3>3. Made(o, c)
      BY <3>2 DEF HistInv, ContentsOK
    <3>4. Made(o, c)'
      BY <1>g, <3>3
    <3>5. QED
      BY <3>1, <3>4 DEF Made
  <2>2. QED
    BY <2>1
<1>2. \A w \in Elements(writes'[u]) : Made(w.obj, w.read)
  <2>1. \A w \in Elements(writes[u]) : Made(w.obj, w.read)
    BY <1>s DEF PastOK
  <2>2. CASE Takes(u)
    <3>1. Made(loc[u].obj, loc[u].copy)
      BY <1>s, <2>2 DEF PastOK, Takes
    <3>2. QED
      BY <2>1, <2>2, <3>1 DEF Takes
  <2>3. CASE Moves(u) \/ Decides(u)
    <3>1. SameWrites(u)
      BY <2>3 DEF Moves, Decides
    <3>2. ASSUME NEW x \in Elements(writes'[u]) PROVE Made(x.obj, x.read)
      <4>1. PICK w \in Elements(writes[u]) : SameEntry(w, x)
        BY <3>1 DEF SameWrites
      <4>2. QED
        BY <2>1, <4>1 DEF SameEntry
    <3>3. QED
      BY <3>2
  <2>4. CASE ~Takes(u) /\ ~Moves(u) /\ ~Decides(u)
    <3>1. Elements(writes'[u]) \subseteq Elements(writes[u])
      BY <1>s, <1>p, <2>4 DEF Kind, Finishes, Finds, Releases, Inserts, Repeats, Counts, Skips, Caches, Checks, Forces, Returns, Rests
    <3>2. QED
      BY <2>1, <3>1
  <2>5. QED
    BY <2>2, <2>3, <2>4
<1>3. \A r \in seen'[u] : Made(r[1], r[2])
  <2>1. \A r \in seen[u] : Made(r[1], r[2])
    BY <1>s DEF PastOK
  <2>2. CASE Finds(u)
    <3>1. Made(loc[u].obj, loc[u].copy)
      BY <1>s, <2>2 DEF PastOK, Finds
    <3>2. QED
      BY <2>1, <2>2, <3>1 DEF Finds
  <2>3. CASE Returns(u) /\ loc[u].kind = "RW"
    <3>1. EndsOpen(u)
      BY <2>3 DEF Returns, EndsOpen
    <3>2. PICK w \in Elements(writes[u]) : w.obj = loc[u].obj /\ w.read = loc[u].copy
      BY <1>s, <2>3, <3>1 DEF ListOK
    <3>3. Made(loc[u].obj, loc[u].copy)
      BY <1>s, <3>2 DEF PastOK
    <3>4. QED
      BY <2>1, <2>3, <3>3 DEF Returns
  <2>4. CASE ~Finds(u) /\ ~(Returns(u) /\ loc[u].kind = "RW")
    <3>1. seen'[u] \subseteq seen[u]
      BY <1>s, <1>p, <2>4 DEF Kind, Finishes, Moves, Releases, Inserts, Repeats, Takes, Counts, Skips, Caches, Checks, Decides, Forces, Returns, SameSeen
    <3>2. QED
      BY <2>1, <3>1
  <2>5. QED
    BY <2>2, <2>3, <2>4
<1>4. \A v \in began'[u] : IsCommitted(v)
  <2>1. CASE Begin(u)
    BY <1>p, <2>1 DEF IsCommitted
  <2>2. CASE ~Begin(u)
    <3>1. began'[u] \subseteq began[u]
      BY <1>s, <2>2 DEF Kind, Finishes, Moves, Finds, Releases, Inserts, Repeats, Takes, Counts, Skips, Caches, Checks, Decides, Forces, Returns, Runs
    <3>2. QED
      BY <1>s, <3>1 DEF PastOK
  <2>3. QED
    BY <2>1, <2>2
<1>5. QED
  BY <1>g, <1>1, <1>2, <1>3, <1>4 DEF PastOK

\* Its lists stay in order.
LEMMA OwnList ==
  ASSUME Inv, Inv', HistInv, NEW u \in Threads, Thread(u)
  PROVE  ListOK(u)'
<1>s. SeenType /\ PastOK(u) /\ ListOK(u) /\ Kind(u)
  BY StepKinds DEF HistInv, LocalOK
<1>p. /\ ~Ended(u)' => Begin(u) \/ Runs(u)
      /\ Begin(u) => pc[u] = "idle" /\ pc'[u] = "work" /\ UNCHANGED <<meta, invisReads, writes, loc, seen>>
      /\ pc'[u] \in {"acquire", "checkField"} => Moves(u)
      /\ EndsOpen(u)' => Inserts(u) \/ Repeats(u) \/ Takes(u) \/ Counts(u) \/ Skips(u) \/ Caches(u) \/ Checks(u)
      /\ Checks(u) => (Passing(u) /\ Passing(u)' /\ ~AtEnd(u) /\ ~AtEnd(u)') \/ (AtEnd(u) /\ AtEnd(u)' /\ ~EndsOpen(u) /\ ~EndsOpen(u)')
  BY <1>s, KindPlaces
<1>t. /\ \A e \in Elements(invisReads[u]) : e \in Pair /\ e[1] \in Objects /\ e[2] \in Nat
      /\ KindOK(u) /\ Elements(<<>>) = {}
  BY <1>s, ListTypes, ThreadFacts DEF Elements
<1>v. \A o \in Objects : meta[o].ver \in Nat /\ meta'[o].ver \in Nat /\ meta[o].ver <= meta'[o].ver
  BY VersionsGrow
<1>1. pc'[u] = "idle" \/ loc'[u].kind = "UN" => invisReads'[u] = <<>> /\ seen'[u] = {}
  <2>1. CASE Begin(u)
    <3>1. loc'[u].kind # "UN"
      BY <1>p, <1>t, <2>1 DEF KindOK
    <3>2. QED
      BY <1>p, <2>1, <3>1
  <2>2. CASE Runs(u)
    BY <2>2 DEF Runs, Ended
  <2>3. CASE Finishes(u)
    BY <1>s, <2>3 DEF Finishes, ListOK
  <2>4. QED
    BY <1>s, <2>1, <2>2, <2>3 DEF Kind, Moves, Finds, Releases, Inserts, Repeats, Takes, Counts, Skips, Caches, Checks, Decides, Forces, Returns
<1>2. ASSUME NEW e \in Elements(invisReads'[u]) PROVE e[2] <= meta'[e[1]].ver
  <2>1. ASSUME e \in Elements(invisReads[u]) PROVE e[2] <= meta'[e[1]].ver
    <3>1. PICK o \in Objects, v \in Nat : o = e[1] /\ v = e[2]
      BY <1>t, <2>1
    <3>2. v <= meta[o].ver
      BY <1>s, <2>1, <3>1 DEF ListOK
    <3>3. QED
      BY <1>v, <3>1, <3>2
  <2>2. CASE Inserts(u)
    <3>1. PICK o \in Objects : e \in Elements(invisReads[u]) \cup {<<o, meta[o].ver>>}
      BY <2>2 DEF Inserts
    <3>2. CASE e = <<o, meta[o].ver>>
      <4>1. meta' = meta
        BY <2>2 DEF Inserts, Rests
      <4>2. QED
        BY <1>v, <3>2, <4>1
    <3>3. QED
      BY <2>1, <3>1, <3>2
  <2>3. CASE ~Inserts(u)
    <3>1. Elements(invisReads'[u]) \subseteq Elements(invisReads[u])
      BY <1>s, <1>p, <1>t, <2>3 DEF Kind, Finishes, Moves, Finds, Releases, Repeats, Takes, Counts, Skips, Caches, Checks, Decides, Forces, Returns, SameSeen
    <3>2. QED
      BY <2>1, <3>1
  <2>4. QED
    BY <2>2, <2>3
<1>3. ASSUME pc'[u] = "checkField"
      PROVE  \E e \in Elements(invisReads'[u]) :
               loc'[u].obj = e[1] /\ loc'[u].snap = Unowned(e[2]) /\ Fresh(e[1], e[2], loc[u].copy)'
  <2>1. invisReads'[u] = invisReads[u]
    BY <1>p, <1>3 DEF Moves, SameSeen
  <2>2. PICK e \in Elements(invisReads[u]) :
          loc'[u].obj = e[1] /\ loc'[u].snap = Unowned(e[2]) /\ loc'[u].copy = data[e[1]] /\ meta' = meta /\ data' = data
    BY <1>p, <1>3 DEF Moves
  <2>3. e[2] <= meta[e[1]].ver
    BY <1>s DEF ListOK
  <2>4. Fresh(e[1], e[2], loc[u].copy)'
    BY <2>2, <2>3 DEF Fresh
  <2>5. QED
    BY <2>1, <2>2, <2>4
<1>4. ASSUME EndsOpen(u)', loc'[u].kind = "RW"
      PROVE  \E w \in Elements(writes'[u]) : w.obj = loc'[u].obj /\ w.read = loc'[u].copy
  <2>1. CASE Takes(u)
    BY <2>1 DEF Takes, SameOpen
  <2>2. CASE Counts(u) \/ Skips(u) \/ Caches(u) \/ Checks(u)
    <3>1. EndsOpen(u)
      BY <1>p, <1>4, <2>2 DEF Counts, Skips, Caches, Passing, EndsOpen
    <3>2. SameOpen(u) /\ writes'[u] = writes[u]
      BY <2>2 DEF Counts, Skips, Caches, Checks, Rests
    <3>3. QED
      BY <1>s, <1>4, <3>1, <3>2 DEF ListOK, SameOpen
  <2>3. ~Inserts(u) /\ ~Repeats(u)
    BY <1>4 DEF Inserts, Repeats
  <2>4. QED
    BY <1>p, <1>4, <2>1, <2>2, <2>3
<1>5. QED
  BY <1>1, <1>2, <1>3, <1>4 DEF ListOK, Fresh

\* An active transaction writes an object once.
LEMMA SingleWrites ==
  ASSUME Inv, NEW t \in Threads, txState[t] = "ACTIVE", NEW w \in Elements(writes[t]), NEW x \in Elements(writes[t]),
         w.obj = x.obj
  PROVE  w = x
<1>1. Single(t)
  BY ThreadFacts DEF WritesOK, Killed
<1>2. PICK i \in DOMAIN writes[t], k \in DOMAIN writes[t] : w = writes[t][i] /\ x = writes[t][k]
  BY DEF Elements
<1>3. QED
  BY <1>1, <1>2 DEF Single

\* What stands in place is the contents of every version up to now that is still
\* there.
LEMMA InPlace ==
  ASSUME NEW o, NEW v, NEW c, data[o] = c, v <= meta[o].ver
  PROVE  Fresh(o, v, c)
  BY DEF Fresh

\* While the thread is active, what it has seen stays in one of its lists.
LEMMA OwnListed ==
  ASSUME Inv, Inv', HistInv, NEW u \in Threads, Thread(u), txState[u] = "ACTIVE", Runs(u), NEW r \in seen'[u]
  PROVE  \/ \E e \in Elements(invisReads'[u]) : e[1] = r[1] /\ Fresh(r[1], e[2], r[2])'
         \/ \E w \in Elements(writes'[u]) : w.obj = r[1] /\ Fresh(r[1], w.ver, r[2])'
<1>s. SeenType /\ SeenOK(u) /\ ListOK(u) /\ Kind(u)
  BY StepKinds DEF HistInv, LocalOK
<1>t. /\ \A e \in Elements(invisReads[u]) : e[1] \in Objects /\ e[2] \in Nat
      /\ \A w \in Elements(writes[u]) : w.obj \in Objects /\ w.ver \in Nat
  BY <1>s, ListTypes
<1>h. \A o \in Objects, v \in Nat : \A c : Fresh(o, v, c) => Fresh(o, v, c)'
  BY FreshStays
<1>n. pc[u] = "work" => Unchecked(u) = {}
  BY NotValidating
<1>w. \A w \in Elements(writes[u]) : \E x \in Elements(writes'[u]) : x.obj = w.obj /\ x.ver = w.ver
  <2>1. CASE Takes(u)
    BY <2>1 DEF Takes
  <2>2. CASE Moves(u) \/ Decides(u)
    BY <2>2 DEF Moves, Decides, SameWrites, SameEntry
  <2>3. CASE ~Takes(u) /\ ~Moves(u) /\ ~Decides(u) 
    <3>1. writes'[u] = writes[u]
      BY <1>s, <2>3 DEF Runs, Kind, Begin, GoTo, Finishes, Finds, Releases, Inserts, Repeats, Counts, Skips, Caches, Checks, Forces, Returns, Rests
    <3>2. QED
      BY <3>1
  <2>4. QED
    BY <2>1, <2>2, <2>3
<1>f. ASSUME NEW w \in Elements(writes[u]), w.obj = r[1], Fresh(r[1], w.ver, r[2])
      PROVE  \E x \in Elements(writes'[u]) : x.obj = r[1] /\ Fresh(r[1], x.ver, r[2])'
  <2>1. PICK x \in Elements(writes'[u]) : x.obj = w.obj /\ x.ver = w.ver
    BY <1>w
  <2>2. Fresh(w.obj, w.ver, r[2])'
    BY <1>t, <1>h, <1>f
  <2>3. QED
    BY <1>f, <2>1, <2>2
<1>g. ASSUME NEW e \in Elements(invisReads[u]), e[1] = r[1], Fresh(r[1], e[2], r[2])
      PROVE  Fresh(r[1], e[2], r[2])'
  BY <1>t, <1>h, <1>g
<1>o. r \in seen[u] =>
        /\ \/ \E e \in Elements(invisReads[u]) : e[1] = r[1] /\ Fresh(r[1], e[2], r[2])
           \/ \E w \in Elements(writes[u]) : w.obj = r[1] /\ Fresh(r[1], w.ver, r[2])
        /\ pc[u] = "work" => \A w \in Elements(writes[u]) : w.obj = r[1] => Fresh(r[1], w.ver, r[2])
  BY <1>s, <1>n DEF SeenOK, Waiting
<1>1. CASE Releases(u)
  <2>1. PICK o \in Objects :
          /\ \A e \in Elements(invisReads[u]) : e[1] # o => e \in Elements(invisReads'[u])
          /\ seen'[u] = IF \E w \in Elements(writes[u]) : w.obj = o THEN seen[u] ELSE {q \in seen[u] : q[1] # o}
    BY <1>1 DEF Releases
  <2>2. pc[u] = "work" /\ r \in seen[u]
    BY <1>1, <2>1 DEF Releases
  <2>3. CASE r[1] # o
    BY <1>f, <1>g, <1>o, <2>1, <2>2, <2>3
  <2>4. CASE r[1] = o
    <3>1. PICK w \in Elements(writes[u]) : w.obj = o
      BY <2>1, <2>4
    <3>2. QED
      BY <1>f, <1>o, <2>2, <2>4, <3>1
  <2>5. QED
    BY <2>3, <2>4
<1>2. CASE Finds(u) /\ r \notin seen[u]
  <2>1. r[1] = loc[u].obj /\ r[2] = loc[u].copy /\ invisReads'[u] = invisReads[u] /\ pc[u] = "checkField"
    BY <1>2 DEF Finds
  <2>2. QED
    BY <1>s, <1>g, <2>1 DEF ListOK
<1>3. CASE Returns(u) /\ r \notin seen[u]
  <2>1. r[1] = loc[u].obj /\ r[2] = loc[u].copy /\ loc[u].kind = "RW" /\ pc[u] = "opened"
    BY <1>3 DEF Returns
  <2>2. PICK w \in Elements(writes[u]) : w.obj = loc[u].obj /\ w.read = loc[u].copy
    BY <1>s, <2>1 DEF ListOK, EndsOpen
  <2>3. Fresh(w.obj, w.ver, w.read)
    BY EntryFacts
  <2>4. QED
    BY <1>f, <2>1, <2>2, <2>3
<1>4. CASE ~Releases(u) /\ ~(Finds(u) /\ r \notin seen[u]) /\ ~(Returns(u) /\ r \notin seen[u])
  <2>1. r \in seen[u] /\ Elements(invisReads[u]) \subseteq Elements(invisReads'[u])
    BY <1>s, <1>4 DEF Runs, Kind, Begin, GoTo, Finishes, Moves, Finds, Inserts, Repeats, Takes, Counts, Skips, Caches, Checks, Decides, Forces, Returns, SameSeen
  <2>2. QED
    BY <1>f, <1>g, <1>o, <2>1
<1>5. QED
  BY <1>1, <1>2, <1>3, <1>4

\* And if it writes the object, that is what it cloned, or the validation will find
\* out.
LEMMA OwnWaiting ==
  ASSUME Inv, Inv', HistInv, NEW u \in Threads, Thread(u), txState[u] = "ACTIVE", Runs(u), NEW r \in seen'[u],
         pc'[u] \notin {"count", "cache"}, NEW x \in Elements(writes'[u]), x.obj = r[1]
  PROVE  Fresh(r[1], x.ver, r[2])' \/ Waiting(u, r[1], r[2])'
<1>s. SeenType /\ SeenOK(u) /\ ListOK(u) /\ CountOK(u) /\ Kind(u) /\ ~Ended(u)
  BY StepKinds DEF HistInv, LocalOK, Runs
<1>t. /\ \A e \in Elements(invisReads[u]) : e[1] \in Objects /\ e[2] \in Nat
      /\ \A e \in Unchecked(u) : e[1] \in Objects /\ e[2] \in Nat
      /\ \A w \in Elements(writes[u]) : w.obj \in Objects /\ w.ver \in Nat
  BY <1>s, ListTypes
<1>h. \A o \in Objects, v \in Nat : \A c : Fresh(o, v, c) => Fresh(o, v, c)'
  BY FreshStays
<1>n. pc[u] # "validate" \/ (~EndsOpen(u) /\ ~AtEnd(u)) => Unchecked(u) = {}
  BY NotValidating
<1>m. Free # Locked /\ u # Locked
  BY MetaFacts
\* Contents in place are those of every version of the list of writes.
<1>v. ASSUME NEW w \in Elements(writes[u]), w.obj = r[1], data[r[1]] = r[2]
      PROVE  Fresh(r[1], w.ver, r[2])'
  <2>1. w.ver <= meta[w.obj].ver /\ w.obj \in Objects /\ w.ver \in Nat
    BY EntryFacts DEF Fresh
  <2>2. Fresh(w.obj, w.ver, r[2])
    BY <1>v, <2>1, InPlace
  <2>3. QED
    BY <1>h, <1>v, <2>1, <2>2
\* An entry of the list of reads that is unchecked after the step.
<1>q. ASSUME NEW e \in Elements(invisReads[u]) \cup Unchecked(u), e[1] = r[1], Fresh(r[1], e[2], r[2]), e \in Unchecked(u)'
      PROVE  Waiting(u, r[1], r[2])'
  <2>1. Fresh(r[1], e[2], r[2])'
    BY <1>t, <1>h, <1>q
  <2>2. QED
    BY <1>q, <2>1 DEF Waiting
<1>o. r \in seen[u] =>
        \/ \E e \in Elements(invisReads[u]) : e[1] = r[1] /\ Fresh(r[1], e[2], r[2])
        \/ \E w \in Elements(writes[u]) : w.obj = r[1] /\ Fresh(r[1], w.ver, r[2])
  BY <1>s DEF SeenOK
<1>1. ASSUME r \in seen[u], pc[u] \notin {"count", "cache"}, Unchecked(u) = {},
             NEW w \in Elements(writes[u]), w.obj = x.obj, w.ver = x.ver
      PROVE  Fresh(r[1], x.ver, r[2])'
  <2>1. Fresh(r[1], w.ver, r[2])
    BY <1>s, <1>1 DEF SeenOK, Waiting
  <2>2. QED
    BY <1>t, <1>h, <1>1, <2>1
<1>2. CASE Finds(u)
  <2>1. pc[u] = "checkField" /\ writes'[u] = writes[u] /\ seen'[u] = seen[u] \cup {<<loc[u].obj, loc[u].copy>>}
    BY <1>2 DEF Finds, Rests
  <2>2. CASE r \in seen[u]
    BY <1>1, <1>n, <2>1, <2>2
  <2>3. CASE r \notin seen[u]
    <3>1. r[1] = loc[u].obj /\ r[2] = loc[u].copy
      BY <2>1, <2>3
    <3>2. PICK e \in Elements(invisReads[u]) :
            loc[u].obj = e[1] /\ loc[u].snap = Unowned(e[2]) /\ Fresh(e[1], e[2], loc[u].copy)
      BY <1>s, <2>1 DEF ListOK
    <3>3. meta[loc[u].obj] = Unowned(e[2])
      BY <1>2, <3>2 DEF Finds
    <3>4. meta[r[1]].ver = e[2] /\ meta[r[1]].owner # Locked
      BY <1>t, <1>m, <3>1, <3>3, MetaFacts
    <3>5. data[r[1]] = r[2]
      BY <3>1, <3>2, <3>4 DEF Fresh
    <3>6. QED
      BY <1>v, <2>1, <3>5
  <2>4. QED
    BY <2>2, <2>3
<1>3. CASE Releases(u) \/ Inserts(u) \/ Repeats(u) \/ Forces(u)
  <2>1. writes'[u] = writes[u] /\ r \in seen[u] /\ pc[u] \in {"work", "load", "force"}
    BY <1>3 DEF Releases, Inserts, Repeats, Forces, Rests, SameSeen
  <2>2. QED
    BY <1>1, <1>n, <2>1
<1>4. CASE Moves(u) \/ Decides(u)
  <2>1. r \in seen[u] /\ \E w \in Elements(writes[u]) : w.obj = x.obj /\ w.ver = x.ver
    BY <1>4 DEF Moves, Decides, SameSeen, SameWrites, SameEntry
  <2>2. pc[u] \notin {"count", "cache"} /\ Unchecked(u) = {}
    BY <1>4, <1>n DEF Moves, Decides, EndsOpen
  <2>3. QED
    BY <1>1, <2>1, <2>2
<1>5. CASE Takes(u)
  <2>1. /\ r \in seen[u] /\ pc[u] = "acquire" /\ Unchecked(u) = {} /\ invisReads'[u] = invisReads[u] 
        /\ ~mode.counts /\ ListUnchecked(u)'
    BY <1>5, <1>n DEF Takes, BeginsCheck, SameSeen
  <2>2. PICK y \in Elements(writes'[u]) :
          Elements(writes'[u]) = Elements(writes[u]) \cup {y} /\ \A w \in Elements(writes[u]) : w.obj # y.obj
    BY <1>5 DEF Takes
  <2>3. CASE x \in Elements(writes[u])
    BY <1>1, <2>1, <2>3
  <2>4. CASE x \notin Elements(writes[u])
    <3>1. \A w \in Elements(writes[u]) : w.obj # r[1]
      BY <2>2, <2>4
    <3>2. PICK e \in Elements(invisReads[u]) : e[1] = r[1] /\ Fresh(r[1], e[2], r[2])
      BY <1>o, <2>1, <3>1
    <3>3. e \in Unchecked(u)'
      BY <2>1, <3>2 DEF ListUnchecked
    <3>4. QED
      BY <1>q, <3>2, <3>3
  <2>5. QED
    BY <2>3, <2>4
<1>6. CASE Counts(u)
  BY <1>6 DEF Counts
<1>7. CASE Skips(u) \/ Caches(u)
  <2>1. /\ r \in seen[u] /\ writes'[u] = writes[u] /\ invisReads'[u] = invisReads[u] /\ mode.counts
        /\ pc[u] \in {"count", "cache"} /\ Unchecked(u) = {}
    BY <1>7, <1>n DEF Skips, Caches, Rests, SameSeen
  <2>2. CASE \E w \in Elements(writes[u]) : w.obj = r[1] /\ Fresh(r[1], w.ver, r[2])
    <3>1. PICK w \in Elements(writes[u]) : w.obj = r[1] /\ Fresh(r[1], w.ver, r[2])
      BY <2>2
    <3>2. w = x
      BY <2>1, <3>1, SingleWrites
    <3>3. QED
      BY <1>t, <1>h, <3>1, <3>2
  <2>3. CASE \E e \in Elements(invisReads[u]) : e[1] = r[1] /\ Fresh(r[1], e[2], r[2])
    <3>1. PICK e \in Elements(invisReads[u]) : e[1] = r[1] /\ Fresh(r[1], e[2], r[2])
      BY <2>3
    <3>2. CASE Skips(u)
      <4>1. Clean(e[1], e[2])
        BY <1>s, <2>1, <3>2 DEF CountOK, Skips
      <4>2. data[r[1]] = r[2]
        BY <3>1, <4>1 DEF Clean, Done, Fresh
      <4>3. QED
        BY <1>v, <2>1, <4>2
    <3>3. CASE Caches(u)
      <4>1. e \in Unchecked(u)'
        BY <2>1, <3>3 DEF Caches, ListUnchecked
      <4>2. QED
        BY <1>q, <3>1, <4>1
    <3>4. QED
      BY <1>7, <3>2, <3>3
  <2>4. QED
    BY <1>o, <2>1, <2>2, <2>3
<1>8. CASE Checks(u)
  <2>1. r \in seen[u] /\ writes'[u] = writes[u] /\ pc[u] = "validate"
    BY <1>8 DEF Checks, Rests, SameSeen
  <2>2. PICK d \in Unchecked(u) : isCurrent(u, d[1], d[2]) /\ Unchecked(u) = Unchecked(u)' \cup {d}
    BY <1>8 DEF Checks
  <2>3. CASE Fresh(r[1], x.ver, r[2])
    BY <1>t, <1>h, <2>1, <2>3
  <2>4. CASE Waiting(u, r[1], r[2])
    <3>1. PICK e \in Unchecked(u) : e[1] = r[1] /\ Fresh(r[1], e[2], r[2])
      BY <2>4 DEF Waiting
    <3>2. CASE e \in Unchecked(u)'
      BY <1>q, <3>1, <3>2
    <3>3. CASE e = d
      <4>1. data[r[1]] = r[2]
        BY <1>m, <2>2, <3>1, <3>3 DEF isCurrent, Fresh
      <4>2. QED
        BY <1>v, <2>1, <4>1
    <3>4. QED
      BY <2>2, <3>2, <3>3
  <2>5. QED
    BY <1>s, <2>1, <2>3, <2>4 DEF SeenOK
<1>9. CASE Returns(u)
  <2>1. /\ writes'[u] = writes[u] /\ pc[u] = "opened"
        /\ r \in seen[u] \/ (loc[u].kind = "RW" /\ r = <<loc[u].obj, loc[u].copy>>)
    BY <1>9 DEF Returns, Rests
  <2>2. CASE r \in seen[u]
    BY <1>1, <1>n, <2>1, <2>2
  <2>3. CASE r \notin seen[u]
    <3>1. r[1] = loc[u].obj /\ r[2] = loc[u].copy
      BY <2>1, <2>3
    <3>2. PICK w \in Elements(writes[u]) : w.obj = loc[u].obj /\ w.read = loc[u].copy
      BY <1>s, <2>1, <2>3 DEF ListOK, EndsOpen
    <3>3. w = x
      BY <2>1, <3>1, <3>2, SingleWrites
    <3>4. Fresh(w.obj, w.ver, w.read)
      BY EntryFacts
    <3>5. QED
      BY <1>t, <1>h, <3>1, <3>2, <3>3, <3>4
  <2>4. QED
    BY <2>2, <2>3
<1>10. ~Begin(u) /\ ~Finishes(u)
  BY <1>s DEF Runs, Begin, Ended, Finishes
<1>11. QED
  BY <1>s, <1>2, <1>3, <1>4, <1>5, <1>6, <1>7, <1>8, <1>9, <1>10 DEF Kind

\* So the first part of the invariant about what was seen holds for the thread itself.
LEMMA OwnSeen ==
  ASSUME Inv, Inv', HistInv, NEW u \in Threads, Thread(u)
  PROVE  SeenOK(u)'
<1>s. SeenType /\ ListOK(u) /\ Kind(u)
  BY StepKinds DEF HistInv, LocalOK
<1>1. CASE txState'[u] # "ACTIVE"
  BY <1>1 DEF SeenOK
<1>2. CASE txState'[u] = "ACTIVE"
  <2>1. ~Ended(u)'
    BY <1>2 DEF Inv, ThreadInv, PhaseOK
  <2>2. CASE Begin(u)
    <3>1. seen'[u] = {}
      BY <1>s, <2>2 DEF Begin, ListOK
    <3>2. QED
      BY <3>1 DEF SeenOK
  <2>3. CASE ~Begin(u)
    <3>1. Runs(u)
      BY <1>s, <2>1, <2>3, KindPlaces
    <3>2. txState[u] = "ACTIVE"
      BY <1>2, <2>3, StateChange, CommitFacts
    <3>3. QED
      BY <3>1, <3>2, OwnListed, OwnWaiting DEF SeenOK
  <2>4. QED
    BY <2>2, <2>3
<1>3. QED
  BY <1>1, <1>2

\* The commit counter moves on.
LEMMA CounterGrows ==
  ASSUME Inv, Inv', NEW u \in Threads, Thread(u)
  PROVE  /\ counter \in Nat /\ counter' \in Nat /\ counter <= counter'
         /\ \A t \in Threads : cached[t] \in Nat /\ cached[t] <= counter
<1>t. counter \in Nat /\ cached \in [Threads -> 0 .. counter] /\ counter' \in Nat
  BY Types DEF Inv, TypeInv, ReadsOK
<1>c. \A t \in Threads : cached[t] \in Nat /\ cached[t] <= counter
  BY <1>t
<1> SUFFICES counter' = counter \/ counter' = counter + 1
  BY <1>t, <1>c
<1> USE DEF shared, Abort, OnlyGoTo
<1>1. CASE TryCommit(u) \/ ForceCommit(u)
  BY <1>1 DEF TryCommit, ForceCommit
<1>2. CASE Begin(u) \/ KillOwner(u) \/ CleanOnAbort(u) \/ (\E o \in Objects, kind \in {"RO", "RW"} : Open(u, o, kind))
  BY <1>2 DEF Begin, KillOwner, CleanOnAbort, Open
<1>3. CASE (\E o \in Objects : OpenUn(u, o)) \/ Contend(u) \/ Validate(u) \/ CheckCounter(u) \/ CacheCounter(u)
  BY <1>3 DEF OpenUn, Contend, Validate, CheckCounter, CacheCounter
<1>4. CASE LookAtOwner(u) \/ Recheck(u) \/ GiveWay(u) \/ Load(u) \/ Lock(u) \/ Redo(u) \/ ReleaseLock(u)
  BY <1>4 DEF LookAtOwner, Recheck, GiveWay, Load, Lock, Redo, ReleaseLock
<1>5. CASE ReadField(u) \/ CheckField(u) \/ Release(u) \/ Clone(u) \/ Opened(u) \/ Acquire(u) \/ Commit(u)
  BY <1>5 DEF ReadField, CheckField, Release, Clone, Opened, Acquire, Commit
<1>6. CASE AcquireLazily(u) \/ CommitCas(u) \/ RestoreObject(u) \/ EndTransaction(u)
  BY <1>6 DEF AcquireLazily, CommitCas, RestoreObject, EndTransaction
<1>7. QED
  BY <1>1, <1>2, <1>3, <1>4, <1>5, <1>6
  DEF Thread, getReadable, getWritable, open_un, commit, cleanup, OpenTx, OpenLoop

\* What thread t has in its list, and has no more to check.
Known(t) == {e \in Elements(invisReads[t]) : e \notin Unchecked(t)}

\* With the commit counter, what a thread knows after a step it knew before, or has
\* just seen.
LEMMA NewlyKnown ==
  ASSUME Inv, Inv', HistInv, NEW u \in Threads, Thread(u), mode.counts, Runs(u), NEW e \in Known(u)'
  PROVE  /\ cached'[u] = cached[u]
         /\ \/ e \in Known(u)
            \/ isCurrent(u, e[1], e[2]) /\ e[1] \in Objects /\ meta' = meta /\ data' = data /\ txState' = txState
<1>s. SeenType /\ Kind(u)
  BY StepKinds DEF HistInv
<1>t. /\ \A d \in Unchecked(u) : d \in Pair /\ d[1] \in Objects /\ d[2] \in Nat
  BY <1>s, ListTypes
<1>e. e \in Elements(invisReads'[u]) /\ e \notin Unchecked(u)'
  BY DEF Known
<1>n. pc[u] # "validate" \/ (~EndsOpen(u) /\ ~AtEnd(u)) => Unchecked(u) = {}
  BY NotValidating
<1>1. CASE ListUnchecked(u)' /\ invisReads'[u] = invisReads[u]
  BY <1>1, <1>e DEF ListUnchecked
<1>2. CASE Moves(u) \/ Finds(u) \/ Releases(u) \/ Takes(u) \/ Counts(u) \/ Skips(u) \/ Forces(u) \/ Returns(u)
  <2>1. Unchecked(u) = {} /\ Elements(invisReads'[u]) \subseteq Elements(invisReads[u]) /\ cached'[u] = cached[u]
    BY <1>2, <1>n DEF Moves, Finds, Releases, Takes, Counts, Skips, Forces, Returns, SameSeen
  <2>2. QED
    BY <1>e, <2>1 DEF Known
<1>3. CASE Inserts(u)
  <2>1. Unchecked(u) = {} /\ cached'[u] = cached[u] /\ meta' = meta /\ data' = data /\ txState' = txState
    BY <1>3, <1>n DEF Inserts, Rests
  <2>2. PICK o \in Objects : meta[o].owner = Free /\ Elements(invisReads'[u]) = Elements(invisReads[u]) \cup {<<o, meta[o].ver>>}
    BY <1>3 DEF Inserts
  <2>3. CASE e \in Elements(invisReads[u])
    BY <2>1, <2>3 DEF Known
  <2>4. CASE e = <<o, meta[o].ver>>
    BY <2>1, <2>2, <2>4 DEF isCurrent
  <2>5. QED
    BY <1>e, <2>2, <2>3, <2>4
<1>4. CASE Caches(u) \/ (Decides(u) /\ ListUnchecked(u)')
  BY <1>1, <1>4 DEF Caches, Decides, SameSeen
<1>5. CASE Decides(u) /\ ~ListUnchecked(u)'
  <2>1. Unchecked(u) = {} /\ invisReads'[u] = invisReads[u] /\ cached'[u] = cached[u]
    BY <1>5, <1>n DEF Decides, SameSeen
  <2>2. QED
    BY <1>e, <2>1 DEF Known
<1>6. CASE Checks(u)
  <2>1. invisReads'[u] = invisReads[u] /\ cached'[u] = cached[u] /\ meta' = meta /\ data' = data /\ txState' = txState
    BY <1>6 DEF Checks, Rests, SameSeen
  <2>2. PICK d \in Unchecked(u) : isCurrent(u, d[1], d[2]) /\ Unchecked(u) = Unchecked(u)' \cup {d}
    BY <1>6 DEF Checks
  <2>3. CASE e \in Unchecked(u)
    BY <1>e, <1>t, <2>1, <2>2, <2>3
  <2>4. CASE e \notin Unchecked(u)
    BY <1>e, <2>1, <2>4 DEF Known
  <2>5. QED
    BY <2>3, <2>4
<1>7. ~Begin(u) /\ ~Finishes(u) /\ ~Repeats(u)
  BY <1>s DEF Runs, Begin, Ended, Finishes, Repeats
<1>8. QED
  BY <1>s, <1>2, <1>3, <1>4, <1>5, <1>6, <1>7 DEF Kind

\* What an owner remembers does not become less.
LEMMA OwnersRemember ==
  ASSUME Inv, Inv', HistInv, NEW u \in Threads, Thread(u), mode.counts, NEW o \in Objects,
         meta'[o].owner = u, txState'[u] = "ACTIVE", pc'[u] \notin {"count", "cache"}
  PROVE  /\ meta[o].owner = u /\ txState[u] = "ACTIVE"
         /\ cached'[u] = counter \/ (cached'[u] = cached[u] /\ pc[u] \notin {"count", "cache"})
<1>s. SeenType /\ Kind(u) /\ ~mode.isLazy
  BY StepKinds DEF HistInv
<1>m. u # Free /\ u # Locked
  BY MetaFacts
<1>r. ~Ended(u)'
  BY DEF Inv, ThreadInv, PhaseOK
<1>p. Begin(u) \/ Runs(u)
  BY <1>s, <1>r, KindPlaces
<1>c. MetaChanged(u, o)
  BY MetaChange
<1>1. CASE meta'[o] # meta[o]
  <2>1. pc[u] = "acquire"
    BY <1>s, <1>m, <1>c, <1>1 DEF MetaChanged
  <2>2. Moves(u) \/ Takes(u)
    BY <1>s, <1>r, <2>1 DEF Kind, Begin, Finishes, Finds, Releases, Inserts, Repeats, Counts, Skips, Caches, Checks, Decides, Forces, Returns
  <2>3. QED
    BY <1>1, <2>1, <2>2 DEF Moves, Takes, BeginsCheck
<1>2. CASE meta'[o] = meta[o]
  <2>1. meta[o].owner = u /\ pc[u] # "idle"
    BY <1>2, OwnersRun
  <2>2. ~Begin(u) /\ Runs(u)
    BY <1>p, <2>1 DEF Begin
  <2>3. txState[u] = "ACTIVE"
    BY <2>2, StateChange, CommitFacts
  <2>4. cached'[u] = counter \/ (cached'[u] = cached[u] /\ pc[u] \notin {"count", "cache"})
    <3>1. CASE Moves(u)
      BY <3>1 DEF Moves, EndsOpen
    <3>2. CASE Counts(u) \/ Skips(u) \/ Caches(u)
      BY <3>2 DEF Counts, Skips, Caches
    <3>3. QED
      BY <1>s, <1>r, <2>2, <3>1, <3>2 DEF Kind, Finishes, Finds, Releases, Inserts, Repeats, Takes, Checks, Decides, Forces, Returns
  <2>5. QED
    BY <2>1, <2>3, <2>4
<1>3. QED
  BY <1>1, <1>2

\* What the counter says of the thread itself.
LEMMA OwnCount ==
  ASSUME Inv, Inv', HistInv, NEW u \in Threads, Thread(u)
  PROVE  CountOK(u)'
<1>s. SeenType /\ ListOK(u) /\ CountOK(u) /\ Kind(u) /\ mode' = mode
  BY StepKinds, OwnState DEF HistInv, LocalOK
<1>c. /\ counter \in Nat /\ counter' \in Nat /\ counter <= counter'
      /\ \A t \in Threads : cached[t] \in Nat /\ cached[t] <= counter
  BY CounterGrows
<1>t. \A e \in Elements(invisReads[u]) : e[1] \in Objects /\ e[2] \in Nat
  BY <1>s, ListTypes
<1> SUFFICES ASSUME mode.counts, ~Ended(u)'
             PROVE  /\ cached'[u] = counter' => \A e \in Known(u)' : Clean(e[1], e[2])'
                    /\ \A e \in Known(u)', v \in Threads \ {u} :
                         meta'[e[1]].owner = v /\ txState'[v] = "ACTIVE" /\ pc'[v] \notin {"count", "cache"} =>
                           cached'[u] <= cached'[v]
                    /\ Deciding(u)' /\ writes'[u] # <<>> => cached'[u] < counter'
  BY <1>s DEF CountOK, Known
<1>a. txState'[u] # "COMMITTED"
  BY DEF Inv, ThreadInv, PhaseOK
<1>1. CASE Begin(u)
  <2>1. invisReads'[u] = <<>> /\ ~AtEnd(u)'
    BY <1>s, <1>1, KindPlaces DEF ListOK, AtEnd
  <2>2. Known(u)' = {}
    BY <2>1 DEF Known, Elements
  <2>3. QED
    BY <2>1, <2>2 DEF Deciding
<1>2. CASE ~Begin(u)
  <2>r. Runs(u)
    BY <1>s, <1>2, KindPlaces
  <2>k. ASSUME NEW e \in Known(u)'
        PROVE  /\ cached'[u] = cached[u]
               /\ \/ e \in Known(u)
                  \/ isCurrent(u, e[1], e[2]) /\ e[1] \in Objects /\ meta' = meta /\ txState' = txState
    BY <2>r, NewlyKnown
  <2>1. ASSUME NEW e \in Known(u)', cached'[u] = counter' PROVE Clean(e[1], e[2])'
    <3>1. CASE e \in Known(u)
      <4>1. cached[u] = counter /\ e[1] \in Objects
        BY <1>c, <1>t, <2>k, <2>1, <3>1 DEF Known
      <4>2. Clean(e[1], e[2])
        BY <1>s, <3>1, <4>1, <2>r DEF CountOK, Known, Runs
      <4>3. ~CommitsNow(u)
        BY <1>a, CommitFacts
      <4>4. QED
        BY <4>1, <4>2, <4>3, CleanStays
    <3>2. CASE isCurrent(u, e[1], e[2]) /\ meta' = meta
      BY <1>a, <3>2, MetaFacts DEF isCurrent, Clean, Done
    <3>3. QED
      BY <2>k, <3>1, <3>2
  <2>2. ASSUME NEW e \in Known(u)', NEW v \in Threads \ {u},
               meta'[e[1]].owner = v, txState'[v] = "ACTIVE", pc'[v] \notin {"count", "cache"}
        PROVE  cached'[u] <= cached'[v]
    <3>1. CASE e \in Known(u)
      <4>1. e[1] \in Objects
        BY <1>t, <3>1 DEF Known
      <4>2. MetaChanged(u, e[1]) /\ v # Free /\ v # Locked
        BY <4>1, MetaChange, MetaFacts
      <4>3. meta[e[1]].owner = v
        BY <2>2, <4>2 DEF MetaChanged
      <4>4. txState[v] = "ACTIVE" /\ pc'[v] = pc[v] /\ cached'[v] = cached[v]
        BY <1>s, <2>2, OtherFrame
      <4>5. cached[u] <= cached[v]
        BY <1>s, <2>2, <2>r, <3>1, <4>3, <4>4 DEF CountOK, Known, Runs
      <4>6. QED
        BY <2>k, <4>4, <4>5
    <3>2. CASE isCurrent(u, e[1], e[2]) /\ meta' = meta
      BY <2>2, <3>2, MetaFacts DEF isCurrent
    <3>3. QED
      BY <2>k, <3>1, <3>2
  <2>3. ASSUME Deciding(u)', writes'[u] # <<>> PROVE cached'[u] < counter'
    <3>1. Checks(u) \/ Decides(u) \/ Forces(u)
      BY <1>s, <2>3, KindPlaces DEF Deciding
    <3>2. CASE Decides(u)
      BY <2>3, <3>2 DEF Decides
    <3>3. CASE Checks(u) \/ Forces(u)
      <4>1. AtEnd(u)
        BY <1>s, <2>3, <3>3, KindPlaces DEF Deciding, Forces, AtEnd
      <4>2. txState' = txState /\ writes'[u] = writes[u] /\ cached'[u] = cached[u]
        BY <3>3 DEF Checks, Forces, Rests
      <4>3. cached[u] < counter
        BY <1>s, <2>r, <2>3, <4>1, <4>2 DEF CountOK, Deciding, Runs
      <4>4. QED
        BY <1>c, <4>2, <4>3
    <3>4. QED
      BY <3>1, <3>2, <3>3
  <2>4. QED
    BY <2>1, <2>2, <2>3
<1>3. QED
  BY <1>1, <1>2

\* And what it says of the others.
LEMMA OtherCount ==
  ASSUME Inv, Inv', HistInv, NEW u \in Threads, Thread(u), NEW t \in Threads \ {u}
  PROVE  CountOK(t)'
<1>s. SeenType /\ ListOK(t) /\ CountOK(t) /\ CountOK(u)
  BY DEF HistInv, LocalOK
<1>f. /\ cached'[t] = cached[t] /\ writes'[t] = writes[t] /\ mode' = mode /\ (Ended(t)' <=> Ended(t))
      /\ invisReads'[t] = invisReads[t] /\ Unchecked(t)' = Unchecked(t) /\ (Deciding(t)' => Deciding(t))
  BY <1>s, OtherFrame
<1>c. /\ counter \in Nat /\ counter' \in Nat /\ counter <= counter'
      /\ \A v \in Threads : cached[v] \in Nat /\ cached[v] <= counter
  BY CounterGrows
<1>t. \A e \in Elements(invisReads[t]) : e[1] \in Objects /\ e[2] \in Nat
  BY <1>s, ListTypes
<1> SUFFICES ASSUME mode.counts, ~Ended(t)
             PROVE  /\ cached[t] = counter' => \A e \in Known(t) : Clean(e[1], e[2])'
                    /\ \A e \in Known(t), v \in Threads \ {t} :
                         meta'[e[1]].owner = v /\ txState'[v] = "ACTIVE" /\ pc'[v] \notin {"count", "cache"} =>
                           cached[t] <= cached'[v]
                    /\ Deciding(t) /\ writes[t] # <<>> => cached[t] < counter'
  BY <1>f DEF CountOK, Known, Clean, Done
<1>o. /\ cached[t] = counter => \A e \in Known(t) : Clean(e[1], e[2])
      /\ \A e \in Known(t), v \in Threads \ {t} :
           meta[e[1]].owner = v /\ txState[v] = "ACTIVE" /\ pc[v] \notin {"count", "cache"} => cached[t] <= cached[v]
      /\ Deciding(t) /\ writes[t] # <<>> => cached[t] < counter
  BY <1>s DEF CountOK, Known
<1>1. ASSUME cached[t] = counter', NEW e \in Known(t) PROVE Clean(e[1], e[2])'
  <2>1. cached[t] = counter /\ e[1] \in Objects
    BY <1>c, <1>t, <1>1 DEF Known
  <2>2. Clean(e[1], e[2])
    BY <1>o, <2>1
  <2>3. ~(CommitsNow(u) /\ meta[e[1]].owner = u)
    <3>1. SUFFICES ASSUME CommitsNow(u), meta[e[1]].owner = u PROVE FALSE
      OBVIOUS
    <3>2. Deciding(u) /\ txState[u] = "ACTIVE" /\ pc[u] = "cas" /\ ~Ended(u)
      BY <3>1, CommitFacts
    <3>3. writes[u] # <<>>
      BY <2>1, <3>1, OwnersRun
    <3>4. cached[u] < counter
      BY <1>s, <3>2, <3>3 DEF CountOK
    <3>5. cached[t] <= cached[u]
      BY <1>o, <3>1, <3>2
    <3>6. QED
      BY <1>c, <2>1, <3>4, <3>5
  <2>4. QED
    BY <2>1, <2>2, <2>3, CleanStays
<1>2. ASSUME NEW e \in Known(t), NEW v \in Threads \ {t},
             meta'[e[1]].owner = v, txState'[v] = "ACTIVE", pc'[v] \notin {"count", "cache"}
      PROVE  cached[t] <= cached'[v]
  <2>o. e[1] \in Objects
    BY <1>t DEF Known
  <2>1. CASE v = u
    <3>1. /\ meta[e[1]].owner = u /\ txState[u] = "ACTIVE"
          /\ cached'[u] = counter \/ (cached'[u] = cached[u] /\ pc[u] \notin {"count", "cache"})
      BY <1>2, <2>o, <2>1, OwnersRemember
    <3>2. QED
      BY <1>c, <1>o, <2>1, <3>1
  <2>2. CASE v # u
    <3>1. MetaChanged(u, e[1]) /\ v # Free /\ v # Locked
      BY <2>o, MetaChange, MetaFacts
    <3>2. meta[e[1]].owner = v
      BY <1>2, <2>2, <3>1 DEF MetaChanged
    <3>3. txState[v] = "ACTIVE" /\ pc'[v] = pc[v] /\ cached'[v] = cached[v]
      BY <1>s, <1>2, <2>2, OtherFrame
    <3>4. QED
      BY <1>o, <1>2, <3>2, <3>3
  <2>3. QED
    BY <2>1, <2>2
<1>3. Deciding(t) /\ writes[t] # <<>> => cached[t] < counter'
  BY <1>c, <1>o
<1>4. QED
  BY <1>1, <1>2, <1>3

\* A transaction that is live stays out of the log.
LEMMA LiveStep ==
  ASSUME Inv, Inv', HistInv, NEW u \in Threads, Thread(u), NEW t \in Threads
  PROVE  LiveOK(t)'
<1>s. SeenType /\ LiveOK(t) /\ Kind(u)
  BY StepKinds DEF HistInv, LocalOK
<1>c. committed' = committed \/ \E c : c.tx = Tx(u) /\ committed' = committed \cup {c}
  BY ThreadKept, CommitRecord DEF Kept, IsCommitOf
<1>1. CASE t # u
  <2>1. seen'[t] = seen[t] /\ attempt'[t] = attempt[t]
    BY <1>s, <1>1, OtherFrame
  <2>2. \A c \in committed' : c \in committed \/ c.tx # Tx(t)
    BY <1>1, <1>c DEF Tx
  <2>x. PICK x : x = Tx(t) /\ x = Tx(t)'
    BY <2>1 DEF Tx
  <2>3. QED
    BY <1>s, <2>1, <2>2, <2>x DEF LiveOK, IsCommitted
<1>2. CASE t = u
  <2>1. CASE ~Ended(u)'
    <3>1. RunningIsUncommitted'
      BY RunningUncommitted, PTL
    <3>2. QED
      BY <1>2, <2>1, <3>1 DEF RunningIsUncommitted, LiveOK
  <2>2. CASE Finishes(u)
    <3>1. attempt'[u] = attempt[u] /\ (seen'[u] = {} \/ committed' = committed) /\ seen'[u] \subseteq seen[u]
      BY <2>2 DEF Finishes
    <3>x. PICK x : x = Tx(u) /\ x = Tx(u)'
      BY <3>1 DEF Tx
    <3>2. QED
      BY <1>s, <1>2, <3>1, <3>x DEF LiveOK, IsCommitted
  <2>3. CASE Begin(u)
    <3>1. seen'[u] = {}
      <4>1. ListOK(u)
        BY DEF HistInv, LocalOK
      <4>2. QED
        BY <2>3, <4>1 DEF Begin, ListOK
    <3>2. QED
      BY <1>2, <3>1 DEF LiveOK
  <2>4. CASE Ended(u)' /\ ~Finishes(u) /\ ~Begin(u)
    BY <1>s, <2>4 DEF Kind, Runs, Moves, Finds, Releases, Inserts, Repeats, Takes, Counts, Skips, Caches, Checks, Decides, Forces, Returns
  <2>5. QED
    BY <2>1, <2>2, <2>3, <2>4
<1>3. QED
  BY <1>1, <1>2

\* So every step of a thread preserves the invariant.
LEMMA HistStep ==
  ASSUME Inv, Inv', HistInv, NEW u \in Threads, Thread(u)
  PROVE  HistInv'
<1>s. SeenType /\ ModeOK(u) /\ mode' = mode
  BY OwnState DEF HistInv, LocalOK
<1>1. ASSUME NEW t \in Threads PROVE LocalOK(t)'
  <2>0. LiveOK(t)'
    BY LiveStep
  <2>1. CASE t = u
    <3>1. ModeOK(u)'
      BY <1>s, ModeStep DEF ModeOK
    <3>2. QED
      BY <2>0, <2>1, <3>1, OwnPast, OwnList, OwnSeen, OwnCount DEF LocalOK
  <2>2. CASE t # u
    BY <2>0, <2>2, OtherLists, OtherCount DEF LocalOK
  <2>3. QED
    BY <2>1, <2>2
<1>2. SeenType' /\ LogOK' /\ ContentsOK'
  BY <1>s, SeenTypeStep, LogStep, ContentsStep
<1>3. ~(mode'.isLazy /\ mode'.counts)
  BY <1>s DEF HistInv
<1>4. QED
  BY <1>1, <1>2, <1>3 DEF HistInv

\* Initially nothing has been read or committed.
LEMMA HistInit ==
  ASSUME NoLazyCounting, Init
  PROVE  HistInv
<1>1. ~(mode.isLazy /\ mode.counts)
  BY DEF NoLazyCounting, Init
<1>2. committed = {} /\ SeenType /\ LogOK
  BY DEF Init, SeenType, LogOK
<1>3. ContentsOK
  <2>1. ASSUME NEW o \in Objects PROVE Current(o) = Initial /\ data[o] = Initial
    <3>1. meta[o].owner = Free /\ data[o] = Initial
      BY DEF Init, Unowned
    <3>2. QED
      BY <3>1, MetaFacts DEF Current
  <2>2. QED
    BY <1>2, <2>1 DEF ContentsOK, Made, Gone
<1>4. ASSUME NEW t \in Threads PROVE LocalOK(t)
  <2>1. pc[t] = "idle" /\ invisReads[t] = <<>> /\ writes[t] = <<>> /\ seen[t] = {} /\ began[t] = {}
    BY DEF Init
  <2>2. Elements(invisReads[t]) = {} /\ Elements(writes[t]) = {}
    BY <2>1 DEF Elements
  <2>3. QED
    BY <2>1, <2>2 DEF LocalOK, ModeOK, PastOK, ListOK, SeenOK, CountOK, LiveOK, EndsOpen, Ended
<1>5. QED
  BY <1>1, <1>2, <1>3, <1>4 DEF HistInv

-------------------------------------------------------------------------------
(* The serial order: numbers drawn from a clock.                             *)

\* The contents that the open of thread t will return for writing.
Pending(t) == IF EndsOpen(t) /\ loc[t].kind = "RW" THEN {<<loc[t].obj, loc[t].copy>>} ELSE {}

\* What thread t has read, or may still read without another open.
Sight(t) ==
  seen[t] \cup {<<e[1], Current(e[1])>> : e \in {d \in Elements(invisReads[t]) : Clean(d[1], d[2])}} \cup Pending(t)

\* Transaction x replaces r, a pair of an object and its contents: it has
\* committed, or will if nobody kills it first.
Overwrites(x, r) ==
  \/ \E c \in committed : c.tx = x /\ r \in c.writes
  \/ \E u \in Threads : Deciding(u) /\ x = Tx(u) /\ \E w \in Elements(writes[u]) : r = <<w.obj, w.read>>

\* Number n comes before that of every other transaction that replaces r; it
\* follows that of the transaction that made contents v.
Before(stamp, n, x, r) == \A y \in Txs \ {x} : Overwrites(y, r) => n < stamp[y]
Follows(stamp, n, v) == v = Initial \/ stamp[v] < n

\* Number n is a place in the serial order for transaction x, which read reads
\* and began after the transactions of after.
Ordered(stamp, n, x, reads, after) ==
  /\ \A r \in reads : Follows(stamp, n, r[2]) /\ Before(stamp, n, x, r)
  /\ \A v \in after : Follows(stamp, n, v)

\* Number n is a place for the attempt of thread t when the validation that it
\* has begun has checked all that is unchecked.
PassOK(clock, stamp, last, t) ==
  LET n == stamp[Tx(t)] IN
  /\ last[t] < n /\ n < clock
  /\ \A r \in Sight(t) : Follows(stamp, n, r[2]) /\ (Waiting(t, r[1], r[2]) \/ Before(stamp, n, Tx(t), r))

\* What the numbers say of the committed transactions and of the attempt of t:
\* clock is the next number, stamp the number that a transaction drew when it
\* last began to validate, last the number of the last open that returned.
CommittedRanks(clock, stamp) ==
  \A c \in committed : stamp[c.tx] < clock /\ Ordered(stamp, stamp[c.tx], c.tx, c.reads, c.after)

ThreadRanks(clock, stamp, last, t) ==
  /\ last[t] < clock /\ Ordered(stamp, last[t], Tx(t), seen[t], began[t])
  /\ ~Ended(t) /\ ~EndsOpen(t) => Ordered(stamp, last[t], Tx(t), Sight(t), began[t])
  /\ txState[t] = "ACTIVE" /\ Passing(t) =>
       Ordered(stamp, last[t], Tx(t), Sight(t), began[t]) \/ PassOK(clock, stamp, last, t)
  /\ Deciding(t) => PassOK(clock, stamp, last, t)

RankInv(clock, stamp, last) ==
  CommittedRanks(clock, stamp) /\ \A t \in Threads : ThreadRanks(clock, stamp, last, t)

\* There are such numbers.
Ranked ==
  \E clock \in Nat, stamp \in [Txs -> Nat], last \in [Threads -> Nat] : RankInv(clock, stamp, last)

-------------------------------------------------------------------------------
(* The numbers that others have stay good.                                   *)

\* Only the commit that begins its last validation is new to replace anything.
LEMMA OverwritesStep ==
  ASSUME Inv, Inv', SeenType, NEW u \in Threads, Thread(u), Kind(u), NEW y, NEW r, Overwrites(y, r)'
  PROVE  Overwrites(y, r) \/ (Decides(u) /\ y = Tx(u))
<1>1. CASE \E c \in committed' : c.tx = y /\ r \in c.writes
  <2>1. PICK c \in committed' : c.tx = y /\ r \in c.writes
    BY <1>1
  <2>2. CASE c \in committed
    BY <2>1, <2>2 DEF Overwrites
  <2>3. CASE c \notin committed
    <3>1. CommitsNow(u)
      BY <2>3, ThreadKept DEF Kept
    <3>2. PICK d : IsCommitOf(d, u)
      BY <3>1, CommitRecord
    <3>3. c = d
      BY <2>3, <3>2 DEF IsCommitOf
    <3>4. y = Tx(u) /\ \E w \in Elements(writes[u]) : r = <<w.obj, w.read>>
      BY <2>1, <3>2, <3>3 DEF IsCommitOf
    <3>5. Deciding(u)
      BY <3>1, CommitFacts
    <3>6. QED
      BY <3>4, <3>5 DEF Overwrites
  <2>4. QED
    BY <2>2, <2>3
<1>2. CASE \E t \in Threads : Deciding(t)' /\ y = Tx(t)' /\ \E w \in Elements(writes'[t]) : r = <<w.obj, w.read>>
  <2>1. PICK t \in Threads : Deciding(t)' /\ y = Tx(t)' /\ \E w \in Elements(writes'[t]) : r = <<w.obj, w.read>>
    BY <1>2
  <2>2. CASE t # u
    <3>1. Deciding(t) /\ writes'[t] = writes[t] /\ attempt'[t] = attempt[t]
      BY <2>1, <2>2, OtherFrame
    <3>2. QED
      BY <2>1, <3>1 DEF Overwrites, Tx
  <2>3. CASE t = u
    <3>1. AtEnd(u)' /\ txState'[u] = "ACTIVE"
      BY <2>1, <2>3 DEF Deciding
    <3>2. Decides(u) \/ Checks(u) \/ Forces(u)
      BY <3>1, KindPlaces
    <3>3. attempt'[u] = attempt[u]
      BY <3>2 DEF Decides, Checks, Forces, Runs
    <3>4. CASE Decides(u)
      BY <2>1, <2>3, <3>3, <3>4 DEF Tx
    <3>5. CASE Checks(u) \/ Forces(u)
      <4>1. AtEnd(u)
        BY <3>1, <3>5, KindPlaces DEF Forces, AtEnd
      <4>2. writes'[u] = writes[u] /\ Deciding(u)
        BY <3>1, <3>5, <4>1 DEF Checks, Forces, Rests, Deciding
      <4>3. QED
        BY <2>1, <2>3, <3>3, <4>2 DEF Tx, Overwrites
    <3>6. QED
      BY <3>2, <3>4, <3>5
  <2>4. QED
    BY <2>2, <2>3
<1>3. QED
  BY <1>1, <1>2 DEF Overwrites

\* The step of thread u leaves the numbers of transactions, or draws one for its
\* own, which it must if it begins its last validation.
Renumbers(clock, stamp, later, new, u) ==
  /\ later \in Nat /\ clock <= later /\ new \in [Txs -> Nat]
  /\ \/ new = stamp /\ ~Decides(u)
     \/ new = [stamp EXCEPT ![Tx(u)] = clock] /\ Runs(u)

\* The number of a committed transaction stays.
LEMMA StampStays ==
  ASSUME Inv, NEW u \in Threads, NEW clock \in Nat, NEW stamp \in [Txs -> Nat],
         NEW later, NEW new, Renumbers(clock, stamp, later, new, u),
         NEW v \in Txs, IsCommitted(v) \/ v # Tx(u)
  PROVE  new[v] = stamp[v]
<1>1. CASE new = stamp
  BY <1>1
<1>2. CASE new = [stamp EXCEPT ![Tx(u)] = clock] /\ ~Ended(u)
  <2>1. v # Tx(u)
    BY <1>2, RunningUncommitted DEF RunningIsUncommitted
  <2>2. QED
    BY <1>2, <2>1
<1>3. QED
  BY <1>1, <1>2 DEF Renumbers, Runs

\* A number that comes before those that replace r still does.
LEMMA BeforeStable ==
  ASSUME Inv, Inv', SeenType, NEW u \in Threads, Thread(u), Kind(u),
         NEW clock \in Nat, NEW stamp \in [Txs -> Nat], NEW later, NEW new,
         Renumbers(clock, stamp, later, new, u),
         NEW n \in Nat, n < clock, NEW x, NEW r, Before(stamp, n, x, r)
  PROVE  Before(new, n, x, r)'
<1>1. ASSUME NEW y \in Txs \ {x}, Overwrites(y, r)' PROVE n < new[y]
  <2>1. Overwrites(y, r) \/ (Decides(u) /\ y = Tx(u))
    BY <1>1, OverwritesStep
  <2>2. CASE new = stamp
    BY <1>1, <2>1, <2>2 DEF Before, Renumbers
  <2>3. CASE new = [stamp EXCEPT ![Tx(u)] = clock]
    <3>1. CASE y = Tx(u)
      BY <2>3, <3>1
    <3>2. CASE y # Tx(u)
      <4>1. new[y] = stamp[y] /\ Overwrites(y, r)
        BY <2>1, <2>3, <3>2
      <4>2. QED
        BY <4>1 DEF Before
    <3>3. QED
      BY <3>1, <3>2
  <2>4. QED
    BY <2>2, <2>3 DEF Renumbers
<1>2. QED
  BY <1>1 DEF Before

\* A number that follows that of a committed transaction still does.
LEMMA FollowsStable ==
  ASSUME Inv, NEW u \in Threads, NEW clock \in Nat, NEW stamp \in [Txs -> Nat],
         NEW later, NEW new, Renumbers(clock, stamp, later, new, u),
         NEW n, NEW v, Follows(stamp, n, v), v = Initial \/ IsCommitted(v)
  PROVE  Follows(new, n, v)
<1>1. IsCommitted(v) => v \in Txs
  BY DEF IsCommitted, Inv, TypeInv, HistoryOK
<1>2. QED
  BY <1>1, StampStays DEF Follows

\* A place in the serial order remains one.
LEMMA OrderedStable ==
  ASSUME Inv, Inv', SeenType, NEW u \in Threads, Thread(u), Kind(u),
         NEW clock \in Nat, NEW stamp \in [Txs -> Nat], NEW later, NEW new,
         Renumbers(clock, stamp, later, new, u),
         NEW n \in Nat, n < clock, NEW x, NEW reads, NEW after, Ordered(stamp, n, x, reads, after),
         \A r \in reads : Made(r[1], r[2]), \A v \in after : IsCommitted(v)
  PROVE  Ordered(new, n, x, reads, after)'
<1>1. ASSUME NEW r \in reads PROVE Follows(new, n, r[2]) /\ Before(new, n, x, r)'
  <2>1. Follows(stamp, n, r[2]) /\ Before(stamp, n, x, r) /\ (r[2] = Initial \/ IsCommitted(r[2]))
    BY MadeFacts DEF Ordered
  <2>2. QED
    BY <2>1, BeforeStable, FollowsStable
<1>2. ASSUME NEW v \in after PROVE Follows(new, n, v)
  BY FollowsStable DEF Ordered
<1>3. QED
  BY <1>1, <1>2 DEF Ordered, Follows

-------------------------------------------------------------------------------
(* What a thread may read, and what nobody else replaces.                    *)

\* What a thread may read was committed.
LEMMA SightMade ==
  ASSUME Inv, HistInv, NEW t \in Threads, NEW r \in Sight(t)
  PROVE  r = <<r[1], r[2]>> /\ r[1] \in Objects /\ Made(r[1], r[2])
<1>s. SeenType /\ PastOK(t) /\ ListOK(t) /\ ContentsOK
  BY DEF HistInv, LocalOK
<1>t. /\ \A e \in Elements(invisReads[t]) : e[1] \in Objects /\ e[2] \in Nat
      /\ \A w \in Elements(writes[t]) : w.obj \in Objects
      /\ \A q \in seen[t] : q = <<q[1], q[2]>> /\ q[1] \in Objects
  BY <1>s, ListTypes
<1>1. CASE r \in seen[t]
  BY <1>s, <1>t, <1>1 DEF PastOK
<1>2. CASE r \in Pending(t)
  <2>1. r = <<loc[t].obj, loc[t].copy>> /\ EndsOpen(t) /\ loc[t].kind = "RW"
    BY <1>2 DEF Pending
  <2>2. PICK w \in Elements(writes[t]) : w.obj = loc[t].obj /\ w.read = loc[t].copy
    BY <1>s, <2>1 DEF ListOK
  <2>3. w.obj \in Objects /\ Made(w.obj, w.read)
    BY <1>s, <1>t DEF PastOK
  <2>4. QED
    BY <2>1, <2>2, <2>3
<1>3. CASE r \in {<<e[1], Current(e[1])>> : e \in {d \in Elements(invisReads[t]) : Clean(d[1], d[2])}}
  <2>1. PICK e \in Elements(invisReads[t]) : r = <<e[1], Current(e[1])>>
    BY <1>3
  <2>2. e[1] \in Objects
    BY <1>t
  <2>3. Made(e[1], Current(e[1]))
    BY <1>s, <2>2 DEF ContentsOK
  <2>4. QED
    BY <2>1, <2>2, <2>3
<1>4. QED
  BY <1>1, <1>2, <1>3 DEF Sight

\* What a thread may read after a step is what it could before, unless it has
\* opened something.
LEMMA SightStays ==
  ASSUME Inv, Inv', HistInv, NEW u \in Threads, Thread(u), NEW t \in Threads,
         Elements(invisReads'[t]) \subseteq Elements(invisReads[t]),
         seen'[t] \subseteq Sight(t), Pending(t)' \subseteq Sight(t)
  PROVE  Sight(t)' \subseteq Sight(t)
<1>s. SeenType /\ ListOK(t)
  BY DEF HistInv, LocalOK
<1>1. ASSUME NEW e \in Elements(invisReads'[t]), Clean(e[1], e[2])'
      PROVE  <<e[1], Current(e[1])'>> \in Sight(t)
  <2>1. e \in Elements(invisReads[t]) /\ e[1] \in Objects /\ e[2] \in Nat
    BY <1>s, ListTypes
  <2>2. e[2] <= meta[e[1]].ver
    BY <1>s, <2>1 DEF ListOK
  <2>o. PICK o \in Objects, v \in Nat : o = e[1] /\ v = e[2]
    BY <2>1
  <2>3. Clean(o, v)'
    BY <1>1, <2>o DEF Clean, Done
  <2>4. Clean(o, v) /\ Current(o)' = Current(o)
    BY <2>2, <2>o, <2>3, CleanBefore
  <2>5. Clean(e[1], e[2]) /\ Current(e[1])' = Current(e[1])
    BY <2>o, <2>4 DEF Current
  <2>6. QED
    BY <2>1, <2>5 DEF Sight
<1>2. QED
  BY <1>1 DEF Sight

\* Nobody but the thread itself replaces what is current, if the owner of the object
\* does not commit.
LEMMA CurrentIsLast ==
  ASSUME Inv, HistInv, NEW t \in Threads, NEW o \in Objects,
         \A v \in Threads \ {t} : meta[o].owner = v => ~Deciding(v),
         NEW y, Overwrites(y, <<o, Current(o)>>)
  PROVE  y = Tx(t)
<1>1. PICK c : c = Current(o)
  OBVIOUS
<1>2. ~Gone(o, c)
  BY <1>1 DEF HistInv, ContentsOK
<1>3. PICK u \in Threads : Deciding(u) /\ y = Tx(u) /\ \E w \in Elements(writes[u]) : <<o, c>> = <<w.obj, w.read>>
  BY <1>1, <1>2 DEF Overwrites, Gone
<1>4. PICK w \in Elements(writes[u]) : w.obj = o
  BY <1>3
<1>5. txState[u] = "ACTIVE" /\ EndsCommit(u)
  BY <1>3 DEF Deciding, AtEnd, EndsCommit
<1>6. meta[o] = Owned(u, w.log, w.ver) /\ w.log \in Logs /\ w.ver \in Nat
  BY <1>4, <1>5, ThreadFacts, EntryFacts DEF WritesOK
<1>7. meta[o].owner = u
  BY <1>6, MetaFacts
<1>8. QED
  BY <1>3, <1>7

\* An entry of the list of reads is still there, and its owner does not commit.
Sure(t, e) == Clean(e[1], e[2]) /\ \A v \in Threads \ {t} : meta[e[1]].owner = v => ~Deciding(v)

\* All that thread t has in its lists it has still to check, or it owns it, or need
\* not look.
Covered(t) == (\A e \in Elements(invisReads[t]) : e \in Unchecked(t) \/ Sure(t, e)) /\ WritesUnchecked(t)

\* Then nobody else replaces what it may read, unless its validation will notice.
CoveredIsGuarded ==
  \A t \in Threads : Inv /\ HistInv /\ txState[t] = "ACTIVE" /\ Covered(t) =>
    \A r \in Sight(t) : Waiting(t, r[1], r[2]) \/ \A y : Overwrites(y, r) => y = Tx(t)

LEMMA CoveredGuarded == CoveredIsGuarded
<1>1. ASSUME NEW t \in Threads, Inv, HistInv, txState[t] = "ACTIVE", Covered(t), NEW r \in Sight(t)
      PROVE  Waiting(t, r[1], r[2]) \/ \A y : Overwrites(y, r) => y = Tx(t)
  <2>s. SeenType /\ SeenOK(t) /\ ListOK(t)
    BY <1>1 DEF HistInv, LocalOK
  <2>t. \A e \in Elements(invisReads[t]) : e[1] \in Objects /\ e[2] \in Nat
    BY <1>1, <2>s, ListTypes
  <2>r. r = <<r[1], r[2]>> /\ r[1] \in Objects
    BY <1>1, SightMade
  <2>c. ASSUME r[2] = Current(r[1]), \A v \in Threads \ {t} : meta[r[1]].owner = v => ~Deciding(v)
        PROVE  \A y : Overwrites(y, r) => y = Tx(t)
    <3>1. PICK o \in Objects : o = r[1]
      BY <2>r
    <3>2. r = <<o, Current(o)>>
      BY <2>c, <2>r, <3>1
    <3>3. \A v \in Threads \ {t} : meta[o].owner = v => ~Deciding(v)
      BY <2>c, <3>1
    <3>4. QED
      BY <1>1, <3>2, <3>3, CurrentIsLast
  <2>1. ASSUME NEW e \in Elements(invisReads[t]), e[1] = r[1], Fresh(r[1], e[2], r[2])
        PROVE  Waiting(t, r[1], r[2]) \/ \A y : Overwrites(y, r) => y = Tx(t)
    <3>1. CASE e \in Unchecked(t)
      BY <2>1, <3>1 DEF Waiting
    <3>2. CASE Sure(t, e)
      <4>1. meta[r[1]].ver = e[2] /\ ~Done(r[1])
        BY <2>1, <3>2 DEF Sure, Clean
      <4>2. data[r[1]] = r[2] /\ Current(r[1]) = data[r[1]]
        BY <2>1, <4>1 DEF Fresh, Done, Current
      <4>3. QED
        BY <2>c, <2>1, <3>2, <4>2 DEF Sure
    <3>3. QED
      BY <1>1, <3>1, <3>2 DEF Covered
  <2>2. ASSUME NEW w \in Elements(writes[t]), w.obj = r[1], Fresh(r[1], w.ver, r[2])
        PROVE  Waiting(t, r[1], r[2]) \/ \A y : Overwrites(y, r) => y = Tx(t)
    <3>1. CASE <<w.obj, w.ver>> \in Unchecked(t)
      <4>1. PICK e \in Unchecked(t) : e = <<w.obj, w.ver>>
        BY <3>1
      <4>2. e[1] = r[1] /\ e[2] = w.ver
        BY <2>2, <4>1
      <4>3. QED
        BY <2>2, <4>2 DEF Waiting
    <3>2. CASE w.acquired
      <4>1. meta[w.obj] = Owned(t, w.log, w.ver) /\ w.log \in Logs /\ w.ver \in Nat
        BY <1>1, <3>2, ThreadFacts, EntryFacts DEF WritesOK
      <4>2. meta[r[1]].owner = t /\ meta[r[1]].ver = w.ver
        BY <2>2, <4>1, MetaFacts
      <4>3. data[r[1]] = r[2] /\ Current(r[1]) = data[r[1]]
        BY <1>1, <2>2, <4>2, MetaFacts DEF Fresh, Current
      <4>4. QED
        BY <2>c, <4>2, <4>3
    <3>3. QED
      BY <1>1, <3>1, <3>2 DEF Covered, WritesUnchecked
  <2>3. CASE r \in seen[t]
    BY <1>1, <2>s, <2>1, <2>2, <2>3 DEF SeenOK
  <2>4. CASE r \in Pending(t)
    <3>1. r = <<loc[t].obj, loc[t].copy>> /\ EndsOpen(t) /\ loc[t].kind = "RW"
      BY <2>4 DEF Pending
    <3>2. PICK w \in Elements(writes[t]) : w.obj = loc[t].obj /\ w.read = loc[t].copy
      BY <2>s, <3>1 DEF ListOK
    <3>3. Fresh(w.obj, w.ver, w.read)
      BY <1>1, EntryFacts
    <3>4. QED
      BY <2>2, <3>1, <3>2, <3>3
  <2>5. CASE r \in {<<e[1], Current(e[1])>> : e \in {d \in Elements(invisReads[t]) : Clean(d[1], d[2])}}
    <3>1. PICK e \in Elements(invisReads[t]) : r = <<e[1], Current(e[1])>> /\ Clean(e[1], e[2])
      BY <2>5
    <3>2. r[1] = e[1] /\ r[2] = Current(e[1])
      BY <3>1
    <3>3. Fresh(r[1], e[2], r[2])
      BY <2>s, <3>1, <3>2 DEF ListOK, Clean, Done, Current, Fresh
    <3>4. QED
      BY <2>1, <3>2, <3>3
  <2>6. QED
    BY <1>1, <2>3, <2>4, <2>5 DEF Sight
<1>2. QED
  BY <1>1 DEF CoveredIsGuarded

\* With the counter: while it is what thread t remembers, no owner of what is in the
\* list commits.
LEMMA CountedIsSure ==
  ASSUME Inv, HistInv, NEW t \in Threads, mode.counts, ~Ended(t), cached[t] = counter, Unchecked(t) = {},
         NEW e \in Elements(invisReads[t])
  PROVE  Sure(t, e)
<1>s. SeenType /\ CountOK(t)
  BY DEF HistInv, LocalOK
<1>t. e[1] \in Objects
  BY <1>s, ListTypes
<1>1. Clean(e[1], e[2])
  BY <1>s DEF CountOK
<1>2. ASSUME NEW v \in Threads \ {t}, meta[e[1]].owner = v, Deciding(v) PROVE FALSE
  <2>1. txState[v] = "ACTIVE" /\ pc[v] \notin {"count", "cache"} /\ ~Ended(v)
    BY <1>2, ThreadFacts DEF Deciding, AtEnd, PhaseOK
  <2>2. cached[t] <= cached[v]
    BY <1>s, <1>2, <2>1 DEF CountOK
  <2>3. writes[v] # <<>>
    BY <1>t, <1>2, OwnersRun
  <2>4. CountOK(v)
    BY DEF HistInv, LocalOK
  <2>5. cached[v] < counter
    BY <1>2, <2>1, <2>3, <2>4 DEF CountOK
  <2>6. cached[v] \in Nat /\ counter \in Nat
    BY Types
  <2>7. QED
    BY <2>2, <2>5, <2>6
<1>3. QED
  BY <1>1, <1>2 DEF Sure

\* What a thread may read was committed, in every state.
SightIsMade == \A t \in Threads : Inv /\ HistInv => \A r \in Sight(t) : Made(r[1], r[2])

LEMMA SightsMade == SightIsMade
  BY SightMade DEF SightIsMade

\* A thread draws a number when it ends an open with a validation, or need not
\* validate; and when it begins the last validation.
Draws(u) == (~mode.counts /\ (Inserts(u) \/ Takes(u))) \/ Skips(u) \/ Caches(u) \/ Decides(u)

\* Then all that it has in its lists is unchecked, its own, or sure.
LEMMA DrawsCovered ==
  ASSUME Inv, Inv', HistInv, NEW u \in Threads, Thread(u), Draws(u), txState'[u] = "ACTIVE"
  PROVE  Covered(u)'
<1>s. SeenType /\ mode' = mode /\ ~(mode.isLazy /\ mode.counts) /\ Runs(u)
  BY OwnState DEF HistInv, Draws, Inserts, Takes, Skips, Caches, Decides
<1>n. pc[u] # "validate" \/ (~EndsOpen(u) /\ ~AtEnd(u)) => Unchecked(u) = {}
  BY NotValidating
<1>o. WritesOK(u)'
  BY DEF Inv, ThreadInv
<1>t. \A e \in Elements(invisReads[u]) : e[1] \in Objects /\ e[2] \in Nat
  BY <1>s, ListTypes
<1>q. mode.isLazy \in BOOLEAN
  BY Types
<1>1. WritesUnchecked(u)'
  <2>1. CASE ~mode.counts /\ (Inserts(u) \/ Takes(u))
    BY <2>1 DEF Inserts, Takes
  <2>2. CASE Skips(u) \/ Caches(u)
    <3>1. ~mode'.isLazy
      BY <1>s, <1>q, <2>2 DEF Skips, Caches
    <3>2. QED
      BY <1>o, <3>1 DEF WritesOK, WritesUnchecked
  <2>3. CASE Decides(u)
    <3>1. EndsCommit(u)'
      BY <2>3 DEF Decides, AtEnd, EndsCommit
    <3>2. QED
      BY <1>o, <3>1 DEF WritesOK, WritesUnchecked
  <2>4. QED
    BY <2>1, <2>2, <2>3 DEF Draws
<1>2. CASE ListUnchecked(u)'
  BY <1>1, <1>2 DEF Covered, ListUnchecked
<1>3. CASE Inserts(u) /\ ~mode.counts
  <2>1. PICK o \in Objects : meta[o].owner = Free /\ Elements(invisReads'[u]) = Elements(invisReads[u]) \cup {<<o, meta[o].ver>>}
    BY <1>3 DEF Inserts
  <2>2. meta' = meta /\ \A e \in Elements(invisReads[u]) : e \in Unchecked(u)'
    BY <1>3 DEF Inserts, Rests
  <2>3. ASSUME NEW e, e = <<o, meta[o].ver>> PROVE Sure(u, e)'
    BY <2>1, <2>2, <2>3, MetaFacts DEF Sure, Clean, Done
  <2>4. QED
    BY <1>1, <2>1, <2>2, <2>3 DEF Covered
<1>4. CASE Skips(u) \/ (Decides(u) /\ mode.counts /\ cached[u] = counter /\ meta' = meta)
  <2>1. /\ mode.counts /\ cached[u] = counter /\ meta' = meta /\ invisReads'[u] = invisReads[u] /\ Unchecked(u) = {}
        /\ ~Ended(u) /\ pc[u] # "cas"
    BY <1>s, <1>4, <1>n DEF Skips, Decides, Rests, SameSeen, Runs
  <2>2. ASSUME NEW e \in Elements(invisReads[u]) PROVE Sure(u, e)'
    <3>1. Sure(u, e)
      BY <2>1, CountedIsSure
    <3>2. Clean(e[1], e[2])'
      BY <1>t, <2>1, <3>1, CleanStays DEF Sure, CommitsNow
    <3>3. \A v \in Threads \ {u} : Deciding(v)' => Deciding(v)
      BY <1>s, OtherFrame
    <3>4. QED
      BY <2>1, <3>1, <3>2, <3>3 DEF Sure
  <2>3. QED
    BY <1>1, <2>1, <2>2 DEF Covered
<1>5. QED
  BY <1>2, <1>3, <1>4 DEF Draws, Takes, Caches, Decides

-------------------------------------------------------------------------------
(* A step of another thread, and the commit.                                 *)

\* The numbers of the attempt of t stay good under a step of another thread.
LEMMA OtherRanks ==
  ASSUME Inv, Inv', HistInv, NEW u \in Threads, Thread(u), Kind(u), NEW t \in Threads \ {u},
         NEW clock \in Nat, NEW stamp \in [Txs -> Nat], NEW last \in [Threads -> Nat],
         NEW later, NEW new, Renumbers(clock, stamp, later, new, u),
         NEW final \in [Threads -> Nat], final[t] = last[t],
         ThreadRanks(clock, stamp, last, t)
  PROVE  ThreadRanks(later, new, final, t)'
<1>s. SeenType /\ PastOK(t)
  BY DEF HistInv, LocalOK
<1>f. /\ loc'[t] = loc[t] /\ attempt'[t] = attempt[t]
      /\ invisReads'[t] = invisReads[t] /\ seen'[t] = seen[t] /\ began'[t] = began[t]
      /\ Unchecked(t)' = Unchecked(t) /\ (Ended(t)' <=> Ended(t))
      /\ (Passing(t)' <=> Passing(t)) /\ (EndsOpen(t)' <=> EndsOpen(t))
      /\ (Deciding(t)' => Deciding(t)) /\ (txState'[t] = "ACTIVE" => txState[t] = "ACTIVE")
  BY <1>s, OtherFrame
<1>x. PICK x : x = Tx(t) /\ x = Tx(t)'
  BY <1>f DEF Tx
<1>m. PICK m \in Nat : m = last[t] /\ m = final[t]
  OBVIOUS
<1>l. later \in Nat /\ clock <= later /\ new \in [Txs -> Nat]
  BY DEF Renumbers
<1>r. PICK reads, after : reads = seen[t] /\ reads = seen'[t] /\ after = began[t] /\ after = began'[t]
  BY <1>f
<1>v. PICK sight, less : sight = Sight(t) /\ less = Sight(t)'
  OBVIOUS
<1>p. less \subseteq sight
  <2>1. Pending(t)' = Pending(t)
    BY <1>f DEF Pending
  <2>2. Sight(t)' \subseteq Sight(t)
    BY <1>f, <2>1, SightStays DEF Sight
  <2>3. QED
    BY <1>v, <2>2
<1>i. /\ \A r \in reads : Made(r[1], r[2])
      /\ \A r \in sight : Made(r[1], r[2])
      /\ \A v \in after : IsCommitted(v)
  BY <1>s, <1>r, <1>v, SightMade DEF PastOK
<1>1. m < clock /\ Ordered(stamp, m, x, reads, after)
  BY <1>x, <1>r, <1>m DEF ThreadRanks
<1>2. m < later /\ Ordered(new, m, x, reads, after)'
  BY <1>s, <1>1, <1>i, <1>l, OrderedStable
<1>3. ASSUME Ordered(stamp, m, x, sight, after) PROVE Ordered(new, m, x, less, after)'
  <2>1. Ordered(stamp, m, x, less, after)
    BY <1>3, <1>p DEF Ordered
  <2>2. QED
    BY <1>s, <1>1, <1>i, <1>p, <2>1, OrderedStable
<1>4. ASSUME PassOK(clock, stamp, last, t), ~Ended(t) PROVE PassOK(later, new, final, t)'
  <2>1. x \in Txs /\ x # Tx(u)
    BY <1>4, <1>x, RunningUncommitted DEF RunningIsUncommitted, Tx
  <2>n. PICK n \in Nat : n = stamp[x] /\ n = new[x]
    BY <2>1, StampStays
  <2>2. /\ m < n /\ n < clock
        /\ \A r \in sight : Follows(stamp, n, r[2]) /\ (Waiting(t, r[1], r[2]) \/ Before(stamp, n, x, r))
    BY <1>4, <1>x, <1>m, <1>v, <2>n DEF PassOK
  <2>3. ASSUME NEW r \in less
        PROVE  Follows(new, n, r[2]) /\ (Waiting(t, r[1], r[2])' \/ Before(new, n, x, r)')
    <3>1. r \in sight /\ Made(r[1], r[2]) /\ r[1] \in Objects
      BY <1>i, <1>p, <1>v, SightMade
    <3>2. Follows(new, n, r[2])
      BY <2>2, <3>1, MadeFacts, FollowsStable
    <3>3. ASSUME Waiting(t, r[1], r[2]) PROVE Waiting(t, r[1], r[2])'
      <4>1. PICK e \in Unchecked(t) : e[1] = r[1] /\ Fresh(r[1], e[2], r[2])
        BY <3>3 DEF Waiting
      <4>2. e[2] \in Nat
        BY <1>s, ListTypes
      <4>3. Fresh(r[1], e[2], r[2])'
        BY <3>1, <4>1, <4>2, FreshStays
      <4>4. QED
        BY <1>f, <4>1, <4>3 DEF Waiting
    <3>4. Before(stamp, n, x, r) => Before(new, n, x, r)'
      BY <1>s, <2>2, BeforeStable
    <3>5. QED
      BY <2>2, <3>1, <3>2, <3>3, <3>4
  <2>4. m < n /\ n < later
    BY <1>l, <2>2
  <2>5. \A r \in Sight(t)' : Follows(new, n, r[2])' /\ (Waiting(t, r[1], r[2])' \/ Before(new, n, Tx(t), r)')
    BY <1>v, <1>x, <2>3 DEF Follows, Before
  <2>6. QED
    BY <1>x, <1>m, <2>n, <2>4, <2>5 DEF PassOK
<1>5. ~Ended(t) /\ ~EndsOpen(t) => Ordered(new, m, x, less, after)'
  BY <1>x, <1>r, <1>v, <1>m, <1>3 DEF ThreadRanks
<1>6. (txState[t] = "ACTIVE" /\ Passing(t)) => Ordered(new, m, x, less, after)' \/ PassOK(later, new, final, t)'
  <2>1. txState[t] = "ACTIVE" => ~Ended(t)
    BY ThreadFacts DEF PhaseOK
  <2>2. QED
    BY <1>x, <1>r, <1>v, <1>m, <1>3, <1>4, <2>1 DEF ThreadRanks
<1>7. Deciding(t) => PassOK(later, new, final, t)'
  <2>1. Deciding(t) => ~Ended(t)
    BY ThreadFacts DEF PhaseOK, Deciding
  <2>2. QED
    BY <1>4, <2>1 DEF ThreadRanks
<1>8. QED
  BY <1>x, <1>r, <1>v, <1>m, <1>f, <1>2, <1>5, <1>6, <1>7 DEF ThreadRanks, Ordered, Follows, Before

\* A number after another follows all that the other does.
LEMMA FollowsLater ==
  ASSUME Inv, NEW stamp \in [Txs -> Nat], NEW m \in Nat, NEW n \in Nat, m < n,
         NEW v, v = Initial \/ IsCommitted(v), Follows(stamp, m, v)
  PROVE  Follows(stamp, n, v)
<1>1. IsCommitted(v) => v \in Txs
  BY DEF IsCommitted, Inv, TypeInv, HistoryOK
<1>2. CASE v \in Txs /\ v # Initial
  <2>1. stamp[v] \in Nat /\ stamp[v] < m
    BY <1>2 DEF Follows
  <2>2. QED
    BY <2>1 DEF Follows
<1>3. QED
  BY <1>1, <1>2 DEF Follows

\* When all is checked, the number of the validation is a place.
LEMMA PassIsPlace ==
  ASSUME Inv, HistInv, NEW u \in Threads, Unchecked(u) = {}, ~Ended(u),
         NEW clock \in Nat, NEW stamp \in [Txs -> Nat], NEW last \in [Threads -> Nat],
         ThreadRanks(clock, stamp, last, u), PassOK(clock, stamp, last, u)
  PROVE  \E n \in Nat : n = stamp[Tx(u)] /\ n < clock /\ Ordered(stamp, n, Tx(u), Sight(u), began[u])
<1>1. Tx(u) \in Txs
  BY RunningUncommitted DEF RunningIsUncommitted
<1>n. PICK n \in Nat : n = stamp[Tx(u)]
  BY <1>1
<1>2. /\ last[u] < n /\ n < clock
      /\ \A r \in Sight(u) : Follows(stamp, n, r[2]) /\ Before(stamp, n, Tx(u), r)
  BY <1>n DEF PassOK, Waiting
<1>3. \A v \in began[u] : Follows(stamp, last[u], v) /\ IsCommitted(v)
  BY DEF ThreadRanks, Ordered, HistInv, LocalOK, PastOK
<1>4. \A v \in began[u] : Follows(stamp, n, v)
  BY <1>2, <1>3, FollowsLater
<1>5. QED
  BY <1>n, <1>2, <1>4 DEF Ordered

\* The committed transactions keep their places, and the one that commits takes
\* the place where it began its last validation, when it already owned all that
\* it writes (Descriptor_redo_lock.h:672-695).
LEMMA CommittedRanksStep ==
  ASSUME Inv, Inv', HistInv, NEW u \in Threads, Thread(u), Kind(u),
         NEW clock \in Nat, NEW stamp \in [Txs -> Nat], NEW last \in [Threads -> Nat],
         NEW later, NEW new, Renumbers(clock, stamp, later, new, u),
         RankInv(clock, stamp, last)
  PROVE  CommittedRanks(later, new)'
<1>s. SeenType /\ PastOK(u)
  BY DEF HistInv, LocalOK
<1>l. later \in Nat /\ clock <= later
  BY DEF Renumbers
<1>1. ASSUME NEW c \in committed
      PROVE  new[c.tx] < later /\ Ordered(new, new[c.tx], c.tx, c.reads, c.after)'
  <2>1. c.tx \in Txs
    BY DEF Inv, TypeInv, HistoryOK
  <2>2. IsCommitted(c.tx)
    BY DEF IsCommitted
  <2>n. PICK n \in Nat : n = stamp[c.tx] /\ n = new[c.tx]
    BY <2>1, <2>2, StampStays
  <2>3. n < clock /\ Ordered(stamp, n, c.tx, c.reads, c.after)
    BY <2>n DEF RankInv, CommittedRanks
  <2>4. (\A r \in c.reads : Made(r[1], r[2])) /\ \A v \in c.after : IsCommitted(v)
    BY DEF HistInv, LogOK
  <2>5. Ordered(new, n, c.tx, c.reads, c.after)'
    BY <1>s, <2>3, <2>4, OrderedStable
  <2>6. QED
    BY <1>l, <2>n, <2>3, <2>5
<1>2. ASSUME NEW c \in committed', c \notin committed
      PROVE  new[c.tx] < later /\ Ordered(new, new[c.tx], c.tx, c.reads, c.after)'
  <2>1. CommitsNow(u)
    BY <1>2, ThreadKept DEF Kept
  <2>2. PICK d : IsCommitOf(d, u)
    BY <2>1, CommitRecord
  <2>3. c.tx = Tx(u) /\ c.reads = seen[u] /\ c.after = began[u]
    BY <1>2, <2>2 DEF IsCommitOf
  <2>4. pc[u] = "cas" /\ Deciding(u) /\ ~Ended(u) /\ txState'[u] = "COMMITTED"
    BY <2>1, CommitFacts
  <2>x. PICK x \in Txs : x = Tx(u)
    BY <2>4, RunningUncommitted DEF RunningIsUncommitted
  <2>5. new = stamp
    <3>1. Ended(u)'
      BY <2>4 DEF Inv, ThreadInv, PhaseOK
    <3>2. QED
      BY <3>1 DEF Renumbers, Runs
  <2>6. PassOK(clock, stamp, last, u) /\ ThreadRanks(clock, stamp, last, u) /\ Unchecked(u) = {}
    BY <2>4 DEF RankInv, ThreadRanks, Unchecked
  <2>n. PICK n \in Nat : n = stamp[x] /\ n = new[x] /\ n < clock /\ Ordered(stamp, n, x, Sight(u), began[u])
    BY <2>4, <2>5, <2>6, <2>x, PassIsPlace
  <2>r. PICK reads, after : reads = seen[u] /\ after = began[u]
    OBVIOUS
  <2>7. Ordered(stamp, n, x, reads, after)
    BY <2>n, <2>r DEF Ordered, Sight
  <2>8. (\A r \in reads : Made(r[1], r[2])) /\ \A v \in after : IsCommitted(v)
    BY <1>s, <2>r DEF PastOK
  <2>9. Ordered(new, n, x, reads, after)'
    BY <1>s, <2>n, <2>7, <2>8, OrderedStable
  <2>10. QED
    BY <1>l, <2>3, <2>n, <2>r, <2>x, <2>9
<1>3. QED
  BY <1>1, <1>2 DEF CommittedRanks, Ordered, Before

-------------------------------------------------------------------------------
(* A step of the thread itself.                                              *)

\* A place for what a transaction may read remains one for less.
LEMMA PlaceKept ==
  ASSUME Inv, Inv', HistInv, NEW u \in Threads, Thread(u), Kind(u),
         NEW clock \in Nat, NEW stamp \in [Txs -> Nat], NEW later, NEW new,
         Renumbers(clock, stamp, later, new, u),
         NEW n \in Nat, n < clock, NEW reads \in SUBSET Sight(u), Ordered(stamp, n, Tx(u), reads, began[u]),
         NEW less \in SUBSET reads, attempt'[u] = attempt[u], began'[u] \subseteq began[u]
  PROVE  n < later /\ Ordered(new, n, Tx(u), less, began[u])'
<1>s. SeenType /\ PastOK(u)
  BY DEF HistInv, LocalOK
<1>x. PICK x : x = Tx(u) /\ x = Tx(u)'
  BY DEF Tx
<1>a. PICK after : after = began'[u]
  OBVIOUS
<1>1. Ordered(stamp, n, x, less, after)
  BY <1>x, <1>a DEF Ordered
<1>2. (\A r \in less : Made(r[1], r[2])) /\ \A v \in after : IsCommitted(v)
  BY <1>s, <1>a, SightMade DEF PastOK
<1>3. Ordered(new, n, x, less, after)'
  BY <1>s, <1>1, <1>2, OrderedStable
<1>4. n < later
  BY DEF Renumbers
<1>5. QED
  BY <1>x, <1>a, <1>3, <1>4 DEF Ordered, Before, Follows

\* A thread begins a transaction, after all that have committed.
LEMMA BeginRanks ==
  ASSUME Inv, Inv', HistInv, NEW u \in Threads, Thread(u), Begin(u),
         NEW clock \in Nat, NEW stamp \in [Txs -> Nat], NEW last \in [Threads -> Nat],
         RankInv(clock, stamp, last),
         NEW final \in [Threads -> Nat], final[u] = clock
  PROVE  Renumbers(clock, stamp, clock + 1, stamp, u) /\ ThreadRanks(clock + 1, stamp, final, u)'
<1>s. SeenType /\ ListOK(u) /\ Kind(u)
  BY StepKinds DEF HistInv, LocalOK
<1>1. /\ pc[u] = "idle" /\ pc'[u] = "work" /\ invisReads'[u] = invisReads[u] /\ seen'[u] = seen[u]
      /\ began'[u] = {c.tx : c \in committed}
  BY <1>s, KindPlaces
<1>2. invisReads'[u] = <<>> /\ seen'[u] = {} /\ ~EndsOpen(u)' /\ ~AtEnd(u)' /\ ~Passing(u)'
  BY <1>s, <1>1 DEF ListOK, EndsOpen, AtEnd, Passing
<1>3. Sight(u)' = {}
  BY <1>2 DEF Sight, Pending, Elements
<1>4. \A v \in began'[u] : Follows(stamp, clock, v)
  BY <1>1 DEF RankInv, CommittedRanks, Follows
<1>5. Ordered(stamp, clock, Tx(u), {}, began[u])'
  BY <1>4 DEF Ordered, Follows
<1>6. ~Decides(u)
  BY <1>1 DEF Decides
<1>7. QED
  BY <1>2, <1>3, <1>5, <1>6 DEF Renumbers, ThreadRanks, Deciding

\* A thread that is not between its open and its return, nor commits, reads no
\* more than it could before.
LEMMA PlainRanks ==
  ASSUME Inv, Inv', HistInv, NEW u \in Threads, Thread(u), Kind(u), ~Decides(u),
         NEW clock \in Nat, NEW stamp \in [Txs -> Nat], NEW last \in [Threads -> Nat],
         ThreadRanks(clock, stamp, last, u),
         Runs(u), ~EndsOpen(u), ~AtEnd(u)', Sight(u)' \subseteq Sight(u)
  PROVE  Renumbers(clock, stamp, clock, stamp, u) /\ ThreadRanks(clock, stamp, last, u)'
<1>1. Renumbers(clock, stamp, clock, stamp, u)
  BY DEF Renumbers
<1>2. last[u] < clock /\ Ordered(stamp, last[u], Tx(u), Sight(u), began[u])
  BY DEF ThreadRanks, Runs
<1>m. PICK m \in Nat : m = last[u]
  OBVIOUS
<1>v. PICK sight, less, read : sight = Sight(u) /\ less = Sight(u)' /\ read = seen'[u]
  OBVIOUS
<1>3. read \subseteq less /\ less \subseteq sight
  BY <1>m, <1>v DEF Sight
<1>4. attempt'[u] = attempt[u] /\ began'[u] = began[u]
  BY DEF Runs
<1>5. m < clock /\ Ordered(stamp, m, Tx(u), less, began[u])' /\ Ordered(stamp, m, Tx(u), read, began[u])'
  BY <1>1, <1>2, <1>m, <1>v, <1>3, <1>4, PlaceKept
<1>6. QED
  BY <1>1, <1>m, <1>v, <1>5 DEF ThreadRanks, Deciding, Ordered

\* A thread that ends its transaction, or has not begun to validate its open, has
\* read no more.
LEMMA IdleRanks ==
  ASSUME Inv, Inv', HistInv, NEW u \in Threads, Thread(u), Kind(u), ~Decides(u),
         NEW clock \in Nat, NEW stamp \in [Txs -> Nat], NEW last \in [Threads -> Nat],
         ThreadRanks(clock, stamp, last, u),
         Ended(u)' \/ (EndsOpen(u)' /\ ~Passing(u)' /\ ~AtEnd(u)'),
         attempt'[u] = attempt[u], began'[u] \subseteq began[u], seen'[u] \subseteq seen[u]
  PROVE  Renumbers(clock, stamp, clock, stamp, u) /\ ThreadRanks(clock, stamp, last, u)'
<1>1. Renumbers(clock, stamp, clock, stamp, u)
  BY DEF Renumbers
<1>2. last[u] < clock /\ Ordered(stamp, last[u], Tx(u), seen[u], began[u])
  BY DEF ThreadRanks
<1>m. PICK m \in Nat : m = last[u]
  OBVIOUS
<1>v. PICK reads, less : reads = seen[u] /\ less = seen'[u]
  OBVIOUS
<1>3. reads \subseteq Sight(u) /\ less \subseteq reads
  BY <1>m, <1>v DEF Sight
<1>4. m < clock /\ Ordered(stamp, m, Tx(u), less, began[u])'
  BY <1>1, <1>2, <1>m, <1>v, <1>3, PlaceKept
<1>5. ~(txState'[u] = "ACTIVE" /\ Passing(u)') /\ ~Deciding(u)'
  BY DEF Inv, ThreadInv, PhaseOK, Deciding
<1>6. QED
  BY <1>1, <1>m, <1>v, <1>4, <1>5 DEF ThreadRanks, Ordered

\* A transaction that goes on does not commit.
LEMMA RunsKeep ==
  ASSUME Inv, Inv', NEW u \in Threads, Thread(u), Runs(u)
  PROVE  committed' = committed
<1>1. txState'[u] # "COMMITTED"
  BY DEF Inv, ThreadInv, PhaseOK, Runs
<1>2. QED
  BY <1>1, ThreadKept, CommitFacts DEF Kept

\* What the open of thread u returns stays what it returns.
LEMMA PendingStays ==
  ASSUME NEW u \in Threads, SameOpen(u), EndsOpen(u)' => EndsOpen(u)
  PROVE  Pending(u)' \subseteq Sight(u)
  BY DEF SameOpen, Pending, Sight

\* Thread u draws a number: nobody else replaces what it may read, unless its
\* validation will notice, so that the number comes before all that do; and it
\* follows all that have committed.
LEMMA DrawRanks ==
  ASSUME Inv, Inv', HistInv, HistInv', NEW u \in Threads, Thread(u), Kind(u), Draws(u),
         NEW clock \in Nat, NEW stamp \in [Txs -> Nat], NEW last \in [Threads -> Nat],
         RankInv(clock, stamp, last),
         NEW new, new = [stamp EXCEPT ![Tx(u)] = clock]
  PROVE  Renumbers(clock, stamp, clock + 1, new, u) /\ ThreadRanks(clock + 1, new, last, u)'
<1>s. SeenType /\ ListOK(u) /\ ThreadRanks(clock, stamp, last, u) /\ CommittedRanks(clock, stamp)
  BY DEF HistInv, LocalOK, RankInv
<1>k. /\ Runs(u) /\ ~Ended(u) /\ attempt'[u] = attempt[u] /\ began'[u] = began[u] /\ seen'[u] = seen[u]
      /\ committed' = committed
  BY RunsKeep DEF Draws, Inserts, Takes, Skips, Caches, Decides, Runs, SameSeen
<1>x. PICK x \in Txs : x = Tx(u) /\ x = Tx(u)'
  BY <1>k, RunningUncommitted DEF RunningIsUncommitted, Tx
<1>1. Renumbers(clock, stamp, clock + 1, new, u)
  BY <1>k, <1>x DEF Renumbers
<1>n. new[x] = clock /\ new \in [Txs -> Nat]
  BY <1>x, <1>1 DEF Renumbers
<1>m. PICK m \in Nat : m = last[u]
  OBVIOUS
<1>v. PICK reads, sight, less : reads = seen[u] /\ sight = Sight(u) /\ less = Sight(u)'
  OBVIOUS
<1>2. m < clock /\ m < clock + 1 /\ Ordered(new, m, Tx(u), reads, began[u])'
  <2>1. m < clock /\ Ordered(stamp, m, Tx(u), reads, began[u]) /\ reads \subseteq sight
    BY <1>s, <1>m, <1>v DEF ThreadRanks, Sight
  <2>2. QED
    BY <1>1, <1>k, <1>m, <1>v, <2>1, PlaceKept
<1>3. ASSUME ~EndsOpen(u)' PROVE Ordered(new, m, Tx(u), less, began[u])'
  <2>1. Decides(u)
    BY <1>3 DEF Draws, Inserts, Takes, BeginsCheck, Skips, Caches, Passing, EndsOpen
  <2>2. ~EndsOpen(u) /\ invisReads'[u] = invisReads[u]
    BY <2>1 DEF Decides, EndsOpen, SameSeen
  <2>3. less \subseteq sight
    <3>1. Pending(u)' = {} 
      BY <1>3 DEF Pending
    <3>2. Sight(u)' \subseteq Sight(u)
      BY <1>k, <2>2, <3>1, SightStays DEF Sight
    <3>3. QED
      BY <1>m, <1>v, <3>2
  <2>4. m < clock /\ Ordered(stamp, m, Tx(u), sight, began[u])
    BY <1>s, <1>k, <1>m, <1>v, <2>2 DEF ThreadRanks
  <2>5. QED
    BY <1>1, <1>k, <1>m, <1>v, <2>3, <2>4, PlaceKept
<1>4. ASSUME txState'[u] = "ACTIVE" PROVE PassOK(clock + 1, new, last, u)'
  <2>1. Covered(u)'
    BY <1>4, DrawsCovered
  <2>2. CoveredIsGuarded' /\ SightIsMade'
    BY CoveredGuarded, SightsMade, PTL
  <2>3. ASSUME NEW r \in less
        PROVE  Follows(new, clock, r[2]) /\ (Waiting(u, r[1], r[2])' \/ Before(new, clock, x, r)')
    <3>1. Made(r[1], r[2])' /\ (Waiting(u, r[1], r[2])' \/ \A y : Overwrites(y, r)' => y = x)
      BY <1>4, <1>m, <1>v, <1>x, <2>1, <2>2 DEF CoveredIsGuarded, SightIsMade
    <3>2. r[2] = Initial \/ \E c \in committed : c.tx = r[2]
      BY <1>k, <3>1 DEF Made
    <3>3. ASSUME NEW c \in committed PROVE new[c.tx] < clock
      <4>1. PICK y \in Txs : y = c.tx
        BY DEF Inv, TypeInv, HistoryOK
      <4>2. IsCommitted(y) /\ stamp[y] < clock
        BY <1>s, <4>1 DEF CommittedRanks, IsCommitted
      <4>3. new[y] = stamp[y]
        <5>1. y # Tx(u)
          BY <1>k, <4>2, RunningUncommitted DEF RunningIsUncommitted
        <5>2. QED
          BY <5>1
      <4>4. QED
        BY <4>1, <4>2, <4>3
    <3>4. Follows(new, clock, r[2])
      BY <3>2, <3>3 DEF Follows
    <3>5. QED
      BY <3>1, <3>4 DEF Before
  <2>4. \A r \in Sight(u)' : Follows(new, clock, r[2])' /\ (Waiting(u, r[1], r[2])' \/ Before(new, clock, Tx(u), r)')
    BY <1>m, <1>v, <1>x, <2>3 DEF Follows, Before
  <2>5. m < clock /\ clock < clock + 1
    BY <1>2
  <2>6. QED
    BY <1>m, <1>v, <1>x, <1>n, <2>4, <2>5 DEF PassOK
<1>5. QED
  BY <1>1, <1>k, <1>m, <1>v, <1>2, <1>3, <1>4 DEF ThreadRanks, Ordered, Deciding

\* What the validation accepts nobody else replaces, so that the number of the
\* validation stays a place.
LEMMA PassKept ==
  ASSUME Inv, Inv', HistInv, NEW u \in Threads, Thread(u), Kind(u), Checks(u) \/ Forces(u), txState[u] = "ACTIVE",
         NEW clock \in Nat, NEW stamp \in [Txs -> Nat], NEW last \in [Threads -> Nat],
         PassOK(clock, stamp, last, u), Sight(u)' \subseteq Sight(u)
  PROVE  PassOK(clock, stamp, last, u)'
<1>s. SeenType
  BY DEF HistInv
<1>k. Runs(u) /\ ~Ended(u) /\ attempt'[u] = attempt[u] /\ ~Decides(u)
  BY DEF Checks, Forces, Decides, Runs
<1>0. Renumbers(clock, stamp, clock, stamp, u)
  BY <1>k DEF Renumbers
<1>x. PICK x \in Txs : x = Tx(u) /\ x = Tx(u)'
  BY <1>k, RunningUncommitted DEF RunningIsUncommitted, Tx
<1>n. PICK n \in Nat : n = stamp[x]
  OBVIOUS
<1>v. PICK sight, less : sight = Sight(u) /\ less = Sight(u)' /\ less \subseteq sight
  OBVIOUS
<1>1. /\ last[u] < n /\ n < clock
      /\ \A r \in sight : Follows(stamp, n, r[2]) /\ (Waiting(u, r[1], r[2]) \/ Before(stamp, n, x, r))
  BY <1>x, <1>n, <1>v DEF PassOK
<1>2. ASSUME NEW r \in sight, Waiting(u, r[1], r[2])
      PROVE  Waiting(u, r[1], r[2])' \/ Before(stamp, n, x, r)
  <2>1. PICK e \in Unchecked(u) : e[1] = r[1] /\ Fresh(r[1], e[2], r[2])
    BY <1>2 DEF Waiting
  <2>2. r = <<r[1], r[2]>> /\ r[1] \in Objects
    BY <1>v, SightMade
  <2>3. CASE e \in Unchecked(u)'
    <3>1. e[2] \in Nat
      BY <1>s, <2>1, ListTypes
    <3>2. Fresh(r[1], e[2], r[2])'
      BY <2>1, <2>2, <3>1, FreshStays
    <3>3. QED
      BY <2>1, <2>3, <3>2 DEF Waiting
  <2>4. CASE e \notin Unchecked(u)'
    <3>1. pc[u] = "validate"
      BY <2>1 DEF Unchecked
    <3>2. Checks(u)
      BY <3>1 DEF Forces
    <3>3. PICK d \in Unchecked(u) : isCurrent(u, d[1], d[2]) /\ Unchecked(u) = Unchecked(u)' \cup {d}
      BY <3>2 DEF Checks
    <3>4. isCurrent(u, e[1], e[2])
      BY <2>1, <2>4, <3>3
    <3>5. meta[r[1]].ver = e[2] /\ meta[r[1]].owner \in {Free, u}
      BY <2>1, <3>4 DEF isCurrent
    <3>6. r[2] = Current(r[1])
      BY <2>1, <3>5, MetaFacts DEF Fresh, Current
    <3>7. \A w \in Threads \ {u} : meta[r[1]].owner = w => ~Deciding(w)
      BY <3>5, MetaFacts
    <3>8. PICK o \in Objects : o = r[1]
      BY <2>2
    <3>9. r = <<o, Current(o)>> /\ \A w \in Threads \ {u} : meta[o].owner = w => ~Deciding(w)
      BY <2>2, <3>6, <3>7, <3>8
    <3>10. \A y : Overwrites(y, r) => y = Tx(u)
      BY <3>9, CurrentIsLast
    <3>11. QED
      BY <1>x, <3>10 DEF Before
  <2>5. QED
    BY <2>3, <2>4
<1>3. \A r : Before(stamp, n, x, r) => Before(stamp, n, x, r)'
  BY <1>s, <1>0, <1>1, BeforeStable
<1>4. \A r \in less : Follows(stamp, n, r[2]) /\ (Waiting(u, r[1], r[2])' \/ Before(stamp, n, x, r)')
  BY <1>v, <1>1, <1>2, <1>3
<1>5. \A r \in Sight(u)' : Follows(stamp, n, r[2])' /\ (Waiting(u, r[1], r[2])' \/ Before(stamp, n, Tx(u), r)')
  BY <1>v, <1>x, <1>4 DEF Follows, Before
<1>6. QED
  BY <1>x, <1>n, <1>1, <1>5 DEF PassOK

\* Thread u validates, or moves the counter on.
LEMMA ChecksRanks ==
  ASSUME Inv, Inv', HistInv, NEW u \in Threads, Thread(u), Kind(u), Checks(u) \/ Forces(u),
         NEW clock \in Nat, NEW stamp \in [Txs -> Nat], NEW last \in [Threads -> Nat],
         ThreadRanks(clock, stamp, last, u)
  PROVE  Renumbers(clock, stamp, clock, stamp, u) /\ ThreadRanks(clock, stamp, last, u)'
<1>s. SeenType
  BY DEF HistInv
<1>k. /\ Runs(u) /\ ~Ended(u) /\ attempt'[u] = attempt[u] /\ began'[u] = began[u] /\ seen'[u] = seen[u]
      /\ invisReads'[u] = invisReads[u] /\ txState' = txState /\ ~Decides(u)
  BY DEF Checks, Forces, Decides, Runs, SameSeen, Rests
<1>0. Renumbers(clock, stamp, clock, stamp, u)
  BY <1>k DEF Renumbers
<1>p. /\ Passing(u)' => Passing(u) /\ EndsOpen(u) /\ Checks(u)
      /\ ~EndsOpen(u)' => ~EndsOpen(u)
      /\ EndsOpen(u)' => EndsOpen(u) /\ SameOpen(u)
      /\ AtEnd(u)' => AtEnd(u)
  <2>1. CASE Checks(u)
    BY <1>s, <2>1, KindPlaces DEF Checks, Passing, EndsOpen
  <2>2. CASE Forces(u)
    BY <2>2 DEF Forces, Passing, EndsOpen, AtEnd
  <2>3. QED
    BY <2>1, <2>2
<1>1. Sight(u)' \subseteq Sight(u)
  <2>1. Pending(u)' \subseteq Sight(u)
    BY <1>p, PendingStays DEF Pending
  <2>2. QED
    BY <1>k, <2>1, SightStays DEF Sight
<1>m. PICK m \in Nat : m = last[u]
  OBVIOUS
<1>v. PICK reads, sight, less : reads = seen[u] /\ sight = Sight(u) /\ less = Sight(u)'
  OBVIOUS
<1>2. m < clock /\ Ordered(stamp, m, Tx(u), reads, began[u]) /\ reads \subseteq sight /\ less \subseteq sight
  BY <1>m, <1>v, <1>1 DEF ThreadRanks, Sight
<1>3. Ordered(stamp, m, Tx(u), reads, began[u])'
  BY <1>0, <1>k, <1>m, <1>v, <1>2, PlaceKept
<1>4. Ordered(stamp, m, Tx(u), sight, began[u]) => Ordered(stamp, m, Tx(u), less, began[u])'
  BY <1>0, <1>k, <1>m, <1>v, <1>2, PlaceKept
<1>5. ~EndsOpen(u)' => Ordered(stamp, m, Tx(u), less, began[u])'
  BY <1>k, <1>m, <1>v, <1>p, <1>4 DEF ThreadRanks
<1>6. txState[u] = "ACTIVE" /\ PassOK(clock, stamp, last, u) => PassOK(clock, stamp, last, u)'
  BY <1>1, PassKept
<1>7. txState'[u] = "ACTIVE" /\ Passing(u)' =>
        Ordered(stamp, m, Tx(u), less, began[u])' \/ PassOK(clock, stamp, last, u)'
  BY <1>k, <1>m, <1>v, <1>p, <1>4, <1>6 DEF ThreadRanks
<1>8. Deciding(u)' => PassOK(clock, stamp, last, u)'
  BY <1>k, <1>p, <1>6 DEF ThreadRanks, Deciding
<1>9. QED
  BY <1>0, <1>k, <1>m, <1>v, <1>2, <1>3, <1>5, <1>7, <1>8 DEF ThreadRanks, Ordered

\* The open of thread u returns: the number of its validation is its new place.
LEMMA ReturnsRanks ==
  ASSUME Inv, Inv', HistInv, NEW u \in Threads, Thread(u), Kind(u), Returns(u),
         NEW clock \in Nat, NEW stamp \in [Txs -> Nat], NEW last \in [Threads -> Nat],
         ThreadRanks(clock, stamp, last, u)
  PROVE  /\ Renumbers(clock, stamp, clock, stamp, u)
         /\ \E n \in Nat : \A final \in [Threads -> Nat] : final[u] = n => ThreadRanks(clock, stamp, final, u)'
<1>k. /\ Runs(u) /\ ~Ended(u) /\ attempt'[u] = attempt[u] /\ began'[u] = began[u]
      /\ invisReads'[u] = invisReads[u] /\ ~Decides(u) /\ pc[u] = "opened" /\ pc'[u] = "work"
      /\ seen'[u] = IF loc[u].kind = "RW" THEN seen[u] \cup {<<loc[u].obj, loc[u].copy>>} ELSE seen[u]
  BY DEF Returns, Decides, Runs
<1>0. Renumbers(clock, stamp, clock, stamp, u)
  BY <1>k DEF Renumbers
<1>a. txState[u] = "ACTIVE"
  BY <1>k, ThreadFacts DEF Returns, Killed, PhaseOK
<1>p. Passing(u) /\ EndsOpen(u) /\ Unchecked(u) = {} /\ ~Passing(u)' /\ ~AtEnd(u)' /\ ~EndsOpen(u)'
  BY <1>k DEF Passing, EndsOpen, Unchecked, AtEnd
<1>1. seen'[u] \subseteq Sight(u)
  BY <1>k, <1>p DEF Sight, Pending
<1>2. Sight(u)' \subseteq Sight(u)
  BY <1>k, <1>p, <1>1, SightStays DEF Pending
<1>v. PICK sight, less, read : sight = Sight(u) /\ less = Sight(u)' /\ read = seen'[u]
  OBVIOUS
<1>3. PICK n \in Nat : n < clock /\ Ordered(stamp, n, Tx(u), sight, began[u])
  <2>1. CASE Ordered(stamp, last[u], Tx(u), Sight(u), began[u])
    BY <1>v, <2>1 DEF ThreadRanks
  <2>2. CASE PassOK(clock, stamp, last, u)
    BY <1>k, <1>p, <1>v, <2>2, PassIsPlace
  <2>3. QED
    BY <1>a, <1>p, <2>1, <2>2 DEF ThreadRanks
<1>4. /\ n < clock /\ Ordered(stamp, n, Tx(u), less, began[u])' /\ Ordered(stamp, n, Tx(u), read, began[u])'
  <2>1. less \subseteq sight /\ read \subseteq sight
    BY <1>v, <1>1, <1>2
  <2>2. QED
    BY <1>0, <1>k, <1>v, <1>3, <2>1, PlaceKept
<1>5. ASSUME NEW final \in [Threads -> Nat], final[u] = n
      PROVE  ThreadRanks(clock, stamp, final, u)'
  BY <1>p, <1>v, <1>4, <1>5 DEF ThreadRanks, Deciding, Ordered
<1>6. QED
  BY <1>0, <1>5

\* The numbers after a step of thread u.
LEMMA OwnRanks ==
  ASSUME Inv, Inv', HistInv, HistInv', NEW u \in Threads, Thread(u), Kind(u),
         NEW clock \in Nat, NEW stamp \in [Txs -> Nat], NEW last \in [Threads -> Nat],
         RankInv(clock, stamp, last)
  PROVE  \E later \in Nat, new \in [Txs -> Nat], final \in [Threads -> Nat] :
           /\ Renumbers(clock, stamp, later, new, u)
           /\ \A t \in Threads \ {u} : final[t] = last[t]
           /\ ThreadRanks(later, new, final, u)'
<1>s. SeenType /\ ListOK(u) /\ ThreadRanks(clock, stamp, last, u)
  BY DEF HistInv, LocalOK, RankInv
<1>f. \A n \in Nat : /\ [last EXCEPT ![u] = n] \in [Threads -> Nat]
                     /\ [last EXCEPT ![u] = n][u] = n
                     /\ \A t \in Threads \ {u} : [last EXCEPT ![u] = n][t] = last[t]
  OBVIOUS
<1>1. CASE Begin(u)
  <2>1. PICK final \in [Threads -> Nat] : final[u] = clock /\ \A t \in Threads \ {u} : final[t] = last[t]
    BY <1>f
  <2>2. Renumbers(clock, stamp, clock + 1, stamp, u) /\ ThreadRanks(clock + 1, stamp, final, u)'
    BY <1>1, <2>1, BeginRanks
  <2>3. QED
    BY <2>1, <2>2
<1>2. CASE Draws(u)
  <2>1. PICK new : new = [stamp EXCEPT ![Tx(u)] = clock]
    OBVIOUS
  <2>2. Renumbers(clock, stamp, clock + 1, new, u) /\ ThreadRanks(clock + 1, new, last, u)'
    BY <1>2, <2>1, DrawRanks
  <2>3. clock + 1 \in Nat /\ new \in [Txs -> Nat]
    BY <2>2 DEF Renumbers
  <2>4. QED
    BY <2>2, <2>3
<1> SUFFICES ASSUME ~Begin(u), ~Draws(u)
             PROVE  \E final \in [Threads -> Nat] :
                      /\ Renumbers(clock, stamp, clock, stamp, u)
                      /\ \A t \in Threads \ {u} : final[t] = last[t]
                      /\ ThreadRanks(clock, stamp, final, u)'
  BY <1>1, <1>2
<1>d. ~Decides(u)
  BY DEF Draws
<1>3. CASE Returns(u)
  <2>1. PICK n \in Nat : \A final \in [Threads -> Nat] : final[u] = n => ThreadRanks(clock, stamp, final, u)'
    BY <1>s, <1>3, ReturnsRanks
  <2>2. Renumbers(clock, stamp, clock, stamp, u)
    BY <1>s, <1>3, ReturnsRanks
  <2>3. QED
    BY <1>f, <2>1, <2>2
<1>4. CASE Checks(u) \/ Forces(u)
  BY <1>s, <1>4, ChecksRanks
<1>5. CASE Finishes(u)
  <2>1. Ended(u)' /\ attempt'[u] = attempt[u] /\ began'[u] \subseteq began[u] /\ seen'[u] \subseteq seen[u]
    BY <1>5 DEF Finishes
  <2>2. QED
    BY <1>s, <1>d, <2>1, IdleRanks
<1>6. CASE Counts(u) \/ (mode.counts /\ (Inserts(u) \/ Takes(u)))
  <2>1. /\ attempt'[u] = attempt[u] /\ began'[u] \subseteq began[u] /\ seen'[u] \subseteq seen[u]
        /\ pc'[u] \in {"count", "cache"}
    BY <1>6 DEF Counts, Inserts, Takes, BeginsCheck, Runs, SameSeen
  <2>2. EndsOpen(u)' /\ ~Passing(u)' /\ ~AtEnd(u)'
    BY <2>1 DEF EndsOpen, Passing, AtEnd
  <2>3. QED
    BY <1>s, <1>d, <2>1, <2>2, IdleRanks
<1>7. CASE Moves(u) \/ Finds(u) \/ Releases(u) \/ Repeats(u)
  <2>1. Runs(u) /\ ~EndsOpen(u) /\ ~AtEnd(u)'
    BY <1>7 DEF Moves, Finds, Releases, Repeats, EndsOpen, AtEnd, Passing
  <2>2. Pending(u)' = {}
    BY <1>7 DEF Moves, Finds, Releases, Repeats, EndsOpen, Pending
  <2>3. Elements(invisReads'[u]) \subseteq Elements(invisReads[u])
    BY <1>7 DEF Moves, Finds, Releases, Repeats, SameSeen
  <2>4. seen'[u] \subseteq Sight(u)
    <3>1. CASE Finds(u)
      <4>1. PICK e \in Elements(invisReads[u]) :
              loc[u].obj = e[1] /\ loc[u].snap = Unowned(e[2]) /\ Fresh(e[1], e[2], loc[u].copy)
        BY <1>s, <3>1 DEF Finds, ListOK
      <4>2. e[2] \in Nat
        BY <1>s, ListTypes
      <4>3. meta[e[1]].owner = Free /\ meta[e[1]].ver = e[2]
        BY <3>1, <4>1, <4>2, MetaFacts DEF Finds
      <4>4. Clean(e[1], e[2]) /\ Current(e[1]) = loc[u].copy
        BY <4>1, <4>3, MetaFacts DEF Clean, Done, Current, Fresh
      <4>5. <<loc[u].obj, loc[u].copy>> \in Sight(u)
        BY <4>1, <4>4 DEF Sight
      <4>6. QED
        BY <3>1, <4>5 DEF Finds, Sight
    <3>2. CASE Moves(u) \/ Releases(u) \/ Repeats(u)
      BY <3>2 DEF Moves, Releases, Repeats, SameSeen, Sight
    <3>3. QED
      BY <1>7, <3>1, <3>2
  <2>5. Sight(u)' \subseteq Sight(u)
    BY <2>2, <2>3, <2>4, SightStays
  <2>6. QED
    BY <1>s, <1>d, <2>1, <2>5, PlainRanks
<1>8. QED
  BY <1>3, <1>4, <1>5, <1>6, <1>7 DEF Kind, Draws

\* So there are numbers after every step of a thread.
LEMMA RankStep ==
  ASSUME Inv, Inv', HistInv, HistInv', NEW u \in Threads, Thread(u), Ranked
  PROVE  Ranked'
<1>k. Kind(u)
  BY StepKinds DEF HistInv
<1>1. PICK clock \in Nat, stamp \in [Txs -> Nat], last \in [Threads -> Nat] : RankInv(clock, stamp, last)
  BY DEF Ranked
<1>2. PICK later \in Nat, new \in [Txs -> Nat], final \in [Threads -> Nat] :
           /\ Renumbers(clock, stamp, later, new, u)
           /\ \A t \in Threads \ {u} : final[t] = last[t]
           /\ ThreadRanks(later, new, final, u)'
  BY <1>k, <1>1, OwnRanks
<1>3. CommittedRanks(later, new)'
  BY <1>k, <1>1, <1>2, CommittedRanksStep
<1>4. ASSUME NEW t \in Threads PROVE ThreadRanks(later, new, final, t)'
  <2>1. CASE t = u
    BY <1>2, <2>1
  <2>2. CASE t # u
    BY <1>k, <1>1, <1>2, <2>2, OtherRanks DEF RankInv
  <2>3. QED
    BY <2>1, <2>2
<1>5. QED
  BY <1>3, <1>4 DEF Ranked, RankInv

-------------------------------------------------------------------------------
(* From the numbers to opacity.                                              *)

\* Transactions of which those that come before have smaller numbers are in an
\* acyclic order.
LEMMA RankedIsAcyclic ==
  ASSUME NEW T, NEW rank \in [T -> Nat], \A a, b \in T : a # b /\ Precedes(a, b) => rank[a] < rank[b]
  PROVE  Acyclic(T)
<1>1. ASSUME NEW S \in SUBSET T, S # {} PROVE \E b \in S : \A a \in S \ {b} : ~Precedes(a, b)
  <2>1. PICK ranks : ranks = {rank[a] : a \in S}
    OBVIOUS
  <2>2. ranks \subseteq Nat /\ ranks # {}
    BY <1>1, <2>1
  <2>3. PICK n \in ranks : \A m \in ranks : n <= m
    BY <2>2, NatLeast
  <2>4. PICK b \in S : rank[b] = n
    BY <2>1
  <2>5. ASSUME NEW a \in S \ {b}, Precedes(a, b) PROVE FALSE
    <3>1. rank[a] < rank[b] /\ rank[b] <= rank[a] /\ rank[a] \in Nat /\ rank[b] \in Nat
      BY <2>1, <2>3, <2>4, <2>5
    <3>2. QED
      BY <3>1
  <2>6. QED
    BY <2>5
<1>2. QED
  BY <1>1 DEF Acyclic

\* A transaction that comes before another has a smaller number.
LEMMA PrecedesRanks ==
  ASSUME Inv, HistInv, NEW stamp \in [Txs -> Nat], NEW a, NEW b, NEW m \in Nat, NEW n \in Nat,
         Ordered(stamp, m, a.tx, a.reads, a.after), Ordered(stamp, n, b.tx, b.reads, b.after),
         (a \in committed /\ m = stamp[a.tx]) \/ (~IsCommitted(a.tx) /\ a.tx # Initial),
         (b \in committed /\ n = stamp[b.tx]) \/ b.writes = {},
         \A r \in b.reads : Made(r[1], r[2]), \A v \in b.after : IsCommitted(v),
         a.tx # b.tx, Precedes(a, b)
  PROVE  m < n
<1>0. a \in committed => a.tx # Initial
  BY RedoNoThreadAssumption DEF Inv, CommittedOK, Initial
<1>1. CASE \E r \in b.reads : r[2] = a.tx
  <2>1. Follows(stamp, n, a.tx) /\ (a.tx = Initial \/ IsCommitted(a.tx))
    BY <1>1, MadeFacts DEF Ordered
  <2>2. QED
    BY <1>0, <2>1 DEF Follows
<1>2. CASE a.reads \cap b.writes # {}
  <2>1. PICK r \in a.reads : r \in b.writes
    BY <1>2
  <2>2. b \in committed /\ n = stamp[b.tx]
    BY <2>1
  <2>3. Overwrites(b.tx, r) /\ b.tx \in Txs
    BY <2>1, <2>2 DEF Overwrites, Inv, TypeInv, HistoryOK
  <2>4. Before(stamp, m, a.tx, r)
    BY <2>1 DEF Ordered
  <2>5. QED
    BY <2>2, <2>3, <2>4 DEF Before
<1>3. CASE a.tx \in b.after
  <2>1. Follows(stamp, n, a.tx) /\ IsCommitted(a.tx)
    BY <1>3 DEF Ordered
  <2>2. QED
    BY <1>0, <2>1 DEF Follows
<1>4. QED
  BY <1>1, <1>2, <1>3 DEF Precedes

\* The places in the serial order make the history opaque.
LEMMA RankedIsOpaque ==
  ASSUME Inv, HistInv, Ranked
  PROVE  Opacity
<1>n. PICK clock \in Nat, stamp \in [Txs -> Nat], last \in [Threads -> Nat] : RankInv(clock, stamp, last)
  BY DEF Ranked
<1>1. ASSUME NEW c \in committed
      PROVE  /\ c.tx \in Txs /\ stamp[c.tx] \in Nat
             /\ Ordered(stamp, stamp[c.tx], c.tx, c.reads, c.after)
             /\ \A r \in c.reads : Made(r[1], r[2])
             /\ \A v \in c.after : IsCommitted(v)
  <2>1. c.tx \in Txs
    BY DEF Inv, TypeInv, HistoryOK
  <2>2. Ordered(stamp, stamp[c.tx], c.tx, c.reads, c.after)
    BY <1>n DEF RankInv, CommittedRanks
  <2>3. (\A r \in c.reads : Made(r[1], r[2])) /\ \A v \in c.after : IsCommitted(v)
    BY DEF HistInv, LogOK
  <2>4. QED
    BY <2>1, <2>2, <2>3
<1>2. ASSUME NEW a \in committed, NEW b \in committed, a # b, Precedes(a, b)
      PROVE  stamp[a.tx] < stamp[b.tx]
  <2>1. a.tx # b.tx
    BY <1>2 DEF HistInv, LogOK
  <2>m. PICK m \in Nat, n \in Nat : m = stamp[a.tx] /\ n = stamp[b.tx]
    BY <1>1
  <2>2. /\ Ordered(stamp, m, a.tx, a.reads, a.after) /\ Ordered(stamp, n, b.tx, b.reads, b.after)
        /\ \A r \in b.reads : Made(r[1], r[2])
        /\ \A v \in b.after : IsCommitted(v)
    BY <1>1, <2>m
  <2>3. m < n
    BY <1>2, <2>1, <2>m, <2>2, PrecedesRanks
  <2>4. QED
    BY <2>m, <2>3
<1>3. Acyclic(committed)
  <2>1. PICK rank : rank = [c \in committed |-> stamp[c.tx]]
    OBVIOUS
  <2>2. rank \in [committed -> Nat] /\ \A c \in committed : rank[c] = stamp[c.tx]
    BY <1>1, <2>1
  <2>3. QED
    BY <1>2, <2>2, RankedIsAcyclic
<1>4. ASSUME NEW c, \A r \in c.reads : Made(r[1], r[2])
      PROVE  ReadsWhatCommitted(c, committed, Initial)
  BY <1>4 DEF ReadsWhatCommitted, Made
<1>5. ASSUME NEW t \in Threads, seen[t] # {}, NEW l, l = Live(t)
      PROVE  (\A r \in l.reads : Made(r[1], r[2])) /\ Acyclic(committed \cup {l})
  <2>s. PastOK(t) /\ LiveOK(t)
    BY DEF HistInv, LocalOK
  <2>1. l.tx = Tx(t) /\ l.reads = seen[t] /\ l.after = began[t] /\ l.writes = {}
    BY <1>5 DEF Live
  <2>2. (\A r \in l.reads : Made(r[1], r[2])) /\ \A v \in l.after : IsCommitted(v)
    BY <2>s, <2>1 DEF PastOK
  <2>3. ~IsCommitted(l.tx) /\ l.tx # Initial
    BY <1>5, <2>s, <2>1, RedoNoThreadAssumption DEF LiveOK, Tx, Initial
  <2>m. PICK m \in Nat : m = last[t]
    OBVIOUS
  <2>4. Ordered(stamp, m, l.tx, l.reads, l.after)
    BY <1>n, <2>1, <2>m DEF RankInv, ThreadRanks
  <2>5. \A c \in committed : c.tx # l.tx /\ c # l
    BY <2>3 DEF IsCommitted
  <2>6. ASSUME NEW b \in committed
        PROVE  /\ Precedes(l, b) => m < stamp[b.tx]
               /\ Precedes(b, l) => stamp[b.tx] < m
    <3>n. PICK n \in Nat : n = stamp[b.tx]
      BY <1>1
    <3>1. /\ Ordered(stamp, n, b.tx, b.reads, b.after)
          /\ \A r \in b.reads : Made(r[1], r[2])
          /\ \A v \in b.after : IsCommitted(v)
      BY <1>1, <3>n
    <3>2. Precedes(l, b) => m < n
      BY <2>3, <2>4, <2>5, <3>n, <3>1, PrecedesRanks
    <3>3. Precedes(b, l) => n < m
      BY <2>1, <2>2, <2>4, <2>5, <3>n, <3>1, PrecedesRanks
    <3>4. QED
      BY <3>n, <3>2, <3>3
  <2>t. PICK T : T = committed \cup {l}
    OBVIOUS
  <2>r. PICK rank \in [T -> Nat] : rank[l] = m /\ \A c \in committed : rank[c] = stamp[c.tx]
    <3>1. PICK g : g = [c \in T |-> IF c = l THEN m ELSE stamp[c.tx]]
      OBVIOUS
    <3>2. \A c \in T : c = l \/ c \in committed
      BY <2>t
    <3>3. g \in [T -> Nat]
      BY <1>1, <3>1, <3>2
    <3>4. l \in T /\ g[l] = m
      BY <2>t, <3>1
    <3>5. \A c \in committed : g[c] = stamp[c.tx]
      BY <2>t, <2>5, <3>1
    <3>6. QED
      BY <3>3, <3>4, <3>5
  <2>7. ASSUME NEW a \in T, NEW b \in T, a # b, Precedes(a, b) PROVE rank[a] < rank[b]
    <3>1. CASE a \in committed /\ b \in committed
      BY <1>2, <2>r, <2>7, <3>1
    <3>2. CASE a = l /\ b \in committed
      BY <2>6, <2>r, <2>7, <3>2
    <3>3. CASE a \in committed /\ b = l
      BY <2>6, <2>r, <2>7, <3>3
    <3>4. QED
      BY <2>t, <2>7, <3>1, <3>2, <3>3
  <2>8. Acyclic(T)
    BY <2>7, RankedIsAcyclic
  <2>9. QED
    BY <2>2, <2>t, <2>8
<1>6. PICK live : live = {Live(t) : t \in {u \in Threads : seen[u] # {}}}
  OBVIOUS
<1>7. \A l \in live : (\A r \in l.reads : Made(r[1], r[2])) /\ Acyclic(committed \cup {l})
  BY <1>5, <1>6
<1>8. \A c \in committed \cup live : ReadsWhatCommitted(c, committed, Initial)
  BY <1>1, <1>4, <1>7
<1>9. QED
  BY <1>3, <1>6, <1>7, <1>8 DEF Opacity, OpaqueHistory

\* All that the theorem rests on, besides Inv.
OpacityInv == HistInv /\ Ranked

\* It holds initially: nothing has been read, and every number is 0.
LEMMA OpacityInit ==
  ASSUME NoLazyCounting, Init
  PROVE  OpacityInv
<1>1. committed = {} /\ \A t \in Threads : pc[t] = "idle" /\ txState[t] = "COMMITTED" /\ seen[t] = {} /\ began[t] = {}
  BY DEF Init
<1>2. PICK stamp \in [Txs -> Nat], last \in [Threads -> Nat] : \A t \in Threads : last[t] = 0
  <2>1. [x \in Txs |-> 0] \in [Txs -> Nat] /\ [t \in Threads |-> 0] \in [Threads -> Nat]
    OBVIOUS
  <2>2. QED
    BY <2>1
<1>3. RankInv(1, stamp, last)
  BY <1>1, <1>2 DEF RankInv, CommittedRanks, ThreadRanks, Ordered, Ended, Deciding
<1>4. Ranked
  BY <1>3 DEF Ranked
<1>5. QED
  BY <1>4, HistInit DEF OpacityInv

\* Every statement of a thread preserves it.
LEMMA OpacityStep ==
  ASSUME Inv, Inv', OpacityInv, NEW u \in Threads, Thread(u)
  PROVE  OpacityInv'
<1>1. HistInv'
  BY HistStep DEF OpacityInv
<1>2. QED
  BY <1>1, RankStep DEF OpacityInv

\* At most the counter changes, and it grows.
AtMostCounts ==
  /\ UNCHANGED <<meta, data, txState, private, pc, loc, history>>
  /\ counter \in Nat /\ counter' \in Nat /\ counter <= counter'

\* So does a step of others, and one that changes nothing.
LEMMA OpacityQuiet ==
  ASSUME Inv, OpacityInv, AtMostCounts
  PROVE  OpacityInv'
<1>u. /\ UNCHANGED <<meta, data, txState, pc, loc, mode, attempt, cached, invisReads, writes, seen, began, committed>>
      /\ counter \in Nat /\ counter' \in Nat /\ counter <= counter'
  BY DEF AtMostCounts, private, history
<1>d. \A t \in Threads : /\ Tx(t)' = Tx(t) /\ (Deciding(t)' <=> Deciding(t)) /\ (Passing(t)' <=> Passing(t))
                         /\ (EndsOpen(t)' <=> EndsOpen(t)) /\ (Ended(t)' <=> Ended(t)) /\ Unchecked(t)' = Unchecked(t)
  BY <1>u DEF Tx, Deciding, AtEnd, Passing, EndsOpen, Ended, Unchecked
<1>c. \A o : Current(o)' = Current(o) /\ \A v : (Clean(o, v)' <=> Clean(o, v)) /\ (Made(o, v)' <=> Made(o, v))
  BY <1>u DEF Current, Clean, Done, Made
<1>w. \A t \in Threads : \A o, c : Waiting(t, o, c)' <=> Waiting(t, o, c)
  BY <1>u, <1>d DEF Waiting, Fresh
<1>1. ASSUME NEW t \in Threads PROVE LocalOK(t)'
  <2>s. ModeOK(t) /\ PastOK(t) /\ ListOK(t) /\ SeenOK(t) /\ CountOK(t) /\ LiveOK(t)
    BY DEF OpacityInv, HistInv, LocalOK
  <2>1. ModeOK(t)' /\ PastOK(t)'
    BY <1>u, <2>s DEF ModeOK, PastOK, Made, IsCommitted
  <2>2. ListOK(t)'
    BY <1>u, <1>d, <2>s DEF ListOK, Fresh
  <2>3. SeenOK(t)'
    BY <1>u, <1>w, <2>s DEF SeenOK, Fresh
  <2>4. LiveOK(t)'
    BY <1>u, <1>d, <2>s DEF LiveOK, IsCommitted
  <2>5. CountOK(t)'
    <3>1. cached[t] \in Nat /\ cached[t] <= counter
      BY Types
    <3>2. cached'[t] = counter' => cached[t] = counter
      BY <1>u, <3>1
    <3>3. cached[t] < counter => cached'[t] < counter'
      BY <1>u, <3>1
    <3>4. QED
      BY <1>u, <1>d, <1>c, <2>s, <3>2, <3>3 DEF CountOK
  <2>6. QED
    BY <2>1, <2>2, <2>3, <2>4, <2>5 DEF LocalOK
<1>2. HistInv'
  <2>1. LogOK' /\ ContentsOK' /\ SeenType'
    BY <1>u, <1>c DEF OpacityInv, HistInv, LogOK, ContentsOK, SeenType, Made, Gone, IsCommitted
  <2>2. QED
    BY <1>u, <1>1, <2>1 DEF OpacityInv, HistInv
<1>3. Ranked'
  <2>1. PICK clock \in Nat, stamp \in [Txs -> Nat], last \in [Threads -> Nat] : RankInv(clock, stamp, last)
    BY DEF OpacityInv, Ranked
  <2>2. \A x, r : Overwrites(x, r)' <=> Overwrites(x, r)
    BY <1>u, <1>d DEF Overwrites
  <2>3. \A n, x, r : Before(stamp, n, x, r)' <=> Before(stamp, n, x, r)
    BY <2>2 DEF Before
  <2>4. \A n, x, reads, after : Ordered(stamp, n, x, reads, after)' <=> Ordered(stamp, n, x, reads, after)
    BY <2>3 DEF Ordered, Follows
  <2>5. CommittedRanks(clock, stamp)'
    BY <1>u, <2>1, <2>4 DEF RankInv, CommittedRanks
  <2>6. ASSUME NEW t \in Threads PROVE ThreadRanks(clock, stamp, last, t)'
    <3>x. PICK x : x = Tx(t) /\ x = Tx(t)'
      BY <1>d
    <3>s. PICK sight : sight = Sight(t) /\ sight = Sight(t)'
      <4>1. Pending(t)' = Pending(t)
        BY <1>u, <1>d DEF Pending
      <4>2. QED
        BY <1>u, <1>c, <4>1 DEF Sight
    <3>1. ThreadRanks(clock, stamp, last, t)
      BY <2>1 DEF RankInv
    <3>2. PassOK(clock, stamp, last, t) => PassOK(clock, stamp, last, t)'
      BY <1>w, <2>3, <3>x, <3>s DEF PassOK, Follows
    <3>3. QED
      BY <1>u, <1>d, <2>4, <3>x, <3>s, <3>1, <3>2 DEF ThreadRanks
  <2>7. QED
    BY <2>5, <2>6 DEF Ranked, RankInv
<1>4. QED
  BY <1>2, <1>3 DEF OpacityInv

\* For any number of threads, objects and attempts, any contention manager, and
\* eager or lazy writers, of which the eager ones may skip the validations that
\* the commit counter makes superfluous: the committed transactions have a serial
\* order, consistent with real time, in which each read the last contents written
\* before it, and so do they together with any transaction that still runs. It
\* reads objects in place, field by field, while others apply their logs to them,
\* under a lock that it does not take, and never sees a mixture
\* (Descriptor_redo_lock.h:464-472, 672-695, 890-912, 926-1062). For lazy writers
\* with the counter it is false: one of them validates before it moves the counter
\* on, and in between another moves it and skips its own validation
\* (Descriptor_redo_lock.h:686-690, ConflictDetector.h:90-125).
THEOREM TransactionsAreOpaque == NoLazyCounting /\ Spec => []Opacity
<1>1. NoLazyCounting /\ Init => OpacityInv
  BY OpacityInit
<1>2. Inv /\ Inv' /\ OpacityInv /\ [Next]_vars => OpacityInv'
  <2>1. Inv /\ (UNCHANGED vars \/ OtherCommit) => AtMostCounts
    BY Types DEF AtMostCounts, vars, shared, OtherCommit
  <2>2. QED
    BY <2>1, OpacityStep, OpacityQuiet DEF Next
<1>3. Inv /\ OpacityInv => Opacity
  BY RankedIsOpaque DEF OpacityInv
<1>4. QED
  BY <1>1, <1>2, <1>3, Invariant, PTL DEF Spec

===============================================================================
