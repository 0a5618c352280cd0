---------------------------- MODULE RedoLock_proofs ---------------------------
(*****************************************************************************)
(* Theorems about RedoLock, for every number of threads, objects and         *)
(* attempts: types, that a log is applied by one thread, and that it         *)
(* implements TxMemory.                                                      *)
(*                                                                           *)
(* The proof is of the rely/guarantee kind, as that of Rstm_proofs: Others,  *)
(* Metas and UsedStable say what a step of one thread may do to the rest,    *)
(* OtherThreads shows that what a thread relies on is stable under it, and   *)
(* each lemma ...Step is about one statement. A CAS that compares the two    *)
(* words of the metadata acts on a snapshot taken before: a log that has     *)
(* been in the metadata is not put there again (Used), and the contents of   *)
(* an object change only while it is locked, after which it has another      *)
(* version (Fresh).                                                          *)
(*****************************************************************************)
EXTENDS RedoLock, NatFacts

-------------------------------------------------------------------------------
(* The invariant.                                                            *)

\* The values of tx_state.
States == {"ACTIVE", "ABORTED", "COMMITTED"}
\* The metadata of an object.
Meta == [owner : {Free, Locked} \cup Threads, ver : Nat, log : Logs]
\* An object and a version number of it.
Pair == Objects \X Nat
\* An entry of eagerWrites or lazyWrites.
Entry == [obj : Objects, ver : Nat, log : Logs, read : Txs, acquired : BOOLEAN]
\* The locals of the opens and of the commit.
Locals == [obj : Objects, kind : {"none", "RO", "RW", "UN"}, snap : Meta, state : States,
           copy : Txs, todo : Seq(Pair),
           then : {"work", "opened", "force", "cas", "load", "restore"}]

\* The entries of a list.
Elements(s) == {s[i] : i \in DOMAIN s}

\* The types of the shared memory, of the threads, of the counter and of the
\* history: TypeOK, and what it leaves out.
MemoryOK ==
  /\ meta \in [Objects -> Meta]
  /\ data \in [Objects -> Txs]
  /\ txState \in [Threads -> States]
  /\ mode \in [isLazy : BOOLEAN, counts : BOOLEAN]

ThreadOK ==
  /\ pc \in [Threads -> Labels]
  /\ attempt \in [Threads -> 0 .. MaxAttempts]
  /\ loc \in [Threads -> Locals]
  /\ writes \in [Threads -> Seq(Entry)]

ReadsOK ==
  /\ counter \in Nat
  /\ cached \in [Threads -> 0 .. counter]
  /\ invisReads \in [Threads -> Seq(Pair)]

HistoryOK ==
  /\ began \in [Threads -> SUBSET Txs]
  /\ \A c \in committed : c.tx \in Txs

TypeInv == MemoryOK /\ ThreadOK /\ ReadsOK /\ HistoryOK

\* The thread is not in a transaction, or its transaction has ended and it
\* cleans up.
Ended(t) == \/ pc[t] \in {"idle", "restore"}
            \/ loc[t].kind = "UN"
            \/ pc[t] \in {"redo", "release"} /\ loc[t].kind = "none"

\* The thread has made its open, and checks it.
EndsOpen(t) == \/ pc[t] \in {"count", "cache", "opened"}
               \/ pc[t] = "validate" /\ loc[t].then = "opened"

\* The thread has acquired all it writes, and validates before it commits.
EndsCommit(t) == \/ pc[t] \in {"tryCommit", "force", "cas"}
                 \/ pc[t] = "validate" /\ loc[t].then \in {"force", "cas"}

\* The thread applies a log to object o.
Applies(t, o) == pc[t] \in {"redo", "release"} /\ loc[t].obj = o

\* What is open at each statement.
KindOK(t) ==
  LET kind == loc[t].kind
      then == loc[t].then
  IN
  /\ pc[t] \in {"idle", "work", "checkField", "acquireLazily", "tryCommit", "force", "cas", "restore"}
       => kind = "none"
  /\ pc[t] \in {"load", "look", "recheck", "decide", "contend", "cleanAbort", "lock"} => kind # "none"
  /\ pc[t] \in {"count", "cache", "opened"} => kind \in {"RO", "RW"}
  /\ pc[t] \in {"clone", "acquire"} => kind = "RW"
  /\ pc[t] = "validate" =>
       /\ loc[t].todo # <<>>
       /\ \/ then = "opened" /\ kind \in {"RO", "RW"}
          \/ then \in {"force", "cas"} /\ kind = "none"
  /\ pc[t] \in {"redo", "release"} => then = IF kind = "none" THEN "restore" ELSE "load"

\* The state of the transaction at each statement.
PhaseOK(t) ==
  /\ Ended(t) => txState[t] # "ACTIVE"
  /\ ~Ended(t) => txState[t] \in {"ACTIVE", "ABORTED"} /\ attempt[t] >= 1

\* If object o still has version v, its contents are c; but a log may be being
\* applied.
Fresh(o, v, c) ==
  /\ v <= meta[o].ver
  /\ meta[o].ver = v /\ meta[o].owner # Locked => data[o] = c

\* No two entries of writes are of the same object.
Single(t) ==
  \A i, k \in DOMAIN writes[t] : writes[t][i].obj = writes[t][k].obj => i = k

\* The list of writes: the logs are of this attempt; an object is there twice
\* only if an eager transaction was killed and has not noticed; a lazy one
\* acquires when it commits; while a transaction is active, it owns what it
\* acquired; what it cloned are the contents, unless the version has changed.
WritesOK(t) ==
  LET entries == Elements(writes[t])
  IN
  /\ \A w \in entries : w.log = <<t, attempt[t], w.log[3]>> /\ w.log[3] \in 1 .. 2
  /\ \A i, k \in DOMAIN writes[t] :
       writes[t][i].obj = writes[t][k].obj /\ writes[t][i].log = writes[t][k].log => i = k
  /\ (\E w \in entries : w.log[3] = 2) \/ ~Single(t) =>
       ~mode.isLazy /\ Killed(t) /\ (EndsOpen(t) \/ Ended(t))
  /\ ~mode.isLazy => \A w \in entries : w.acquired
  /\ mode.isLazy /\ loc[t].kind = "RW" /\ ~EndsOpen(t) => \A w \in entries : w.obj # loc[t].obj
  /\ EndsCommit(t) => \A w \in entries : w.acquired
  /\ mode.isLazy => \/ pc[t] = "acquireLazily" \/ EndsCommit(t) \/ Ended(t)
                    \/ \A w \in entries : ~w.acquired
  /\ pc[t] = "acquireLazily" => \E w \in entries : ~w.acquired
  /\ txState[t] = "ACTIVE" =>
       \A w \in entries : w.acquired => meta[w.obj] = Owned(t, w.log, w.ver)
  /\ \A w \in entries : Fresh(w.obj, w.ver, w.read)
  /\ pc[t] = "idle" \/ loc[t].kind = "UN" => writes[t] = <<>>

\* An owner has put the log into the metadata of object o, or never will: a log
\* in the metadata now was there all along.
Used(o, log) ==
  LET u == log[1] IN
  \/ log[2] < attempt[u]
  \/ /\ log[2] = attempt[u]
     /\ \/ Ended(u)
        \/ \E w \in Elements(writes[u]) : w.obj = o /\ w.log = log /\ w.acquired

\* The snapshot of the metadata: a log that is not put there again, and, if it
\* is there, a tx_state that still is its owner's; or a version that was free.
SnapOK(t) ==
  LET o == loc[t].obj
      s == loc[t].snap
  IN
  /\ pc[t] \in {"look", "recheck", "decide", "cleanAbort", "lock"} =>
       s.owner \in Threads /\ s.log[1] = s.owner /\ Used(o, s.log)
  /\ pc[t] = "recheck" /\ loc[t].kind = "UN" /\ s.owner = t => loc[t].state # "ACTIVE"
  /\ meta[o] = s =>
       /\ pc[t] = "recheck" /\ loc[t].state # "ACTIVE" => txState[s.owner] = loc[t].state
       /\ pc[t] = "cleanAbort" => txState[s.owner] = "ABORTED"
       /\ pc[t] = "lock" => txState[s.owner] = "COMMITTED"
  /\ pc[t] \in {"clone", "acquire"} => s.owner = Free /\ s.ver <= meta[o].ver
  /\ pc[t] = "acquire" => Fresh(o, s.ver, loc[t].copy)

\* A thread that applies a log has locked the metadata with it.
RedoOK(t) ==
  LET o == loc[t].obj
      s == loc[t].snap
  IN
  /\ pc[t] \in {"redo", "release"} => meta[o] = LockedBy(s)
  /\ pc[t] = "release" => data[o] = ContentsOf(s.log)

\* An owned object is in the list of its owner.
OwnerOK ==
  \A o \in Objects : meta[o].owner \in Threads =>
    \E w \in Elements(writes[meta[o].owner]) :
      w.obj = o /\ w.acquired /\ meta[o] = Owned(meta[o].owner, w.log, w.ver)

\* One thread applies a log to an object.
AppliersOK == \A t, u \in Threads : \A o \in Objects : Applies(t, o) /\ Applies(u, o) => t = u

\* The committed transactions are attempts that have ended.
CommittedOK ==
  \A c \in committed : \E u \in Threads :
    /\ c.tx = <<u, c.tx[2]>> /\ c.tx[2] \in Nat /\ c.tx[2] <= attempt[u]
    /\ c.tx[2] = attempt[u] => Ended(u)

ThreadInv(t) == KindOK(t) /\ PhaseOK(t) /\ WritesOK(t) /\ SnapOK(t) /\ RedoOK(t)

Inv == TypeInv /\ (\A t \in Threads : ThreadInv(t)) /\ OwnerOK /\ AppliersOK /\ CommittedOK

-------------------------------------------------------------------------------
(* What a step of one thread may do to what the others rely on.              *)

\* What a step of thread t leaves of another thread: all of its own state, but
\* that it may have been killed.
Others(t) ==
  \A u \in Threads \ {t} :
    /\ pc'[u] = pc[u] /\ loc'[u] = loc[u] /\ attempt'[u] = attempt[u] /\ writes'[u] = writes[u]
    /\ txState'[u] = txState[u] \/ (txState[u] = "ACTIVE" /\ txState'[u] = "ABORTED")

\* What a step of thread t does to the metadata: it puts a log there only if it
\* never was; while a log is there, the state of an ended owner stays; only an
\* active owner gives it up itself; versions grow, and they do when a lock is
\* released; what is locked is left to the thread that has the lock.
Metas(t) ==
  \A o \in Objects :
    /\ meta'[o].owner \in Threads /\ meta'[o] # meta[o] =>
         meta'[o].log[1] \in Threads /\ ~Used(o, meta'[o].log)
    /\ meta'[o] = meta[o] /\ meta[o].owner \in Threads /\ txState[meta[o].owner] # "ACTIVE" =>
         txState'[meta[o].owner] = txState[meta[o].owner]
    /\ meta[o].owner \in Threads \ {t} /\ txState[meta[o].owner] = "ACTIVE" => meta'[o] = meta[o]
    /\ meta[o].ver <= meta'[o].ver
    /\ data'[o] # data[o] => meta[o].owner = Locked
    /\ meta[o].owner = Locked /\ meta'[o] # meta[o] => meta[o].ver < meta'[o].ver
    /\ meta[o].owner = Locked /\ ~Applies(t, o) => meta'[o] = meta[o] /\ data'[o] = data[o]

\* A log that is Used stays Used.
UsedStable ==
  \A o \in Objects, log \in Logs : log[1] \in Threads /\ Used(o, log) => Used(o, log)'

\* Thread t begins to apply a log only to an object that was not locked.
NewLock(t) ==
  \A o \in Objects : Applies(t, o)' => Applies(t, o) \/ meta[o].owner # Locked

-------------------------------------------------------------------------------
(* Names, metadata, entries and sequences.                                   *)

\* The names of logs and of contents.
LEMMA LogFacts ==
  /\ NoLog \in Logs /\ Initial \in Txs /\ NoLog[1] \notin Threads
  /\ \A t \in Threads, n \in 1 .. MaxAttempts, k \in 1 .. 2 :
       <<t, n, k>> \in Logs /\ <<t, n>> \in Txs /\ ContentsOf(<<t, n, k>>) = <<t, n>>
  /\ \A log \in Logs : ContentsOf(log) \in Txs
  /\ \A log \in Logs : log[1] \in Threads => log[2] \in 1 .. MaxAttempts
<1>1. NoLog \in Logs /\ Initial \in Txs /\ NoLog[1] \notin Threads /\ ContentsOf(NoLog) = Initial
  BY RedoNoThreadAssumption DEF NoLog, Logs, Initial, Txs, ContentsOf
<1>2. \A t \in Threads, n \in 1 .. MaxAttempts, k \in 1 .. 2 :
        <<t, n, k>> \in Logs /\ <<t, n>> \in Txs /\ ContentsOf(<<t, n, k>>) = <<t, n>>
  BY DEF Logs, Txs, ContentsOf
<1>3. \A log \in Logs : log = NoLog \/ \E t \in Threads, n \in 1 .. MaxAttempts, k \in 1 .. 2 : log = <<t, n, k>>
  BY DEF Logs
<1>4. ASSUME NEW log \in Logs
      PROVE  ContentsOf(log) \in Txs /\ (log[1] \in Threads => log[2] \in 1 .. MaxAttempts)
  <2>1. CASE log = NoLog
    BY <1>1, <2>1
  <2>2. CASE log # NoLog
    <3>1. PICK t \in Threads : \E n \in 1 .. MaxAttempts, k \in 1 .. 2 : log = <<t, n, k>>
      BY <1>3, <2>2
    <3>2. PICK n \in 1 .. MaxAttempts, k \in 1 .. 2 : log = <<t, n, k>>
      BY <3>1
    <3>3. QED
      BY <1>2, <3>2
  <2>3. QED
    BY <2>1, <2>2
<1>5. QED
  BY <1>1, <1>2, <1>4

\* The three kinds of metadata.
LEMMA MetaFacts ==
  /\ Free \notin Threads /\ Locked \notin Threads /\ Free # Locked
  /\ \A v \in Nat : /\ Unowned(v) \in Meta
                    /\ Unowned(v).owner = Free /\ Unowned(v).ver = v
  /\ \A t \in Threads, log \in Logs, v \in Nat :
       /\ Owned(t, log, v) \in Meta
       /\ Owned(t, log, v).owner = t /\ Owned(t, log, v).log = log /\ Owned(t, log, v).ver = v
  /\ \A m \in Meta :
       /\ LockedBy(m) \in Meta
       /\ LockedBy(m).owner = Locked /\ LockedBy(m).log = m.log /\ LockedBy(m).ver = m.ver
       /\ m.ver \in Nat /\ m.log \in Logs /\ m.owner \in {Free, Locked} \cup Threads
<1>1. Free \notin Threads /\ Locked \notin Threads /\ Free # Locked
  BY RedoThreadsAssumption DEF Free, Locked
<1>2. \A v \in Nat : /\ Unowned(v) \in Meta
                     /\ Unowned(v).owner = Free /\ Unowned(v).ver = v
  BY LogFacts DEF Unowned, Meta
<1>3. \A t \in Threads, log \in Logs, v \in Nat :
       /\ Owned(t, log, v) \in Meta
       /\ Owned(t, log, v).owner = t /\ Owned(t, log, v).log = log /\ Owned(t, log, v).ver = v
  BY DEF Owned, Meta
<1>4. \A m \in Meta :
       /\ LockedBy(m) \in Meta
       /\ LockedBy(m).owner = Locked /\ LockedBy(m).log = m.log /\ LockedBy(m).ver = m.ver
       /\ m.ver \in Nat /\ m.log \in Logs /\ m.owner \in {Free, Locked} \cup Threads
  BY DEF LockedBy, Meta
<1>5. QED
  BY <1>1, <1>2, <1>3, <1>4

\* The locals between two opens.
LEMMA NoLocalsType ==
  /\ NoLocals \in Locals /\ NoLocals.kind = "none" /\ NoLocals.snap = Unowned(0)
  /\ NoLocals.todo = <<>> /\ NoLocals.then = "work"
<1>1. (CHOOSE o \in Objects : TRUE) \in Objects
  BY RedoObjectsAssumption
<1>2. Unowned(0) \in Meta /\ Initial \in Txs /\ <<>> \in Seq(Pair)
  BY MetaFacts, LogFacts
<1>3. QED
  BY <1>1, <1>2 DEF NoLocals, Locals, States

\* The locals at the start of an open of object o.
Start(o, kind) == [NoLocals EXCEPT !.obj = o, !.kind = kind]

\* They have the type of locals.
LEMMA StartType ==
  ASSUME NEW o \in Objects, NEW k \in {"RO", "RW", "UN"}
  PROVE  Start(o, k) \in Locals /\ Start(o, k).obj = o /\ Start(o, k).kind = k
  BY NoLocalsType DEF Locals, Start

\* The locals with another snapshot.
LEMMA NewSnap ==
  ASSUME NEW k \in Locals, NEW s \in Meta
  PROVE  \E l \in Locals : /\ l = [k EXCEPT !.snap = s]
                           /\ l.kind = k.kind /\ l.obj = k.obj /\ l.snap = s
<1>1. [k EXCEPT !.snap = s] \in Locals
  BY DEF Locals
<1>2. PICK l \in Locals : l = [k EXCEPT !.snap = s]
  BY <1>1
<1>3. l.kind = k.kind /\ l.obj = k.obj /\ l.snap = s
  BY <1>2 DEF Locals
<1>4. QED
  BY <1>2, <1>3

\* The locals with another state of the owner.
LEMMA NewState ==
  ASSUME NEW k \in Locals, NEW st \in States
  PROVE  \E l \in Locals : /\ l = [k EXCEPT !.state = st]
                           /\ l.kind = k.kind /\ l.obj = k.obj /\ l.snap = k.snap /\ l.state = st
<1>1. [k EXCEPT !.state = st] \in Locals
  BY DEF Locals
<1>2. PICK l \in Locals : l = [k EXCEPT !.state = st]
  BY <1>1
<1>3. l.kind = k.kind /\ l.obj = k.obj /\ l.snap = k.snap /\ l.state = st
  BY <1>2 DEF Locals
<1>4. QED
  BY <1>2, <1>3

\* The locals with another copy.
LEMMA NewCopy ==
  ASSUME NEW k \in Locals, NEW c \in Txs
  PROVE  \E l \in Locals : /\ l = [k EXCEPT !.copy = c]
                           /\ l.kind = k.kind /\ l.obj = k.obj /\ l.snap = k.snap /\ l.copy = c
<1>1. [k EXCEPT !.copy = c] \in Locals
  BY DEF Locals
<1>2. PICK l \in Locals : l = [k EXCEPT !.copy = c]
  BY <1>1
<1>3. l.kind = k.kind /\ l.obj = k.obj /\ l.snap = k.snap /\ l.copy = c
  BY <1>2 DEF Locals
<1>4. QED
  BY <1>2, <1>3

\* The types of the variables, from the invariant.
LEMMA Types ==
  ASSUME Inv
  PROVE  /\ meta \in [Objects -> Meta]
         /\ data \in [Objects -> Txs]
         /\ txState \in [Threads -> States]
         /\ mode \in [isLazy : BOOLEAN, counts : BOOLEAN]
         /\ pc \in [Threads -> Labels]
         /\ attempt \in [Threads -> 0 .. MaxAttempts]
         /\ loc \in [Threads -> Locals]
         /\ writes \in [Threads -> Seq(Entry)]
         /\ counter \in Nat
         /\ cached \in [Threads -> 0 .. counter]
         /\ invisReads \in [Threads -> Seq(Pair)]
         /\ MaxAttempts \in Nat
  BY RedoBoundsAssumption DEF Inv, TypeInv, MemoryOK, ThreadOK, ReadsOK

\* The types of the locals of thread t.
LEMMA LocTypes ==
  ASSUME Inv, NEW t \in Threads
  PROVE  /\ loc[t] \in Locals /\ loc[t].obj \in Objects /\ loc[t].kind \in {"none", "RO", "RW", "UN"}
         /\ loc[t].snap \in Meta /\ loc[t].state \in States /\ loc[t].copy \in Txs
         /\ loc[t].todo \in Seq(Pair)
         /\ loc[t].then \in {"work", "opened", "force", "cas", "load", "restore"}
         /\ meta[loc[t].obj] \in Meta /\ data[loc[t].obj] \in Txs
  BY Types DEF Locals

\* What thread t relies on, from the invariant.
LEMMA ThreadFacts ==
  ASSUME Inv, NEW t \in Threads
  PROVE  KindOK(t) /\ PhaseOK(t) /\ WritesOK(t) /\ SnapOK(t) /\ RedoOK(t)
  BY DEF Inv, ThreadInv

\* The elements of a sequence over S are in S.
LEMMA ElementsType ==
  ASSUME NEW S, NEW s \in Seq(S)
  PROVE  /\ \A w : w \in Elements(s) <=> \E i \in DOMAIN s : w = s[i]
         /\ Elements(s) \subseteq S
         /\ s = <<>> => Elements(s) = {}
  BY DEF Elements

\* The elements of a sequence with one more at its end.
LEMMA ElementsAppend ==
  ASSUME NEW S, NEW s \in Seq(S), NEW e \in S
  PROVE  /\ Append(s, e) \in Seq(S) /\ Len(Append(s, e)) = Len(s) + 1 /\ Len(s) \in Nat
         /\ DOMAIN s = 1 .. Len(s) /\ DOMAIN Append(s, e) = 1 .. Len(s) + 1
         /\ \A i \in 1 .. Len(s) : Append(s, e)[i] = s[i]
         /\ Append(s, e)[Len(s) + 1] = e
         /\ Elements(Append(s, e)) = Elements(s) \cup {e}
<1>1. /\ Append(s, e) \in Seq(S) /\ Len(Append(s, e)) = Len(s) + 1 /\ Len(s) \in Nat
      /\ DOMAIN s = 1 .. Len(s) /\ DOMAIN Append(s, e) = 1 .. Len(s) + 1
      /\ \A i \in 1 .. Len(s) : Append(s, e)[i] = s[i]
      /\ Append(s, e)[Len(s) + 1] = e
  OBVIOUS
<1>2. Elements(Append(s, e)) = Elements(s) \cup {e}
  <2>1. ASSUME NEW w \in Elements(Append(s, e)) PROVE w \in Elements(s) \cup {e}
    BY <1>1 DEF Elements
  <2>2. e \in Elements(Append(s, e))
    BY <1>1 DEF Elements
  <2>3. ASSUME NEW w \in Elements(s) PROVE w \in Elements(Append(s, e))
    <3>1. PICK i \in 1 .. Len(s) : w = s[i]
      BY <1>1 DEF Elements
    <3>2. i \in 1 .. Len(s) + 1 /\ Append(s, e)[i] = w
      BY <1>1, <3>1
    <3>3. QED
      BY <1>1, <3>2 DEF Elements
  <2>4. QED
    BY <2>1, <2>2, <2>3
<1>3. QED
  BY <1>1, <1>2

\* The elements of a sequence are its head and those of its tail.
LEMMA ElementsTail ==
  ASSUME NEW S, NEW s \in Seq(S), s # <<>>
  PROVE  /\ Tail(s) \in Seq(S) /\ Len(s) \in Nat /\ Len(s) >= 1 /\ Head(s) = s[1] /\ Head(s) \in S
         /\ DOMAIN s = 1 .. Len(s) /\ DOMAIN Tail(s) = 1 .. Len(s) - 1
         /\ \A i \in 1 .. Len(s) - 1 : Tail(s)[i] = s[i + 1]
         /\ Elements(s) = {Head(s)} \cup Elements(Tail(s))
<1>1. /\ Tail(s) \in Seq(S) /\ Len(s) \in Nat /\ Len(s) >= 1 /\ Head(s) = s[1] /\ Head(s) \in S
      /\ DOMAIN s = 1 .. Len(s) /\ DOMAIN Tail(s) = 1 .. Len(s) - 1
      /\ \A i \in 1 .. Len(s) - 1 : Tail(s)[i] = s[i + 1]
  OBVIOUS
<1>2. Elements(s) = {Head(s)} \cup Elements(Tail(s))
  <2>1. ASSUME NEW w \in Elements(s) PROVE w \in {Head(s)} \cup Elements(Tail(s))
    <3>1. PICK i \in 1 .. Len(s) : w = s[i]
      BY <1>1 DEF Elements
    <3>2. CASE i = 1
      BY <3>1, <3>2, <1>1
    <3>3. CASE i # 1
      <4>1. i - 1 \in 1 .. Len(s) - 1 /\ (i - 1) + 1 = i
        BY <3>3, <1>1
      <4>2. Tail(s)[i - 1] = w
        BY <4>1, <3>1, <1>1
      <4>3. QED
        BY <4>1, <4>2, <1>1 DEF Elements
    <3>4. QED
      BY <3>2, <3>3
  <2>2. ASSUME NEW w \in Elements(Tail(s)) PROVE w \in Elements(s)
    <3>1. PICK i \in 1 .. Len(s) - 1 : w = Tail(s)[i]
      BY <1>1 DEF Elements
    <3>2. i + 1 \in 1 .. Len(s) /\ s[i + 1] = w
      BY <3>1, <1>1
    <3>3. QED
      BY <1>1, <3>2 DEF Elements
  <2>3. Head(s) \in Elements(s)
    <3>1. 1 \in DOMAIN s /\ Head(s) = s[1]
      BY <1>1
    <3>2. QED
      BY <3>1 DEF Elements
  <2>4. QED
    BY <2>1, <2>2, <2>3
<1>3. QED
  BY <1>1, <1>2

\* An entry of the writes of u has the type of entries, and is of this attempt.
LEMMA EntryFacts ==
  ASSUME Inv, NEW u \in Threads, NEW w \in Elements(writes[u])
  PROVE  /\ w \in Entry /\ w.obj \in Objects /\ w.ver \in Nat /\ w.log \in Logs /\ w.read \in Txs
         /\ w.log[1] = u /\ w.log[2] = attempt[u] /\ w.log[3] \in 1 .. 2
         /\ w.log = <<u, attempt[u], w.log[3]>>
         /\ Fresh(w.obj, w.ver, w.read)
<1>1. w \in Entry
  BY Types, ElementsType
<1>2. w.log = <<u, attempt[u], w.log[3]>> /\ w.log[3] \in 1 .. 2 /\ Fresh(w.obj, w.ver, w.read)
  BY ThreadFacts DEF WritesOK
<1>3. w.obj \in Objects /\ w.ver \in Nat /\ w.log \in Logs /\ w.read \in Txs
  BY <1>1 DEF Entry
<1>4. QED
  BY <1>1, <1>2, <1>3

\* The entry that an owned object leads to.
LEMMA OwnedFacts ==
  ASSUME Inv, NEW o \in Objects, meta[o].owner \in Threads
  PROVE  /\ \E w \in Elements(writes[meta[o].owner]) :
              /\ w.obj = o /\ w.acquired /\ meta[o] = Owned(meta[o].owner, w.log, w.ver)
              /\ w.log = meta[o].log
         /\ meta[o].log \in Logs /\ meta[o].log[1] = meta[o].owner /\ Used(o, meta[o].log)
<1>1. PICK u \in Threads : u = meta[o].owner
  OBVIOUS
<1>2. PICK w \in Elements(writes[u]) : w.obj = o /\ w.acquired /\ meta[o] = Owned(u, w.log, w.ver)
  BY <1>1 DEF Inv, OwnerOK
<1>3. w.log[1] = u /\ w.log[2] = attempt[u] /\ w.log \in Logs /\ w.ver \in Nat
  BY EntryFacts
<1>4. meta[o].log = w.log
  BY <1>2, <1>3, MetaFacts
<1>5. Used(o, w.log)
  BY <1>2, <1>3 DEF Used
<1>6. QED
  BY <1>1, <1>2, <1>3, <1>4, <1>5

-------------------------------------------------------------------------------
(* A step preserves the invariant if it keeps to Others, Metas, UsedStable   *)
(* and NewLock.                                                              *)

\* A version that is Fresh stays so: the contents change only under a lock, and
\* the version when the lock is released.
LEMMA FreshStable ==
  ASSUME Inv, NEW t \in Threads, Metas(t), TypeInv', NEW o \in Objects, NEW v \in Nat, NEW c, Fresh(o, v, c)
  PROVE  Fresh(o, v, c)'
<1>1. meta[o].ver \in Nat /\ meta'[o].ver \in Nat
  BY Types DEF TypeInv, MemoryOK, Meta
<1>2. /\ meta[o].ver <= meta'[o].ver
      /\ data'[o] # data[o] => meta[o].owner = Locked
      /\ meta[o].owner = Locked /\ meta'[o] # meta[o] => meta[o].ver < meta'[o].ver
  BY DEF Metas
<1>3. QED
  BY <1>1, <1>2 DEF Fresh

\* What another thread relies on stays true under a step of t that does what
\* Others, Metas and UsedStable say of it.
LEMMA OtherThreads ==
  ASSUME Inv, NEW t \in Threads, Others(t), Metas(t), UsedStable, TypeInv', mode' = mode, NewLock(t),
         NEW u \in Threads, u # t
  PROVE  ThreadInv(u)'
<1>0. /\ pc'[u] = pc[u] /\ loc'[u] = loc[u] /\ attempt'[u] = attempt[u] /\ writes'[u] = writes[u]
      /\ txState'[u] = txState[u] \/ (txState[u] = "ACTIVE" /\ txState'[u] = "ABORTED")
  BY DEF Others
<1>t. KindOK(u) /\ PhaseOK(u) /\ WritesOK(u) /\ SnapOK(u) /\ RedoOK(u)
  BY ThreadFacts
<1>o. PICK o \in Objects, s \in Meta, c \in Txs : o = loc[u].obj /\ s = loc[u].snap /\ c = loc[u].copy
  BY LocTypes
<1>m. meta \in [Objects -> Meta] /\ s.ver \in Nat /\ s.log \in Logs
  BY Types, MetaFacts
<1>e. /\ EndsOpen(u)' <=> EndsOpen(u)
      /\ EndsCommit(u)' <=> EndsCommit(u)
      /\ Ended(u)' <=> Ended(u)
      /\ Single(u)' <=> Single(u)
      /\ Killed(u) => Killed(u)'
  BY <1>0 DEF EndsOpen, EndsCommit, Ended, Single, Killed
<1>1. KindOK(u)'
  BY <1>0, <1>t DEF KindOK
<1>2. PhaseOK(u)'
  BY <1>0, <1>t, <1>e DEF PhaseOK
<1>3. WritesOK(u)'
  <2>4. ASSUME txState'[u] = "ACTIVE", NEW w \in Elements(writes[u]), w.acquired
        PROVE  meta'[w.obj] = Owned(u, w.log, w.ver)
    <3>1. w.obj \in Objects /\ w.log \in Logs /\ w.ver \in Nat
      BY EntryFacts
    <3>2. meta[w.obj] = Owned(u, w.log, w.ver) /\ txState[u] = "ACTIVE"
      BY <2>4, <1>0, <1>t DEF WritesOK
    <3>3. meta[w.obj].owner = u
      BY <3>1, <3>2, MetaFacts
    <3>4. meta'[w.obj] = meta[w.obj]
      BY <3>1, <3>2, <3>3 DEF Metas
    <3>5. QED
      BY <3>2, <3>4
  <2>5. ASSUME NEW w \in Elements(writes[u]) PROVE Fresh(w.obj, w.ver, w.read)'
    <3>1. w.obj \in Objects /\ w.ver \in Nat /\ Fresh(w.obj, w.ver, w.read)
      BY EntryFacts
    <3>2. QED
      BY <3>1, FreshStable
  <2>6. QED
    BY <1>0, <1>e, <1>t, <2>4, <2>5 DEF WritesOK
<1>4. SnapOK(u)'
  <2>1. ASSUME s.owner \in Threads, s.log[1] = s.owner, Used(o, s.log), meta'[o] = s
        PROVE  /\ meta[o] = s
               /\ txState[s.owner] # "ACTIVE" => txState'[s.owner] = txState[s.owner]
    BY <2>1 DEF Metas
  <2>2. s.owner \in Threads /\ s.log[1] = s.owner /\ Used(o, s.log) => Used(o, s.log)'
    BY <1>m DEF UsedStable
  <2>3. s.ver <= meta[o].ver => s.ver <= meta'[o].ver
    <3>1. meta[o].ver <= meta'[o].ver
      BY DEF Metas
    <3>2. meta[o].ver \in Nat /\ meta'[o].ver \in Nat
      BY Types DEF TypeInv, MemoryOK, Meta
    <3>3. QED
      BY <3>1, <3>2, <1>m
  <2>4. Fresh(o, s.ver, c) => Fresh(o, s.ver, c)'
    BY <1>m, FreshStable
  <2>5. pc[u] \in {"look", "recheck", "decide", "cleanAbort", "lock"} =>
          s.owner \in Threads /\ s.log[1] = s.owner /\ Used(o, s.log)
    BY <1>t, <1>o DEF SnapOK
  <2>6. meta'[o] = s =>
          /\ pc[u] = "recheck" /\ loc[u].state # "ACTIVE" => txState'[s.owner] = loc[u].state
          /\ pc[u] = "cleanAbort" => txState'[s.owner] = "ABORTED"
          /\ pc[u] = "lock" => txState'[s.owner] = "COMMITTED"
    BY <1>t, <1>o, <2>1, <2>5 DEF SnapOK
  <2>7. QED
    BY <1>0, <1>t, <1>o, <2>2, <2>3, <2>4, <2>5, <2>6 DEF SnapOK
<1>5. RedoOK(u)'
  <2>1. ASSUME pc[u] \in {"redo", "release"} PROVE meta'[o] = meta[o] /\ data'[o] = data[o]
    <3>1. meta[o] = LockedBy(s)
      BY <1>t, <1>o, <2>1 DEF RedoOK
    <3>2. meta[o].owner = Locked
      BY <3>1, MetaFacts
    <3>3. ~Applies(t, o)
      BY <1>o, <2>1 DEF Inv, AppliersOK, Applies
    <3>4. QED
      BY <3>2, <3>3 DEF Metas
  <2>2. QED
    BY <1>0, <1>t, <1>o, <2>1 DEF RedoOK
<1>6. QED
  BY <1>1, <1>2, <1>3, <1>4, <1>5 DEF ThreadInv

\* A step of t preserves the invariant if it does to the others what they rely
\* on, and re-establishes what t itself relies on, the owners and the history.
LEMMA StepInv ==
  ASSUME Inv, NEW t \in Threads, Others(t), Metas(t), UsedStable, NewLock(t), mode' = mode,
         TypeInv', ThreadInv(t)', OwnerOK', CommittedOK'
  PROVE  Inv'
<1>1. \A u \in Threads : ThreadInv(u)'
  BY OtherThreads
<1>2. ASSUME NEW u \in Threads, NEW o \in Objects, u # t, Applies(t, o)', Applies(u, o)' PROVE FALSE
  <2>1. Applies(u, o) /\ pc[u] \in {"redo", "release"} /\ loc[u].obj = o
    BY <1>2 DEF Others, Applies
  <2>2. meta[o] = LockedBy(loc[u].snap) /\ loc[u].snap \in Meta
    BY <2>1, ThreadFacts, LocTypes DEF RedoOK
  <2>3. meta[o].owner = Locked
    BY <2>2, MetaFacts
  <2>4. QED
    BY <1>2, <2>1, <2>3 DEF NewLock, Inv, AppliersOK
<1>3. AppliersOK'
  <2>1. ASSUME NEW u \in Threads, NEW r \in Threads, NEW o \in Objects, Applies(u, o)', Applies(r, o)'
        PROVE  u = r
    <3>1. CASE u # t /\ r # t
      BY <2>1, <3>1 DEF Others, Applies, Inv, AppliersOK
    <3>2. QED
      BY <2>1, <3>1, <1>2
  <2>2. QED
    BY <2>1 DEF AppliersOK
<1>4. QED
  BY <1>1, <1>3 DEF Inv

-------------------------------------------------------------------------------
(* Steps that change no memory: the control and the locals, and what the     *)
(* thread remembers.                                                         *)

\* What a step of t leaves when it changes its control and its locals.
Quiet(t, label, l) ==
  /\ pc' = [pc EXCEPT ![t] = label] /\ loc' = [loc EXCEPT ![t] = l]
  /\ UNCHANGED <<meta, data, txState, mode, attempt, writes>>

\* The rest of the state keeps its type, and nothing commits.
Remembers ==
  /\ ReadsOK' /\ HistoryOK' /\ committed' = committed

\* A step that changes the control and the locals of t.
LEMMA QuietStep ==
  ASSUME Inv, NEW t \in Threads, NEW label \in Labels, NEW l \in Locals,
         Quiet(t, label, l), Remembers,
         Ended(t) => Ended(t)', pc'[t] \in {"redo", "release"} => pc[t] \in {"redo", "release"} /\ l.obj = loc[t].obj,
         KindOK(t)', PhaseOK(t)', WritesOK(t)', SnapOK(t)', RedoOK(t)'
  PROVE  Inv'
<1>a. /\ meta' = meta /\ data' = data /\ txState' = txState /\ mode' = mode
      /\ attempt' = attempt /\ writes' = writes /\ committed' = committed
      /\ pc' = [pc EXCEPT ![t] = label] /\ loc' = [loc EXCEPT ![t] = l]
  BY DEF Quiet, Remembers
<1>b. \A u \in Threads \ {t} : pc'[u] = pc[u] /\ loc'[u] = loc[u]
  BY <1>a, Types
<1>c. pc'[t] = label /\ loc'[t] = l
  BY <1>a, Types
<1>d. \A u \in Threads : Ended(u) => Ended(u)'
  BY <1>b DEF Ended
<1>1. Others(t)
  BY <1>a, <1>b DEF Others
<1>2. Metas(t)
  <2>1. \A o \in Objects : meta[o].ver \in Nat
    BY Types, MetaFacts
  <2>2. QED
    BY <1>a, <2>1 DEF Metas
<1>3. UsedStable
  BY <1>a, <1>d DEF UsedStable, Used
<1>4. NewLock(t)
  BY <1>c DEF NewLock, Applies
<1>5. TypeInv'
  <2>1. MemoryOK' /\ ThreadOK'
    BY <1>a, Types DEF MemoryOK, ThreadOK
  <2>2. QED
    BY <2>1 DEF TypeInv, Remembers
<1>6. ThreadInv(t)'
  BY DEF ThreadInv
<1>7. OwnerOK' /\ CommittedOK'
  BY <1>a, <1>d DEF Inv, OwnerOK, CommittedOK
<1>8. QED
  BY <1>1, <1>2, <1>3, <1>4, <1>5, <1>6, <1>7, <1>a, StepInv

\* The parts of WritesOK that depend on the control and the locals.
LEMMA QuietWrites ==
  ASSUME Inv, NEW t \in Threads, NEW label \in Labels, NEW l \in Locals, Quiet(t, label, l),
         Ended(t) => Ended(t)', EndsOpen(t) => EndsOpen(t)' \/ Ended(t)',
         mode.isLazy /\ l.kind = "RW" /\ ~EndsOpen(t)' => \A w \in Elements(writes[t]) : w.obj # l.obj,
         EndsCommit(t)' => \A w \in Elements(writes[t]) : w.acquired,
         label # "acquireLazily",
         ~EndsCommit(t)' /\ ~Ended(t)' => pc[t] # "acquireLazily" /\ ~EndsCommit(t) /\ ~Ended(t),
         label = "idle" \/ l.kind = "UN" => writes[t] = <<>>
  PROVE  WritesOK(t)'
<1>a. /\ meta' = meta /\ data' = data /\ txState' = txState /\ mode' = mode
      /\ attempt' = attempt /\ writes' = writes
  BY DEF Quiet
<1>b. pc'[t] = label /\ loc'[t] = l
  BY Types DEF Quiet
<1>1. Single(t)' <=> Single(t)
  BY <1>a DEF Single
<1>2. Killed(t)' <=> Killed(t)
  BY <1>a DEF Killed
<1>3. WritesOK(t) /\ \A w : Fresh(w.obj, w.ver, w.read)' <=> Fresh(w.obj, w.ver, w.read)
  BY <1>a, ThreadFacts DEF Fresh
<1>4. QED
  BY <1>a, <1>b, <1>1, <1>2, <1>3 DEF WritesOK

\* The counter and what is remembered of it stay, and so do the reads.
LEMMA SameReads ==
  ASSUME Inv, UNCHANGED <<counter, cached, invisReads, began, committed>>
  PROVE  Remembers
<1>1. ReadsOK'
  BY Types DEF ReadsOK
<1>2. HistoryOK'
  BY DEF Inv, TypeInv, HistoryOK
<1>3. QED
  BY <1>1, <1>2 DEF Remembers

\* The counter, or what is remembered of it, or the reads change.
LEMMA NewReads ==
  ASSUME Inv, ReadsOK', UNCHANGED <<began, committed>>
  PROVE  Remembers
<1>1. HistoryOK'
  BY DEF Inv, TypeInv, HistoryOK
<1>2. QED
  BY <1>1 DEF Remembers

\* A log that is Used stays so when no log is put anywhere.
LEMMA UsedQuiet ==
  ASSUME Inv, NEW t \in Threads, NEW label, NEW l, Quiet(t, label, l), Ended(t) => Ended(t)',
         NEW o, NEW log, Used(o, log)
  PROVE  Used(o, log)'
<1>1. /\ attempt' = attempt /\ writes' = writes
      /\ \A u : u # t => Ended(u)' = Ended(u)
  BY Types DEF Quiet, Ended
<1>2. QED
  BY <1>1 DEF Used

\* A step from one statement of the loop of an open to another.
LEMMA LoopStep ==
  ASSUME Inv, NEW t \in Threads,
         NEW label \in {"load", "look", "recheck", "decide", "contend", "cleanAbort", "lock", "clone", "acquire"},
         NEW l \in Locals, Quiet(t, label, l), Remembers,
         pc[t] \in {"load", "look", "recheck", "decide", "contend", "cleanAbort", "lock", "clone", "acquire"},
         l.kind = loc[t].kind, l.obj = loc[t].obj, label \in {"clone", "acquire"} => l.kind = "RW",
         SnapOK(t)'
  PROVE  Inv'
<1>0. KindOK(t) /\ PhaseOK(t) /\ WritesOK(t)
  BY ThreadFacts
<1>a. txState' = txState /\ attempt' = attempt
  BY DEF Quiet
<1>b. pc'[t] = label /\ loc'[t] = l
  BY Types DEF Quiet
<1>1. label \in Labels
  BY DEF Labels
<1>2. (Ended(t)' <=> Ended(t)) /\ ~EndsOpen(t) /\ ~EndsOpen(t)' /\ ~EndsCommit(t)'
  BY <1>b DEF Ended, EndsOpen, EndsCommit
<1>c. ~EndsCommit(t) /\ label # "acquireLazily" /\ pc[t] # "acquireLazily"
  BY DEF EndsCommit
<1>3. KindOK(t)'
  BY <1>0, <1>b DEF KindOK
<1>4. PhaseOK(t)'
  BY <1>0, <1>a, <1>2 DEF PhaseOK
<1>5. WritesOK(t)'
  BY <1>0, <1>1, <1>2, <1>c, QuietWrites DEF WritesOK
<1>6. RedoOK(t)'
  BY <1>b DEF RedoOK
<1>7. QED
  BY <1>1, <1>2, <1>3, <1>4, <1>5, <1>6, <1>b, QuietStep

\* A step back to a statement at which the thread relies on nothing.
LEMMA BackStep ==
  ASSUME Inv, NEW t \in Threads, NEW label \in {"load", "contend"}, NEW l \in Locals,
         Quiet(t, label, l), Remembers,
         pc[t] \in {"load", "look", "recheck", "decide", "contend", "cleanAbort", "lock", "acquire"},
         l.kind = loc[t].kind, l.obj = loc[t].obj
  PROVE  Inv'
<1>1. pc'[t] = label
  BY Types DEF Quiet
<1>2. SnapOK(t)'
  BY <1>1 DEF SnapOK
<1>3. QED
  BY <1>2, LoopStep

\* A step to a statement between two opens, or in the commit.
LEMMA PlainStep ==
  ASSUME Inv, NEW t \in Threads, NEW label \in {"work", "checkField", "acquireLazily", "tryCommit", "force", "cas", "restore"},
         NEW l \in Locals, Quiet(t, label, l), Remembers, l.kind = "none",
         Ended(t) => Ended(t)', Ended(t)' => Ended(t) \/ Killed(t), Killed(t) => ~EndsOpen(t),
         label \in {"tryCommit", "force", "cas"} => \A w \in Elements(writes[t]) : w.acquired,
         label \in {"work", "checkField"} => pc[t] # "acquireLazily" /\ ~EndsCommit(t),
         label = "acquireLazily" => \E w \in Elements(writes[t]) : ~w.acquired
  PROVE  Inv'
<1>0. KindOK(t) /\ PhaseOK(t) /\ WritesOK(t)
  BY ThreadFacts
<1>a. /\ meta' = meta /\ data' = data /\ txState' = txState /\ mode' = mode
      /\ attempt' = attempt /\ writes' = writes
  BY DEF Quiet
<1>b. pc'[t] = label /\ loc'[t] = l
  BY Types DEF Quiet
<1>1. label \in Labels
  BY DEF Labels
<1>2. EndsCommit(t)' => \A w \in Elements(writes[t]) : w.acquired
  BY <1>b DEF EndsCommit
<1>3. KindOK(t)'
  BY <1>b DEF KindOK
<1>4. PhaseOK(t)'
  BY <1>0, <1>a DEF PhaseOK, Killed
<1>5. WritesOK(t)'
  <2>1. Single(t)' <=> Single(t)
    BY <1>a DEF Single
  <2>2. Killed(t)' <=> Killed(t)
    BY <1>a DEF Killed
  <2>3. \A w : Fresh(w.obj, w.ver, w.read)' <=> Fresh(w.obj, w.ver, w.read)
    BY <1>a DEF Fresh
  <2>4. label \in {"tryCommit", "force", "cas"} => EndsCommit(t)'
    BY <1>b DEF EndsCommit
  <2>5. label = "restore" => Ended(t)'
    BY <1>b DEF Ended
  <2>6. QED
    BY <1>0, <1>a, <1>b, <1>2, <2>1, <2>2, <2>3, <2>4, <2>5 DEF WritesOK
<1>6. SnapOK(t)' /\ RedoOK(t)'
  BY <1>b DEF SnapOK, RedoOK
<1>7. QED
  BY <1>1, <1>3, <1>4, <1>5, <1>6, <1>b, QuietStep

\* What Validating does to the control and the locals.
LEMMA ValidatingFacts ==
  ASSUME NEW t \in Threads, pc \in [Threads -> Labels], loc \in [Threads -> Locals],
         NEW todo \in Seq(Pair), NEW goal \in {"opened", "force", "cas"}, Validating(t, todo, goal)
  PROVE  \E l \in Locals, label \in {goal, "validate"} :
           /\ pc' = [pc EXCEPT ![t] = label] /\ loc' = [loc EXCEPT ![t] = l]
           /\ pc'[t] = label /\ loc'[t] = l
           /\ l.obj = loc[t].obj /\ l.kind = loc[t].kind /\ l.snap = loc[t].snap
           /\ l.copy = loc[t].copy
           /\ label = "validate" => l.then = goal /\ l.todo # <<>>
<1>1. loc[t] \in Locals
  OBVIOUS
<1>2. PICK then \in {"work", "opened", "force", "cas"} : then = IF todo = <<>> THEN "work" ELSE goal
  OBVIOUS
<1>3. PICK l \in Locals : l = [loc[t] EXCEPT !.todo = todo, !.then = then]
  BY <1>1 DEF Locals
<1>4. /\ l.obj = loc[t].obj /\ l.kind = loc[t].kind /\ l.snap = loc[t].snap
      /\ l.copy = loc[t].copy /\ l.then = then /\ l.todo = todo
  BY <1>1, <1>3 DEF Locals
<1>5. PICK label \in {goal, "validate"} : label = IF todo = <<>> THEN goal ELSE "validate"
  OBVIOUS
<1>6. pc' = [pc EXCEPT ![t] = label]
  BY <1>5 DEF Validating, GoTo
<1>7. loc' = [loc EXCEPT ![t] = l]
  <2>1. loc' = [loc EXCEPT ![t].todo = todo, ![t].then = then]
    BY <1>2 DEF Validating
  <2>2. QED
    BY <2>1, <1>3
<1>8. pc'[t] = label /\ loc'[t] = l
  BY <1>6, <1>7
<1>9. label = "validate" => then = goal /\ todo # <<>>
  BY <1>2, <1>5
<1>10. QED
  BY <1>4, <1>6, <1>7, <1>8, <1>9

\* A step to a statement that checks an open, or validates in a commit.
LEMMA CheckingStep ==
  ASSUME Inv, NEW t \in Threads, NEW goal \in {"opened", "force", "cas"},
         NEW label \in {goal, "validate", "count", "cache"}, NEW l \in Locals,
         Quiet(t, label, l), Remembers, ~Ended(t),
         label = "validate" => l.then = goal /\ l.todo # <<>>,
         label \in {"count", "cache"} => goal = "opened",
         goal = "opened" => l.kind \in {"RO", "RW"} /\ loc[t].kind # "none",
         goal # "opened" => l.kind = "none" /\ ~EndsOpen(t) /\ \A w \in Elements(writes[t]) : w.acquired
  PROVE  Inv'
<1>0. PhaseOK(t)
  BY ThreadFacts
<1>a. txState' = txState /\ attempt' = attempt
  BY DEF Quiet
<1>b. pc'[t] = label /\ loc'[t] = l
  BY Types DEF Quiet
<1>1. label \in Labels
  BY DEF Labels
<1>2. /\ ~Ended(t)'
      /\ EndsOpen(t)' <=> goal = "opened"
      /\ EndsCommit(t)' <=> goal # "opened"
  BY <1>b DEF Ended, EndsOpen, EndsCommit
<1>3. KindOK(t)'
  BY <1>b DEF KindOK
<1>4. PhaseOK(t)'
  BY <1>0, <1>a, <1>2 DEF PhaseOK
<1>5. WritesOK(t)'
  <2>1. goal = "opened" => pc[t] # "acquireLazily" /\ ~EndsCommit(t)
    BY ThreadFacts DEF KindOK, EndsCommit
  <2>2. label # "acquireLazily"
    OBVIOUS
  <2>3. QED
    BY <1>1, <1>2, <2>1, <2>2, QuietWrites
<1>6. SnapOK(t)' /\ RedoOK(t)'
  BY <1>b DEF SnapOK, RedoOK
<1>7. QED
  BY <1>1, <1>2, <1>3, <1>4, <1>5, <1>6, <1>b, QuietStep

\* A step that goes on to validate a list of pairs.
LEMMA ValidatingStep ==
  ASSUME Inv, NEW t \in Threads, NEW todo \in Seq(Pair), NEW goal \in {"opened", "force", "cas"},
         Validating(t, todo, goal),
         UNCHANGED <<meta, data, txState, mode, attempt, writes>>, Remembers, ~Ended(t),
         goal = "opened" => loc[t].kind \in {"RO", "RW"},
         goal # "opened" => loc[t].kind = "none" /\ ~EndsOpen(t) /\ \A w \in Elements(writes[t]) : w.acquired
  PROVE  Inv'
<1>1. pc \in [Threads -> Labels] /\ loc \in [Threads -> Locals]
  BY Types
<1>2. PICK l \in Locals, label \in {goal, "validate"} :
           /\ pc' = [pc EXCEPT ![t] = label] /\ loc' = [loc EXCEPT ![t] = l]
           /\ l.kind = loc[t].kind
           /\ label = "validate" => l.then = goal /\ l.todo # <<>>
  BY <1>1, ValidatingFacts
<1>3. Quiet(t, label, l)
  BY <1>2 DEF Quiet
<1>4. QED
  BY <1>2, <1>3, CheckingStep

\* The pairs of a list of entries, as a sequence.
LEMMA PairsSeq ==
  ASSUME NEW s \in Seq(Entry)
  PROVE  Pairs(s) \in Seq(Pair)
<1>1. PICK n \in Nat : DOMAIN s = 1 .. n /\ n = Len(s)
  OBVIOUS
<1>2. ASSUME NEW i \in 1 .. n PROVE <<s[i].obj, s[i].ver>> \in Pair
  <2>1. s[i] \in Entry
    BY <1>1
  <2>2. s[i].obj \in Objects /\ s[i].ver \in Nat
    BY <2>1 DEF Entry
  <2>3. QED
    BY <2>2 DEF Pair
<1>3. Pairs(s) = [i \in 1 .. n |-> <<s[i].obj, s[i].ver>>]
  BY <1>1 DEF Pairs
<1>4. [i \in 1 .. n |-> <<s[i].obj, s[i].ver>>] \in [1 .. n -> Pair]
  BY <1>2
<1>5. [1 .. n -> Pair] \subseteq Seq(Pair)
  OBVIOUS
<1>6. QED
  BY <1>3, <1>4, <1>5

\* They are pairs of an object and a version number.
LEMMA PairsType ==
  ASSUME Inv, NEW t \in Threads
  PROVE  /\ invisReads[t] \in Seq(Pair) /\ LazyPairs(t) \in Seq(Pair)
         /\ invisReads[t] \o LazyPairs(t) \in Seq(Pair)
         /\ \A n \in 0 .. Len(invisReads[t]) : SubSeq(invisReads[t], 1, n) \o LazyPairs(t) \in Seq(Pair)
<1>1. invisReads[t] \in Seq(Pair) /\ writes[t] \in Seq(Entry)
  BY Types
<1>3. Pairs(writes[t]) \in Seq(Pair)
  BY <1>1, PairsSeq
<1>4. LazyPairs(t) \in Seq(Pair)
  BY <1>3 DEF LazyPairs
<1>5. ASSUME NEW n \in 0 .. Len(invisReads[t])
      PROVE SubSeq(invisReads[t], 1, n) \o LazyPairs(t) \in Seq(Pair)
  <2>1. SubSeq(invisReads[t], 1, n) \in Seq(Pair)
    BY <1>1
  <2>2. QED
    BY <2>1, <1>4
<1>6. QED
  BY <1>1, <1>4, <1>5

-------------------------------------------------------------------------------
(* The statements that change no memory.                                     *)

\* abort, of a transaction that was killed or that kills itself
\* (Descriptor_redo_lock.h:512-522).
LEMMA AbortStep ==
  ASSUME Inv, NEW t \in Threads, ~Ended(t), Abort(t)
  PROVE  Inv'
<1>0. PhaseOK(t) /\ WritesOK(t)
  BY ThreadFacts
<1>a. /\ meta' = meta /\ data' = data /\ mode' = mode /\ attempt' = attempt /\ writes' = writes
      /\ counter' = counter /\ cached' = cached /\ invisReads' = invisReads
      /\ began' = began /\ committed' = committed
      /\ txState' = [txState EXCEPT ![t] = "ABORTED"]
      /\ loc' = [loc EXCEPT ![t] = NoLocals]
      /\ pc' = [pc EXCEPT ![t] = "restore"]
  BY DEF Abort, GoTo, private
<1>b. txState[t] \in {"ACTIVE", "ABORTED"}
  BY <1>0 DEF PhaseOK
<1>c. /\ pc'[t] = "restore" /\ loc'[t] = NoLocals /\ txState'[t] = "ABORTED"
      /\ \A u \in Threads \ {t} : pc'[u] = pc[u] /\ loc'[u] = loc[u] /\ txState'[u] = txState[u]
  BY <1>a, Types
<1>d. \A u \in Threads : Ended(u) => Ended(u)'
  BY <1>c DEF Ended
<1>1. Others(t)
  BY <1>a, <1>c DEF Others
<1>2. Metas(t)
  <2>1. \A o \in Objects : meta[o].ver \in Nat
    BY Types, MetaFacts
  <2>2. QED
    BY <1>a, <1>b, <1>c, <2>1 DEF Metas
<1>3. UsedStable
  BY <1>a, <1>d DEF UsedStable, Used
<1>4. NewLock(t)
  BY <1>c DEF NewLock, Applies
<1>5. TypeInv'
  <2>1. "restore" \in Labels
    BY DEF Labels
  <2>2. QED
    BY <1>a, <2>1, Types, NoLocalsType
       DEF Inv, TypeInv, MemoryOK, ThreadOK, ReadsOK, HistoryOK, States
<1>6. ThreadInv(t)'
  <2>1. KindOK(t)' /\ PhaseOK(t)' /\ SnapOK(t)' /\ RedoOK(t)'
    BY <1>c, NoLocalsType DEF KindOK, PhaseOK, SnapOK, RedoOK, Ended
  <2>2. WritesOK(t)'
    <3>0. pc'[t] # "acquireLazily"
      BY <1>c
    <3>1. /\ (Single(t)' <=> Single(t)) /\ Killed(t)' /\ Ended(t)' /\ ~EndsOpen(t)' /\ ~EndsCommit(t)'
          /\ loc'[t].kind = "none"
      BY <1>a, <1>c, NoLocalsType DEF Single, Killed, Ended, EndsOpen, EndsCommit
    <3>2. \A w : Fresh(w.obj, w.ver, w.read)' <=> Fresh(w.obj, w.ver, w.read)
      BY <1>a DEF Fresh
    <3>3. QED
      BY <3>0, <3>1, <3>2, <1>a, <1>0, <1>c DEF WritesOK
  <2>3. QED
    BY <2>1, <2>2 DEF ThreadInv
<1>7. OwnerOK' /\ CommittedOK'
  BY <1>a, <1>d DEF Inv, OwnerOK, CommittedOK
<1>8. QED
  BY <1>1, <1>2, <1>3, <1>4, <1>5, <1>6, <1>7, <1>a, StepInv

\* The start of an open in a transaction (Descriptor_redo_lock.h:1075-1096).
LEMMA OpenStep ==
  ASSUME Inv, NEW t \in Threads, NEW o \in Objects, NEW kind \in {"RO", "RW"}, Open(t, o, kind)
  PROVE  Inv'
<1>0. PhaseOK(t) /\ KindOK(t)
  BY ThreadFacts
<1>1. pc[t] = "work" /\ ~Ended(t) /\ ~EndsOpen(t) /\ ~EndsCommit(t)
  BY <1>0 DEF Open, Ended, EndsOpen, EndsCommit, KindOK
<1>2. CASE Killed(t)
  BY <1>1, <1>2, AbortStep DEF Open
<1>3. CASE ~Killed(t)
  <2>1. PICK l \in Locals : l = Start(o, kind) /\ l.obj = o /\ l.kind = kind
    BY StartType
  <2>2. Quiet(t, "load", l) /\ UNCHANGED <<counter, cached, invisReads, began, committed>>
    BY <2>1, <1>3 DEF Open, Start, GoTo, Quiet, shared, private, history
  <2>3. \A w \in Elements(writes[t]) : mode.isLazy => w.obj # o
    BY DEF Open, IsWriteOf, Elements
  <2>4. Remembers
    BY <2>2, SameReads
  <2>a. txState' = txState /\ attempt' = attempt
    BY <2>2 DEF Quiet
  <2>b. pc'[t] = "load" /\ loc'[t] = l
    BY <2>2, Types DEF Quiet
  <2>5. "load" \in Labels
    BY DEF Labels
  <2>6. ~Ended(t)' /\ ~EndsOpen(t)' /\ ~EndsCommit(t)'
    BY <2>1, <2>b DEF Ended, EndsOpen, EndsCommit
  <2>7. KindOK(t)' /\ PhaseOK(t)'
    BY <1>0, <1>1, <2>1, <2>a, <2>b, <2>6 DEF KindOK, PhaseOK
  <2>8. WritesOK(t)'
    BY <1>1, <2>1, <2>2, <2>3, <2>5, <2>6, QuietWrites
  <2>9. SnapOK(t)' /\ RedoOK(t)'
    BY <2>b DEF SnapOK, RedoOK
  <2>10. QED
    BY <1>1, <2>2, <2>4, <2>5, <2>6, <2>7, <2>8, <2>9, <2>b, QuietStep
<1>4. QED
  BY <1>2, <1>3

\* open_un, outside transactions (Descriptor_redo_lock.h:1280-1297).
LEMMA OpenUnStep ==
  ASSUME Inv, NEW t \in Threads, NEW o \in Objects, OpenUn(t, o)
  PROVE  Inv'
<1>0. PhaseOK(t) /\ WritesOK(t)
  BY ThreadFacts
<1>1. pc[t] = "idle" /\ Ended(t) /\ ~EndsOpen(t)
  BY DEF OpenUn, Ended, EndsOpen
<1>2. PICK l \in Locals : l = Start(o, "UN") /\ l.obj = o /\ l.kind = "UN"
  BY StartType
<1>3. Quiet(t, "load", l) /\ UNCHANGED <<counter, cached, invisReads, began, committed>>
  BY <1>2 DEF OpenUn, Start, GoTo, Quiet, shared, private, history
<1>4. Remembers
  BY <1>3, SameReads
<1>a. txState' = txState /\ attempt' = attempt
  BY <1>3 DEF Quiet
<1>b. pc'[t] = "load" /\ loc'[t] = l
  BY <1>3, Types DEF Quiet
<1>5. "load" \in Labels
  BY DEF Labels
<1>6. Ended(t)' /\ ~EndsOpen(t)' /\ ~EndsCommit(t)'
  BY <1>2, <1>b DEF Ended, EndsOpen, EndsCommit
<1>7. KindOK(t)' /\ PhaseOK(t)'
  BY <1>0, <1>1, <1>2, <1>a, <1>b, <1>6 DEF KindOK, PhaseOK
<1>8. WritesOK(t)'
  BY <1>0, <1>1, <1>2, <1>3, <1>5, <1>6, QuietWrites DEF WritesOK
<1>9. SnapOK(t)' /\ RedoOK(t)'
  BY <1>b DEF SnapOK, RedoOK
<1>10. QED
  BY <1>1, <1>3, <1>4, <1>5, <1>6, <1>7, <1>8, <1>9, <1>b, QuietStep

\* The contention manager has answered, and the loop starts again
\* (Descriptor_redo_lock.h:1144-1148).
LEMMA ContendStep ==
  ASSUME Inv, NEW t \in Threads, Contend(t)
  PROVE  Inv'
<1>1. pc[t] = "contend"
  BY DEF Contend
<1>2. CASE loc[t].kind # "UN" /\ Killed(t)
  <2>1. ~Ended(t)
    BY <1>1, <1>2 DEF Ended
  <2>2. QED
    BY <1>2, <2>1, AbortStep DEF Contend
<1>3. CASE ~(loc[t].kind # "UN" /\ Killed(t))
  <2>0. loc[t].obj \in Objects /\ loc[t].kind \in {"RO", "RW", "UN"}
    BY <1>1, LocTypes, ThreadFacts DEF KindOK
  <2>1. PICK l \in Locals : /\ l = Start(loc[t].obj, loc[t].kind)
                            /\ l.obj = loc[t].obj /\ l.kind = loc[t].kind
    BY <2>0, StartType
  <2>2. Quiet(t, "load", l) /\ UNCHANGED <<counter, cached, invisReads, began, committed>>
    BY <2>1, <1>3 DEF Contend, Start, GoTo, Quiet, shared, private, history
  <2>3. Remembers
    BY <2>2, SameReads
  <2>4. QED
    BY <1>1, <2>1, <2>2, <2>3, BackStep
<1>4. QED
  BY <1>2, <1>3

\* The contention manager says to wait (Descriptor_redo_lock.h:1001-1012).
LEMMA GiveWayStep ==
  ASSUME Inv, NEW t \in Threads, GiveWay(t)
  PROVE  Inv'
<1>1. PICK l \in Locals : l = loc[t]
  BY Types
<1>2. pc[t] = "decide" /\ Quiet(t, "contend", l) /\ UNCHANGED <<counter, cached, invisReads, began, committed>>
  BY <1>1, Types DEF GiveWay, OnlyGoTo, GoTo, Quiet, shared, private, history
<1>3. Remembers
  BY <1>2, SameReads
<1>4. QED
  BY <1>1, <1>2, <1>3, BackStep

\* One pair is validated (Descriptor_redo_lock.h:697-707).
LEMMA ValidateStep ==
  ASSUME Inv, NEW t \in Threads, Validate(t)
  PROVE  Inv'
<1>0. KindOK(t) /\ WritesOK(t)
  BY ThreadFacts
<1>1. /\ pc[t] = "validate" /\ loc[t].todo # <<>> /\ loc[t].todo \in Seq(Pair)
      /\ \/ loc[t].then = "opened" /\ loc[t].kind \in {"RO", "RW"}
         \/ loc[t].then \in {"force", "cas"} /\ loc[t].kind = "none"
  BY <1>0, LocTypes DEF Validate, KindOK
<1>2. ~Ended(t)
  BY <1>1 DEF Ended
<1>p. PICK todo \in Seq(Pair), goal \in {"opened", "force", "cas"} :
        todo = Tail(loc[t].todo) /\ goal = loc[t].then
  BY <1>1, ElementsTail
<1>3. CASE Abort(t)
  BY <1>2, <1>3, AbortStep
<1>4. CASE ~Abort(t)
  <2>1. Validating(t, todo, goal) /\ UNCHANGED <<shared, private, history>>
    BY <1>4, <1>p DEF Validate
  <2>2. /\ UNCHANGED <<meta, data, txState, mode, attempt, writes>>
        /\ UNCHANGED <<counter, cached, invisReads, began, committed>>
    BY <2>1 DEF shared, private, history
  <2>3. Remembers
    BY <2>2, SameReads
  <2>4. goal # "opened" => ~EndsOpen(t) /\ \A w \in Elements(writes[t]) : w.acquired
    BY <1>0, <1>1, <1>p DEF WritesOK, EndsOpen, EndsCommit
  <2>5. QED
    BY <1>1, <1>2, <1>p, <2>1, <2>2, <2>3, <2>4, ValidatingStep
<1>5. QED
  BY <1>3, <1>4

\* shouldValidate looks at the commit counter (ConflictDetector.h:80-83).
LEMMA CheckCounterStep ==
  ASSUME Inv, NEW t \in Threads, CheckCounter(t)
  PROVE  Inv'
<1>1. PICK l \in Locals : l = loc[t]
  BY Types
<1>2. pc[t] = "count" /\ l.kind \in {"RO", "RW"} /\ ~Ended(t)
  BY <1>1, ThreadFacts DEF CheckCounter, KindOK, Ended
<1>3. PICK label \in {"opened", "cache"} : label = IF cached[t] = counter THEN "opened" ELSE "cache"
  OBVIOUS
<1>4. Quiet(t, label, l) /\ UNCHANGED <<counter, cached, invisReads, began, committed>>
  BY <1>1, <1>3, Types DEF CheckCounter, OnlyGoTo, GoTo, Quiet, shared, private, history
<1>5. Remembers
  BY <1>4, SameReads
<1>6. QED
  BY <1>1, <1>2, <1>4, <1>5, CheckingStep

\* It remembers the counter, and validates (ConflictDetector.h:85-87).
LEMMA CacheCounterStep ==
  ASSUME Inv, NEW t \in Threads, CacheCounter(t)
  PROVE  Inv'
<1>1. pc[t] = "cache" /\ loc[t].kind \in {"RO", "RW"} /\ ~Ended(t)
  BY ThreadFacts DEF CacheCounter, KindOK, Ended
<1>2. PICK todo \in Seq(Pair) : todo = invisReads[t] \o LazyPairs(t)
  BY PairsType
<1>3. /\ Validating(t, todo, "opened")
      /\ UNCHANGED <<meta, data, txState, mode, attempt, writes>>
      /\ UNCHANGED <<counter, invisReads, began, committed>>
      /\ cached' = [cached EXCEPT ![t] = counter]
  BY <1>2 DEF CacheCounter, shared, history
<1>r. ReadsOK'
  BY <1>3, Types DEF ReadsOK
<1>4. Remembers
  BY <1>3, Types, <1>r, NewReads
<1>5. QED
  BY <1>1, <1>3, <1>4, ValidatingStep

-------------------------------------------------------------------------------
(* The loop of an open, and the getters.                                     *)

\* The snapshot is taken: its log is in the metadata (Descriptor_redo_lock.h:951-981).
LEMMA LoadStep ==
  ASSUME Inv, NEW t \in Threads, Load(t)
  PROVE  Inv'
<1>0. KindOK(t) /\ PhaseOK(t) /\ WritesOK(t)
  BY ThreadFacts
<1>o. PICK o \in Objects, s \in Meta : o = loc[t].obj /\ s = meta[o]
  BY LocTypes
<1>s. s.ver \in Nat /\ s.owner \in {Free, Locked} \cup Threads /\ Free # Locked
  BY MetaFacts
<1>1. /\ pc[t] = "load" /\ ~EndsOpen(t) /\ loc[t].kind \in {"RO", "RW", "UN"}
      /\ Ended(t) <=> loc[t].kind = "UN"
  BY <1>0, LocTypes DEF Load, Ended, EndsOpen, KindOK
<1>2. /\ UNCHANGED <<meta, data, txState, mode, attempt, writes>>
      /\ UNCHANGED <<counter, cached, began, committed>>
  BY DEF Load, shared, history
<1>3. CASE s.owner = Free /\ loc[t].kind = "RO"
  <2>1. InsertInvisRead(t, o, s.ver)
    BY <1>3, <1>o DEF Load
  <2>2. invisReads' \in [Threads -> Seq(Pair)]
    <3>1. <<o, s.ver>> \in Pair
      BY <1>s DEF Pair
    <3>2. Append(invisReads[t], <<o, s.ver>>) \in Seq(Pair) /\ invisReads[t] \in Seq(Pair)
      BY <3>1, Types
    <3>3. \/ invisReads' = [invisReads EXCEPT ![t] = Append(invisReads[t], <<o, s.ver>>)]
          \/ invisReads' = [invisReads EXCEPT ![t] = invisReads[t]]
      BY <2>1 DEF InsertInvisRead
    <3>4. QED
      BY <3>2, <3>3, Types
  <2>r. ReadsOK'
    BY <1>2, <2>2, Types DEF ReadsOK
  <2>3. Remembers
    BY <1>2, <2>2, Types, <2>r, NewReads
  <2>4. CASE mode.counts
    <3>1. PICK l \in Locals : l = loc[t]
      BY Types
    <3>2. Quiet(t, "count", l)
      BY <2>1, <2>4, <1>2, <3>1, Types DEF InsertInvisRead, GoTo, Quiet
    <3>3. QED
      BY <1>1, <1>3, <2>3, <3>1, <3>2, CheckingStep
  <2>5. CASE ~mode.counts
    <3>1. PICK upTo : /\ Validating(t, SubSeq(invisReads[t], 1, upTo) \o LazyPairs(t), "opened")
                      /\ upTo \in 0 .. Len(invisReads[t])
      <4> DEFINE known == {i \in DOMAIN invisReads[t] : invisReads[t][i][1] = o}
                 upTo == IF known = {} THEN Len(invisReads[t])
                         ELSE CHOOSE i \in known : \A k \in known : i <= k
      <4>0. PICK m \in Nat : m = Len(invisReads[t]) /\ DOMAIN invisReads[t] = 1 .. m
        BY Types
      <4>1. known # {} => upTo \in known
        <5>1. known \subseteq Nat
          BY <4>0
        <5> HIDE DEF known
        <5>2. known # {} => \E i \in known : \A k \in known : i <= k
          BY <5>1, NatLeast
        <5>3. QED
          BY <5>2
      <4>2. upTo \in 0 .. m
        BY <4>0, <4>1
      <4>3. Validating(t, SubSeq(invisReads[t], 1, upTo) \o LazyPairs(t), "opened")
        BY <2>1, <2>5 DEF InsertInvisRead
      <4>4. QED
        BY <4>0, <4>2, <4>3
    <3>2. PICK todo \in Seq(Pair) : todo = SubSeq(invisReads[t], 1, upTo) \o LazyPairs(t)
      BY <3>1, PairsType
    <3>3. Validating(t, todo, "opened")
      BY <3>1, <3>2
    <3>4. QED
      BY <1>1, <1>2, <1>3, <2>3, <3>3, ValidatingStep
  <2>6. QED
    BY <2>4, <2>5
<1>4. CASE s.owner = Free /\ loc[t].kind = "UN"
  <2>1. PICK l \in Locals : l = NoLocals /\ l.kind = "none"
    BY NoLocalsType
  <2>2. Quiet(t, "idle", l) /\ invisReads' = invisReads
    BY <1>2, <1>4, <1>o, <2>1 DEF Load, GoTo, Quiet
  <2>3. Remembers
    BY <1>2, <2>2, SameReads
  <2>4. "idle" \in Labels /\ pc'[t] = "idle" /\ loc'[t] = l
    BY <2>2, Types DEF Labels, Quiet
  <2>5. Ended(t)' /\ ~EndsCommit(t)' /\ ~EndsOpen(t)'
    BY <2>4, <2>1 DEF Ended, EndsCommit, EndsOpen
  <2>6. KindOK(t)'
    BY <2>4, <2>1 DEF KindOK
  <2>7. PhaseOK(t)'
    BY <1>0, <1>1, <1>2, <1>4, <2>5 DEF PhaseOK
  <2>8. WritesOK(t)'
    <3>1. writes[t] = <<>>
      BY <1>0, <1>4 DEF WritesOK
    <3>2. QED
      BY <1>1, <2>1, <2>2, <2>4, <2>5, <3>1, QuietWrites
  <2>9. SnapOK(t)' /\ RedoOK(t)'
    BY <2>4 DEF SnapOK, RedoOK
  <2>10. QED
    BY <2>2, <2>3, <2>4, <2>5, <2>6, <2>7, <2>8, <2>9, QuietStep
<1>5. CASE ~(s.owner = Free /\ loc[t].kind = "RO") /\ ~(s.owner = Free /\ loc[t].kind = "UN")
  <2>l. loc[t] \in Locals
    BY Types
  <2>1. PICK l \in Locals : /\ l = [loc[t] EXCEPT !.snap = s]
                            /\ l.obj = o /\ l.kind = loc[t].kind /\ l.snap = s
    BY <2>l, NewSnap, <1>o
  <2>2. PICK label \in {"clone", "contend", "look"} :
          label = CASE s.owner = Free    -> "clone"
                    [] s.owner = Locked  -> "contend"
                    [] s.owner \in Threads -> "look"
    BY <1>s
  <2>3. /\ label = "clone" => s.owner = Free
        /\ label = "look" => s.owner \in Threads
    BY <2>2, <1>s, MetaFacts
  <2>4. Quiet(t, label, l) /\ invisReads' = invisReads
    BY <1>2, <1>5, <1>o, <2>1, <2>2 DEF Load, GoTo, Quiet
  <2>5. Remembers
    BY <1>2, <2>4, SameReads
  <2>6. pc'[t] = label /\ loc'[t] = l
    BY <2>4, Types DEF Quiet
  <2>7. Ended(t) => Ended(t)'
    BY <1>1, <2>1, <2>6 DEF Ended
  <2>8. SnapOK(t)'
    <3>1. label = "look" => s.log \in Logs /\ s.log[1] = s.owner /\ Used(o, s.log)
      BY <2>3, <1>o, OwnedFacts
    <3>2. label = "look" => Used(o, s.log)'
      BY <2>4, <2>7, <3>1, UsedQuiet
    <3>3. label = "clone" => s.owner = Free /\ s.ver <= meta'[o].ver
      BY <2>3, <1>2, <1>o, <1>s
    <3>4. QED
      BY <2>1, <2>3, <2>6, <3>1, <3>2, <3>3 DEF SnapOK
  <2>9. label = "clone" => l.kind = "RW"
    BY <1>1, <1>5, <2>1, <2>3
  <2>10. QED
    BY <1>1, <1>o, <2>1, <2>4, <2>5, <2>8, <2>9, LoopStep
<1>6. QED
  BY <1>3, <1>4, <1>5

\* The owner's state is loaded (Descriptor_redo_lock.h:1127-1135).
LEMMA LookAtOwnerStep ==
  ASSUME Inv, NEW t \in Threads, LookAtOwner(t)
  PROVE  Inv'
<1>0. PhaseOK(t) /\ SnapOK(t)
  BY ThreadFacts
<1>o. PICK o \in Objects, s \in Meta : o = loc[t].obj /\ s = loc[t].snap
  BY LocTypes
<1>1. pc[t] = "look" /\ s.owner \in Threads /\ s.log[1] = s.owner /\ Used(o, s.log)
  BY <1>0, <1>o DEF LookAtOwner, SnapOK
<1>2. PICK st \in States : st = txState[s.owner]
  BY <1>1, Types
<1>l. loc[t] \in Locals
  BY Types
<1>3. PICK l \in Locals : /\ l = [loc[t] EXCEPT !.state = st]
                          /\ l.obj = o /\ l.kind = loc[t].kind /\ l.snap = s /\ l.state = st
  BY <1>l, NewState, <1>o
<1>4. /\ Quiet(t, "recheck", l)
      /\ UNCHANGED <<counter, cached, invisReads, began, committed>>
  BY <1>o, <1>2, <1>3 DEF LookAtOwner, GoTo, Quiet, shared, private, history
<1>5. Remembers
  BY <1>4, SameReads
<1>6. pc'[t] = "recheck" /\ loc'[t] = l /\ txState' = txState
  BY <1>4, Types DEF Quiet
<1>7. Ended(t) => Ended(t)'
  BY <1>1, <1>3, <1>6 DEF Ended
<1>8. SnapOK(t)'
  <2>1. Used(o, s.log)'
    BY <1>1, <1>4, <1>7, UsedQuiet
  <2>2. l.kind = "UN" /\ s.owner = t => st # "ACTIVE"
    BY <1>0, <1>2, <1>3 DEF PhaseOK, Ended
  <2>3. QED
    BY <1>1, <1>2, <1>3, <1>6, <2>1, <2>2 DEF SnapOK
<1>9. QED
  BY <1>1, <1>o, <1>3, <1>4, <1>5, <1>8, LoopStep

\* The metadata are compared with the snapshot, and the loop decides
\* (Descriptor_redo_lock.h:987-1004).
LEMMA RecheckStep ==
  ASSUME Inv, NEW t \in Threads, Recheck(t)
  PROVE  Inv'
<1>0. KindOK(t) /\ PhaseOK(t) /\ SnapOK(t)
  BY ThreadFacts
<1>o. PICK o \in Objects, s \in Meta : o = loc[t].obj /\ s = loc[t].snap
  BY LocTypes
<1>1. /\ pc[t] = "recheck" /\ s.owner \in Threads /\ s.log[1] = s.owner /\ Used(o, s.log)
      /\ loc[t].kind # "none" /\ ~EndsOpen(t) /\ (Ended(t) <=> loc[t].kind = "UN")
      /\ loc[t].kind = "UN" /\ s.owner = t => loc[t].state # "ACTIVE"
      /\ meta[o] = s /\ loc[t].state # "ACTIVE" => txState[s.owner] = loc[t].state
  BY <1>0, <1>o DEF Recheck, SnapOK, KindOK, EndsOpen, Ended
<1>2. PICK label \in {"load", "work", "decide", "cleanAbort", "lock"} :
        /\ pc' = [pc EXCEPT ![t] = label]
        /\ loc' = [loc EXCEPT ![t] = IF label = "work" THEN NoLocals ELSE @]
        /\ label = "work" => loc[t].state = "ACTIVE" /\ s.owner = t
        /\ label = "cleanAbort" => meta[o] = s /\ loc[t].state = "ABORTED"
        /\ label = "lock" => meta[o] = s /\ loc[t].state = "COMMITTED"
  <2>1. loc[t].state \in States
    BY LocTypes
  <2>2. CASE ~IsSnapshot(t)
    BY <2>2, <1>o DEF Recheck, GoTo
  <2>3. CASE IsSnapshot(t)
    BY <2>1, <2>3, <1>o DEF Recheck, GoTo, IsSnapshot, States
  <2>4. QED
    BY <2>2, <2>3
<1>3. /\ UNCHANGED <<meta, data, txState, mode, attempt, writes>>
      /\ UNCHANGED <<counter, cached, invisReads, began, committed>>
  BY DEF Recheck, shared, private, history
<1>4. Remembers
  BY <1>3, SameReads
<1>5. CASE label = "work"
  <2>1. PICK l \in Locals : l = NoLocals /\ l.kind = "none"
    BY NoLocalsType
  <2>2. Quiet(t, "work", l)
    BY <1>2, <1>3, <1>5, <2>1 DEF Quiet
  <2>3. ~Ended(t) /\ ~EndsCommit(t)
    BY <1>1, <1>2, <1>5 DEF EndsCommit
  <2>4. pc'[t] = "work" /\ loc'[t] = l
    BY <2>2, Types DEF Quiet
  <2>5. ~Ended(t)'
    BY <2>1, <2>4 DEF Ended
  <2>6. QED
    BY <1>1, <1>4, <2>1, <2>2, <2>3, <2>5, PlainStep
<1>6. CASE label # "work"
  <2>1. PICK l \in Locals : l = loc[t]
    BY Types
  <2>2. Quiet(t, label, l)
    BY <1>2, <1>3, <1>6, <2>1 DEF Quiet
  <2>3. pc'[t] = label /\ loc'[t] = l
    BY <2>2, Types DEF Quiet
  <2>4. Ended(t) => Ended(t)'
    BY <1>1, <2>1, <2>3 DEF Ended
  <2>5. Used(o, s.log)'
    BY <1>1, <2>2, <2>4, UsedQuiet, <1>2 DEF Labels
  <2>6. SnapOK(t)'
    BY <1>1, <1>2, <1>3, <1>6, <1>o, <2>1, <2>3, <2>5 DEF SnapOK
  <2>7. QED
    BY <1>1, <1>4, <1>6, <2>1, <2>2, <2>6, LoopStep
<1>7. QED
  BY <1>5, <1>6

\* A getter loads a field (accessors.h:52-61).
LEMMA ReadFieldStep ==
  ASSUME Inv, NEW t \in Threads, ReadField(t)
  PROVE  Inv'
<1>1. /\ pc[t] = "work" /\ pc' = [pc EXCEPT ![t] = "checkField"]
      /\ UNCHANGED <<meta, data, txState, mode, attempt, writes>>
      /\ UNCHANGED <<counter, cached, invisReads, began, committed>>
  BY DEF ReadField, GoTo, shared, private, history
<1>2. PICK i \in DOMAIN invisReads[t] :
        loc' = [loc EXCEPT ![t].obj = invisReads[t][i][1], ![t].snap = Unowned(invisReads[t][i][2]),
                           ![t].copy = data[invisReads[t][i][1]]]
  BY DEF ReadField
<1>3. PICK o \in Objects, v \in Nat : o = invisReads[t][i][1] /\ v = invisReads[t][i][2]
  <2>1. invisReads[t][i] \in Pair
    BY Types
  <2>2. QED
    BY <2>1 DEF Pair
<1>4. PICK s \in Meta, c \in Txs : s = Unowned(v) /\ c = data[o]
  BY MetaFacts, Types
<1>l. loc[t] \in Locals
  BY Types
<1>f. [loc[t] EXCEPT !.obj = o, !.snap = s, !.copy = c] \in Locals
  BY <1>l DEF Locals
<1>g. PICK l \in Locals : l = [loc[t] EXCEPT !.obj = o, !.snap = s, !.copy = c]
  BY <1>f
<1>5. l.kind = loc[t].kind
  BY <1>l, <1>g DEF Locals
<1>6. Quiet(t, "checkField", l)
  BY <1>1, <1>2, <1>3, <1>4, <1>g DEF Quiet
<1>7. Remembers
  BY <1>1, SameReads
<1>8. l.kind = "none" /\ pc'[t] = "checkField" /\ loc'[t] = l
  BY <1>1, <1>5, <1>6, ThreadFacts, Types DEF KindOK, Quiet
<1>9. ~Ended(t) /\ ~Ended(t)' /\ ~EndsOpen(t) /\ ~EndsCommit(t)
  BY <1>1, <1>8, ThreadFacts DEF Ended, EndsOpen, EndsCommit, KindOK
<1>10. QED
  BY <1>1, <1>6, <1>7, <1>8, <1>9, PlainStep

\* The validator looks at the version (Descriptor_redo_lock.h:446-474).
LEMMA CheckFieldStep ==
  ASSUME Inv, NEW t \in Threads, CheckField(t)
  PROVE  Inv'
<1>1. pc[t] = "checkField" /\ ~Ended(t) /\ ~EndsOpen(t) /\ ~EndsCommit(t)
  BY ThreadFacts DEF CheckField, Ended, EndsOpen, EndsCommit, KindOK
<1>2. CASE Abort(t)
  BY <1>1, <1>2, AbortStep
<1>3. CASE ~Abort(t)
  <2>1. PICK l \in Locals : l = NoLocals /\ l.kind = "none"
    BY NoLocalsType
  <2>2. Quiet(t, "work", l) /\ UNCHANGED <<counter, cached, invisReads, began, committed>>
    BY <1>3, <2>1 DEF CheckField, GoTo, Quiet, shared, private
  <2>3. Remembers
    BY <2>2, SameReads
  <2>4. ~Ended(t)'
    BY <2>1, <2>2, Types DEF Ended, Quiet
  <2>5. QED
    BY <1>1, <2>1, <2>2, <2>3, <2>4, PlainStep
<1>4. QED
  BY <1>2, <1>3

\* Early release (Descriptor_redo_lock.h:1383-1394).
LEMMA ReleaseStep ==
  ASSUME Inv, NEW t \in Threads, Release(t)
  PROVE  Inv'
<1>1. /\ pc[t] = "work" /\ pc' = pc /\ loc' = loc
      /\ UNCHANGED <<meta, data, txState, mode, attempt, writes>>
      /\ UNCHANGED <<counter, cached, began, committed>>
  BY DEF Release, shared
<1>2. PICK i \in DOMAIN invisReads[t] : invisReads' = [invisReads EXCEPT ![t] = RemoveAt(invisReads[t], i)]
  BY DEF Release
<1>3. RemoveAt(invisReads[t], i) \in Seq(Pair)
  <2>1. PICK s \in Seq(Pair), n \in Nat : s = invisReads[t] /\ n = Len(s) /\ DOMAIN s = 1 .. n
    BY Types
  <2>2. SubSeq(s, 1, i - 1) \in Seq(Pair)
    BY <2>1
  <2>3. SubSeq(s, i + 1, n) \in Seq(Pair)
    BY <2>1
  <2>4. QED
    BY <2>1, <2>2, <2>3 DEF RemoveAt
<1>r. ReadsOK'
  BY <1>1, <1>2, <1>3, Types DEF ReadsOK
<1>4. Remembers
  BY <1>1, <1>2, <1>3, Types, <1>r, NewReads
<1>5. PICK l \in Locals : l = loc[t] /\ l.kind = "none"
  BY <1>1, Types, ThreadFacts DEF KindOK
<1>6. Quiet(t, "work", l)
  BY <1>1, <1>5, Types DEF Quiet
<1>7. ~Ended(t) /\ ~Ended(t)' /\ ~EndsOpen(t) /\ ~EndsCommit(t)
  BY <1>1, <1>5 DEF Ended, EndsOpen, EndsCommit
<1>8. QED
  BY <1>1, <1>4, <1>5, <1>6, <1>7, PlainStep

\* The object is cloned (Descriptor_redo_lock.h:1174-1186).
LEMMA CloneStep ==
  ASSUME Inv, NEW t \in Threads, Clone(t), loc[t].kind = "RW"
  PROVE  Inv'
<1>0. SnapOK(t)
  BY ThreadFacts
<1>o. PICK o \in Objects, s \in Meta, c \in Txs : o = loc[t].obj /\ s = loc[t].snap /\ c = data[o]
  BY LocTypes
<1>1. pc[t] = "clone" /\ s.owner = Free /\ s.ver <= meta[o].ver
  BY <1>0, <1>o DEF Clone, SnapOK
<1>l. loc[t] \in Locals
  BY Types
<1>2. PICK l \in Locals : /\ l = [loc[t] EXCEPT !.copy = c]
                          /\ l.obj = o /\ l.kind = loc[t].kind /\ l.snap = s /\ l.copy = c
  BY <1>l, NewCopy, <1>o
<1>3. /\ Quiet(t, "acquire", l)
      /\ UNCHANGED <<counter, cached, invisReads, began, committed>>
  BY <1>o, <1>2 DEF Clone, GoTo, Quiet, shared, private, history
<1>4. Remembers
  BY <1>3, SameReads
<1>5. pc'[t] = "acquire" /\ loc'[t] = l /\ meta' = meta /\ data' = data
  BY <1>3, Types DEF Quiet
<1>6. Fresh(o, s.ver, c)'
  BY <1>1, <1>5, <1>o DEF Fresh
<1>7. SnapOK(t)'
  BY <1>1, <1>2, <1>5, <1>6 DEF SnapOK
<1>8. QED
  BY <1>1, <1>o, <1>2, <1>3, <1>4, <1>7, LoopStep

\* The end of an open (Descriptor_redo_lock.h:1219-1230).
LEMMA OpenedStep ==
  ASSUME Inv, NEW t \in Threads, Opened(t)
  PROVE  Inv'
<1>1. pc[t] = "opened" /\ ~Ended(t) /\ ~EndsCommit(t)
  BY ThreadFacts DEF Opened, Ended, EndsCommit, KindOK
<1>2. CASE Killed(t)
  BY <1>1, <1>2, AbortStep DEF Opened
<1>3. CASE ~Killed(t)
  <2>1. PICK l \in Locals : l = NoLocals /\ l.kind = "none"
    BY NoLocalsType
  <2>2. Quiet(t, "work", l) /\ UNCHANGED <<counter, cached, invisReads, began, committed>>
    BY <1>3, <2>1 DEF Opened, GoTo, Quiet, shared, private
  <2>3. Remembers
    BY <2>2, SameReads
  <2>4. ~Ended(t)'
    BY <2>1, <2>2, Types DEF Ended, Quiet
  <2>5. QED
    BY <1>1, <1>3, <2>1, <2>2, <2>3, <2>4, PlainStep
<1>4. QED
  BY <1>2, <1>3

-------------------------------------------------------------------------------
(* The commit, up to the CAS.                                                *)

\* The list of reads is validated, and then comes forceCommit or the CAS
\* (Descriptor_redo_lock.h:686-690).
LEMMA VerifyStep ==
  ASSUME Inv, NEW t \in Threads, VerifyInvisReads(t),
         UNCHANGED <<meta, data, txState, mode, attempt, writes>>, Remembers,
         ~Ended(t), ~EndsOpen(t), loc[t].kind = "none", \A w \in Elements(writes[t]) : w.acquired
  PROVE  Inv'
<1>1. PICK todo \in Seq(Pair), goal \in {"force", "cas"} :
        todo = invisReads[t] /\ goal = IF mode.counts /\ writes[t] # <<>> THEN "force" ELSE "cas"
  BY Types
<1>2. Validating(t, todo, goal)
  BY <1>1 DEF VerifyInvisReads
<1>3. QED
  BY <1>2, ValidatingStep

\* commit, up to the first load or CAS of another word
\* (Descriptor_redo_lock.h:672-684).
LEMMA CommitStep ==
  ASSUME Inv, NEW t \in Threads, Commit(t)
  PROVE  Inv'
<1>0. KindOK(t) /\ PhaseOK(t) /\ WritesOK(t)
  BY ThreadFacts
<1>1. /\ pc[t] = "work" /\ loc[t].kind = "none" /\ ~Ended(t) /\ ~EndsOpen(t)
      /\ txState[t] \in {"ACTIVE", "ABORTED"}
  BY <1>0 DEF Commit, KindOK, PhaseOK, Ended, EndsOpen
<1>2. /\ UNCHANGED <<meta, data, txState, mode, attempt, writes>>
      /\ UNCHANGED <<counter, cached, invisReads, began, committed>>
  BY DEF Commit, shared, private, history
<1>3. Remembers
  BY <1>2, SameReads
<1>4. PICK l \in Locals : l = loc[t]
  BY Types
<1>5. CASE txState[t] # "ACTIVE"
  <2>1. pc' = [pc EXCEPT ![t] = "restore"] /\ loc' = loc
    BY <1>5 DEF Commit, GoTo
  <2>2. Quiet(t, "restore", l)
    BY <1>2, <1>4, <2>1, Types DEF Quiet
  <2>3. Ended(t)'
    BY <2>1, Types DEF Ended
  <2>4. Killed(t)
    BY <1>1, <1>5 DEF Killed
  <2>5. QED
    BY <1>1, <1>3, <1>4, <2>2, <2>3, <2>4, PlainStep
<1>6. CASE txState[t] = "ACTIVE" /\ mode.isLazy /\ writes[t] # <<>>
  <2>1. pc' = [pc EXCEPT ![t] = "acquireLazily"] /\ loc' = loc
    BY <1>6 DEF Commit, GoTo
  <2>2. Quiet(t, "acquireLazily", l)
    BY <1>2, <1>4, <2>1, Types DEF Quiet
  <2>3. ~Ended(t)'
    BY <1>1, <2>1, Types DEF Ended
  <2>4. \E w \in Elements(writes[t]) : ~w.acquired
    <3>1. ~EndsCommit(t) /\ pc[t] # "acquireLazily"
      BY <1>1 DEF EndsCommit
    <3>2. \A w \in Elements(writes[t]) : ~w.acquired
      BY <1>0, <1>1, <1>6, <3>1 DEF WritesOK
    <3>3. Head(writes[t]) \in Elements(writes[t])
      BY <1>6, Types, ElementsTail
    <3>4. QED
      BY <3>2, <3>3
  <2>5. QED
    BY <1>1, <1>3, <1>4, <2>2, <2>3, <2>4, PlainStep
<1>7. CASE txState[t] = "ACTIVE" /\ ~(mode.isLazy /\ writes[t] # <<>>)
  <2>1. Acquired(t)
    BY <1>7 DEF Commit
  <2>2. \A w \in Elements(writes[t]) : w.acquired
    BY <1>0, <1>7, Types DEF WritesOK, Elements
  <2>3. CASE mode.counts
    <3>1. pc' = [pc EXCEPT ![t] = "tryCommit"] /\ loc' = loc
      BY <2>1, <2>3 DEF Acquired, GoTo
    <3>2. Quiet(t, "tryCommit", l)
      BY <1>2, <1>4, <3>1, Types DEF Quiet
    <3>3. ~Ended(t)'
      BY <1>1, <3>1, Types DEF Ended
    <3>4. QED
      BY <1>1, <1>3, <1>4, <2>2, <3>2, <3>3, PlainStep
  <2>4. CASE ~mode.counts
    BY <1>1, <1>2, <1>3, <2>1, <2>2, <2>4, VerifyStep DEF Acquired
  <2>5. QED
    BY <2>3, <2>4
<1>8. QED
  BY <1>5, <1>6, <1>7

\* tryCommit of the commit counter (ConflictDetector.h:90-109).
LEMMA TryCommitStep ==
  ASSUME Inv, NEW t \in Threads, TryCommit(t)
  PROVE  Inv'
<1>0. KindOK(t) /\ WritesOK(t)
  BY ThreadFacts
<1>1. /\ pc[t] = "tryCommit" /\ loc[t].kind = "none" /\ ~Ended(t) /\ ~EndsOpen(t)
      /\ \A w \in Elements(writes[t]) : w.acquired
  BY <1>0 DEF TryCommit, KindOK, WritesOK, Ended, EndsOpen, EndsCommit
<1>2. /\ UNCHANGED <<meta, data, txState, mode, attempt, writes>>
      /\ UNCHANGED <<cached, invisReads, began, committed>>
  BY DEF TryCommit, private, history
<1>3. Remembers
  <2>1. counter' = counter \/ counter' = counter + 1
    BY DEF TryCommit
  <2>2. \A u \in Threads : cached[u] \in 0 .. counter
    BY Types
  <2>3. \A u \in Threads : cached[u] \in 0 .. counter'
    BY <2>1, <2>2, Types
  <2>r. ReadsOK'
    BY <1>2, <2>1, <2>3, Types DEF ReadsOK
  <2>4. QED
    BY <1>2, <2>r, NewReads
<1>4. PICK l \in Locals : l = loc[t]
  BY Types
<1>5. CASE counter = cached[t]
  <2>1. pc' = [pc EXCEPT ![t] = "cas"] /\ loc' = loc
    BY <1>5 DEF TryCommit, GoTo
  <2>2. Quiet(t, "cas", l)
    BY <1>2, <1>4, <2>1, Types DEF Quiet
  <2>3. ~Ended(t)'
    BY <1>1, <2>1, Types DEF Ended
  <2>4. QED
    BY <1>1, <1>3, <1>4, <2>2, <2>3, PlainStep
<1>6. CASE counter # cached[t]
  <2>1. VerifyInvisReads(t)
    BY <1>6 DEF TryCommit
  <2>2. QED
    BY <1>1, <1>2, <1>3, <2>1, VerifyStep
<1>7. QED
  BY <1>5, <1>6

\* forceCommit (ConflictDetector.h:122-126).
LEMMA ForceCommitStep ==
  ASSUME Inv, NEW t \in Threads, ForceCommit(t)
  PROVE  Inv'
<1>0. KindOK(t) /\ WritesOK(t)
  BY ThreadFacts
<1>1. /\ pc[t] = "force" /\ loc[t].kind = "none" /\ ~Ended(t) /\ ~EndsOpen(t)
      /\ \A w \in Elements(writes[t]) : w.acquired
  BY <1>0 DEF ForceCommit, KindOK, WritesOK, Ended, EndsOpen, EndsCommit
<1>2. /\ UNCHANGED <<meta, data, txState, mode, attempt, writes>>
      /\ UNCHANGED <<cached, invisReads, began, committed>>
      /\ pc' = [pc EXCEPT ![t] = "cas"] /\ loc' = loc
  BY DEF ForceCommit, private, history, GoTo
<1>3. Remembers
  <2>1. \A u \in Threads : cached[u] \in 0 .. counter
    BY Types
  <2>2. counter' = counter + 1
    BY DEF ForceCommit
  <2>3. \A u \in Threads : cached[u] \in 0 .. counter'
    BY <2>1, <2>2, Types
  <2>r. ReadsOK'
    BY <1>2, <2>2, <2>3, Types DEF ReadsOK
  <2>4. QED
    BY <1>2, <2>r, NewReads
<1>4. PICK l \in Locals : l = loc[t]
  BY Types
<1>5. Quiet(t, "cas", l)
  BY <1>2, <1>4, Types DEF Quiet
<1>6. ~Ended(t)'
  BY <1>1, <1>2, Types DEF Ended
<1>7. QED
  BY <1>1, <1>3, <1>4, <1>5, <1>6, PlainStep

-------------------------------------------------------------------------------
(* The statements that change the metadata, the contents or the state of a   *)
(* transaction.                                                              *)

\* An object that an ended transaction owns changes hands: its version stays.
LEMMA HandOver ==
  ASSUME Inv, NEW t \in Threads, NEW o \in Objects, NEW m \in Meta,
         m.owner \notin Threads, m.ver = meta[o].ver,
         meta[o].owner \in Threads, txState[meta[o].owner] # "ACTIVE",
         meta' = [meta EXCEPT ![o] = m], data' = data, txState' = txState, mode' = mode
  PROVE  /\ Metas(t)
         /\ \A u \in Threads : \A w \in Elements(writes[u]) :
              txState[u] = "ACTIVE" /\ w.acquired => meta'[w.obj] = Owned(u, w.log, w.ver)
         /\ \A r \in Objects : r # o => meta'[r] = meta[r]
         /\ meta'[o] = m /\ MemoryOK'
<1>1. meta'[o] = m /\ \A r \in Objects : r # o => meta'[r] = meta[r]
  BY Types
<1>2. \A r \in Objects : meta[r].ver \in Nat /\ meta[r].owner \in {Free, Locked} \cup Threads
  BY Types, MetaFacts
<1>3. meta[o].owner # Locked
  BY MetaFacts
<1>4. Metas(t)
  BY <1>1, <1>2, <1>3 DEF Metas
<1>5. ASSUME NEW u \in Threads, NEW w \in Elements(writes[u]), txState[u] = "ACTIVE", w.acquired
      PROVE  meta'[w.obj] = Owned(u, w.log, w.ver)
  <2>1. w.obj \in Objects /\ w.log \in Logs /\ w.ver \in Nat
    BY EntryFacts
  <2>2. meta[w.obj] = Owned(u, w.log, w.ver)
    BY <1>5, ThreadFacts DEF WritesOK
  <2>3. meta[w.obj].owner = u
    BY <2>1, <2>2, MetaFacts
  <2>4. w.obj # o
    BY <1>5, <2>3
  <2>5. QED
    BY <1>1, <2>1, <2>2, <2>4
<1>6. MemoryOK'
  BY Types DEF MemoryOK
<1>7. QED
  BY <1>1, <1>4, <1>5, <1>6

\* What stays when t changes metadata for another transaction.
LEMMA SameMemory ==
  ASSUME Inv, NEW t \in Threads, NEW label \in Labels, NEW l \in Locals, MemoryOK',
         pc' = [pc EXCEPT ![t] = label], loc' = [loc EXCEPT ![t] = l],
         UNCHANGED <<txState, mode, attempt, writes, counter, cached, invisReads, began, committed>>,
         Ended(t) => Ended(t)'
  PROVE  /\ Others(t) /\ UsedStable /\ TypeInv' /\ CommittedOK'
         /\ pc'[t] = label /\ loc'[t] = l
<1>1. /\ pc'[t] = label /\ loc'[t] = l
      /\ \A u \in Threads \ {t} : pc'[u] = pc[u] /\ loc'[u] = loc[u]
  BY Types
<1>2. \A u \in Threads : Ended(u) => Ended(u)'
  BY <1>1 DEF Ended
<1>3. Others(t)
  BY <1>1 DEF Others
<1>4. UsedStable
  BY <1>2 DEF UsedStable, Used
<1>5. TypeInv'
  BY Types DEF Inv, TypeInv, ThreadOK, ReadsOK, HistoryOK
<1>6. CommittedOK'
  BY <1>2 DEF Inv, CommittedOK
<1>7. QED
  BY <1>1, <1>3, <1>4, <1>5, <1>6

\* The parts of WritesOK that do not depend on the memory, when the control
\* stays outside the checks of an open and the commit.
LEMMA MemoryWrites ==
  ASSUME Inv, NEW t \in Threads, Metas(t), TypeInv',
         UNCHANGED <<mode, attempt, writes>>, loc'[t].kind = loc[t].kind, loc'[t].obj = loc[t].obj,
         Ended(t)' <=> Ended(t), ~EndsOpen(t)', ~EndsOpen(t), ~EndsCommit(t)', ~EndsCommit(t),
         pc'[t] \notin {"idle", "acquireLazily"}, pc[t] # "acquireLazily", Killed(t) => Killed(t)',
         txState'[t] = "ACTIVE" =>
           \A w \in Elements(writes[t]) : w.acquired => meta'[w.obj] = Owned(t, w.log, w.ver)
  PROVE  WritesOK(t)'
<1>0. WritesOK(t)
  BY ThreadFacts
<1>1. Single(t)' <=> Single(t)
  BY DEF Single
<1>2. \A w \in Elements(writes[t]) : Fresh(w.obj, w.ver, w.read)'
  <2>1. ASSUME NEW w \in Elements(writes[t]) PROVE Fresh(w.obj, w.ver, w.read)'
    <3>1. w.obj \in Objects /\ w.ver \in Nat /\ Fresh(w.obj, w.ver, w.read)
      BY EntryFacts
    <3>2. QED
      BY <3>1, FreshStable
  <2>2. QED
    BY <2>1
<1>3. QED
  BY <1>0, <1>1, <1>2 DEF WritesOK

\* A step of the loop that takes an object from an ended owner.
LEMMA TakeStep ==
  ASSUME Inv, NEW t \in Threads, NEW m \in Meta, NEW label \in {"load", "redo"}, NEW l \in Locals,
         pc[t] \in {"cleanAbort", "lock"}, meta[loc[t].obj] = loc[t].snap,
         m.owner \notin Threads, m.ver = loc[t].snap.ver,
         txState[loc[t].snap.owner] # "ACTIVE",
         meta' = [meta EXCEPT ![loc[t].obj] = m],
         pc' = [pc EXCEPT ![t] = label], loc' = [loc EXCEPT ![t] = l],
         UNCHANGED <<data, txState, mode, attempt, writes, counter, cached, invisReads, began, committed>>,
         l.obj = loc[t].obj, l.kind = loc[t].kind, l.snap = loc[t].snap,
         label = "redo" => m = LockedBy(l.snap) /\ l.then = "load"
  PROVE  Inv'
<1>0. KindOK(t) /\ PhaseOK(t) /\ WritesOK(t) /\ SnapOK(t)
  BY ThreadFacts
<1>o. PICK o \in Objects, s \in Meta : o = loc[t].obj /\ s = loc[t].snap
  BY LocTypes
<1>1. s.owner \in Threads /\ loc[t].kind # "none"
  BY <1>0, <1>o DEF SnapOK, KindOK
<1>2. /\ Metas(t)
      /\ \A u \in Threads : \A w \in Elements(writes[u]) :
              txState[u] = "ACTIVE" /\ w.acquired => meta'[w.obj] = Owned(u, w.log, w.ver)
      /\ \A r \in Objects : r # o => meta'[r] = meta[r]
      /\ meta'[o] = m /\ MemoryOK'
  BY <1>1, <1>o, HandOver
<1>3. pc'[t] = label /\ loc'[t] = l
  BY Types
<1>4. (Ended(t)' <=> Ended(t)) /\ ~EndsOpen(t) /\ ~EndsOpen(t)' /\ ~EndsCommit(t) /\ ~EndsCommit(t)'
  BY <1>1, <1>3 DEF Ended, EndsOpen, EndsCommit
<1>5. label \in Labels
  BY DEF Labels
<1>6. Others(t) /\ UsedStable /\ TypeInv' /\ CommittedOK'
  BY <1>2, <1>4, <1>5, SameMemory
<1>7. ThreadInv(t)'
  <2>1. KindOK(t)'
    BY <1>1, <1>3 DEF KindOK
  <2>2. PhaseOK(t)'
    BY <1>0, <1>4 DEF PhaseOK
  <2>3. WritesOK(t)'
    BY <1>2, <1>3, <1>4, <1>6, MemoryWrites DEF Killed
  <2>4. SnapOK(t)' /\ RedoOK(t)'
    BY <1>2, <1>3, <1>o DEF SnapOK, RedoOK
  <2>5. QED
    BY <2>1, <2>2, <2>3, <2>4 DEF ThreadInv
<1>8. NewLock(t)
  BY <1>1, <1>3, <1>o, MetaFacts DEF NewLock, Applies
<1>9. OwnerOK'
  BY <1>2, <1>o DEF Inv, OwnerOK
<1>10. QED
  BY <1>2, <1>6, <1>7, <1>8, <1>9, StepInv

\* cleanOnAbort (Descriptor_redo_lock.h:1373-1381).
LEMMA CleanOnAbortStep ==
  ASSUME Inv, NEW t \in Threads, CleanOnAbort(t)
  PROVE  Inv'
<1>0. SnapOK(t)
  BY ThreadFacts
<1>o. PICK o \in Objects, s \in Meta : o = loc[t].obj /\ s = loc[t].snap
  BY LocTypes
<1>l. PICK l \in Locals : l = loc[t]
  BY Types
<1>1. /\ pc[t] = "cleanAbort" /\ pc' = [pc EXCEPT ![t] = "load"] /\ loc' = [loc EXCEPT ![t] = l]
      /\ UNCHANGED <<data, txState, mode, attempt, writes, counter, cached, invisReads, began, committed>>
      /\ meta' = [meta EXCEPT ![o] = IF @ = s THEN Unowned(s.ver) ELSE @]
  BY <1>o, <1>l, Types DEF CleanOnAbort, GoTo, casX, private, history
<1>2. CASE meta[o] = s
  <2>1. PICK m \in Meta : m = Unowned(s.ver) /\ m.owner \notin Threads /\ m.ver = s.ver
    BY MetaFacts
  <2>2. txState[s.owner] = "ABORTED"
    BY <1>0, <1>1, <1>2, <1>o DEF SnapOK
  <2>3. meta' = [meta EXCEPT ![o] = m]
    BY <1>1, <1>2, <2>1
  <2>4. QED
    BY <1>1, <1>2, <1>o, <1>l, <2>1, <2>2, <2>3, TakeStep
<1>3. CASE meta[o] # s
  <2>1. meta' = meta
    BY <1>1, <1>3, Types
  <2>2. Quiet(t, "load", l)
    BY <1>1, <2>1 DEF Quiet
  <2>3. Remembers
    BY <1>1, SameReads
  <2>4. QED
    BY <1>1, <1>l, <2>2, <2>3, BackStep
<1>4. QED
  BY <1>2, <1>3

\* The lock of cleanOnCommit (Descriptor_redo_lock.h:890-901).
LEMMA LockStep ==
  ASSUME Inv, NEW t \in Threads, Lock(t)
  PROVE  Inv'
<1>0. SnapOK(t)
  BY ThreadFacts
<1>o. PICK o \in Objects, s \in Meta : o = loc[t].obj /\ s = loc[t].snap
  BY LocTypes
<1>l. PICK l \in Locals : l = [loc[t] EXCEPT !.then = "load"]
  BY Types DEF Locals
<1>k. l.obj = o /\ l.snap = s /\ l.kind = loc[t].kind /\ l.then = "load"
  BY <1>l, <1>o, Types DEF Locals
<1>1. /\ pc[t] = "lock" /\ pc' = [pc EXCEPT ![t] = IF meta[o] = s THEN "redo" ELSE "load"]
      /\ loc' = [loc EXCEPT ![t] = l]
      /\ UNCHANGED <<data, txState, mode, attempt, writes, counter, cached, invisReads, began, committed>>
      /\ meta' = [meta EXCEPT ![o] = IF @ = s THEN LockedBy(s) ELSE @]
  BY <1>o, <1>l, Types DEF Lock, GoTo, casX, private, history
<1>2. CASE meta[o] = s
  <2>1. PICK m \in Meta : m = LockedBy(s) /\ m.owner \notin Threads /\ m.ver = s.ver
    BY MetaFacts
  <2>2. txState[s.owner] = "COMMITTED"
    BY <1>0, <1>1, <1>2, <1>o DEF SnapOK
  <2>3. meta' = [meta EXCEPT ![o] = m] /\ pc' = [pc EXCEPT ![t] = "redo"]
    BY <1>1, <1>2, <2>1
  <2>4. QED
    BY <1>1, <1>2, <1>o, <1>k, <2>1, <2>2, <2>3, TakeStep
<1>3. CASE meta[o] # s
  <2>1. meta' = meta
    BY <1>1, <1>3, Types
  <2>2. Quiet(t, "load", l)
    BY <1>1, <1>3, <2>1 DEF Quiet
  <2>3. Remembers
    BY <1>1, SameReads
  <2>4. QED
    BY <1>1, <1>o, <1>k, <2>2, <2>3, BackStep
<1>4. QED
  BY <1>2, <1>3

\* An enemy kills the owner (Descriptor_redo_lock.h:1323-1337).
LEMMA KillOwnerStep ==
  ASSUME Inv, NEW t \in Threads, KillOwner(t)
  PROVE  Inv'
<1>0. KindOK(t) /\ PhaseOK(t) /\ WritesOK(t) /\ SnapOK(t)
  BY ThreadFacts
<1>o. PICK o \in Objects, s \in Meta : o = loc[t].obj /\ s = loc[t].snap
  BY LocTypes
<1>1. /\ pc[t] = "decide" /\ loc' = loc /\ loc[t].kind # "none"
      /\ UNCHANGED <<meta, data, mode, attempt, writes, counter, cached, invisReads, began, committed>>
  BY <1>0 DEF KillOwner, KindOK, private, history
<1>2. CASE Kills(t)
  <2>1. PICK v \in Threads : v = s.owner
    BY <1>0, <1>1, <1>o DEF SnapOK
  <2>2. /\ txState[v] = "ACTIVE" /\ txState' = [txState EXCEPT ![v] = "ABORTED"]
        /\ pc' = [pc EXCEPT ![t] = "cleanAbort"]
    BY <1>2, <1>o, <2>1 DEF KillOwner, Kills, GoTo
  <2>3. /\ pc'[t] = "cleanAbort" /\ loc'[t] = loc[t] /\ txState'[v] = "ABORTED"
        /\ \A u \in Threads \ {t} : pc'[u] = pc[u]
        /\ \A u \in Threads \ {v} : txState'[u] = txState[u]
    BY <1>1, <2>2, Types
  <2>4. \A u \in Threads : Ended(u)' <=> Ended(u)
    BY <1>1, <2>3 DEF Ended
  <2>5. Others(t)
    BY <1>1, <2>2, <2>3 DEF Others
  <2>6. Metas(t)
    <3>1. \A r \in Objects : meta[r].ver \in Nat
      BY Types, MetaFacts
    <3>2. QED
      BY <1>1, <2>2, <2>3, <3>1 DEF Metas
  <2>7. UsedStable
    BY <1>1, <2>4 DEF UsedStable, Used
  <2>8. NewLock(t)
    BY <2>3 DEF NewLock, Applies
  <2>9. TypeInv'
    <3>1. "cleanAbort" \in Labels
      BY DEF Labels
    <3>2. QED
      BY <1>1, <2>2, <3>1, Types DEF Inv, TypeInv, MemoryOK, ThreadOK, ReadsOK, HistoryOK, States
  <2>10. ThreadInv(t)'
    <3>1. KindOK(t)'
      BY <1>1, <2>3 DEF KindOK
    <3>2. PhaseOK(t)'
      <4>1. txState'[t] = "ABORTED" \/ txState'[t] = txState[t]
        BY <2>3
      <4>2. QED
        BY <1>0, <1>1, <2>4, <4>1 DEF PhaseOK
    <3>3. WritesOK(t)'
      <4>1. /\ ~EndsOpen(t)' /\ ~EndsOpen(t) /\ ~EndsCommit(t)' /\ ~EndsCommit(t)
        BY <1>1, <2>3 DEF EndsOpen, EndsCommit
      <4>2. Killed(t) => Killed(t)'
        BY <2>2, <2>3 DEF Killed
      <4>3. txState'[t] = "ACTIVE" =>
              \A w \in Elements(writes[t]) : w.acquired => meta'[w.obj] = Owned(t, w.log, w.ver)
        BY <1>0, <1>1, <2>3 DEF WritesOK
      <4>4. QED
        BY <1>1, <2>3, <2>4, <2>6, <2>9, <4>1, <4>2, <4>3, MemoryWrites
    <3>4. SnapOK(t)'
      <4>1. s.log[1] = s.owner /\ Used(o, s.log)
        BY <1>0, <1>1, <1>o DEF SnapOK
      <4>2. Used(o, s.log)'
        BY <1>1, <2>4, <4>1, <2>1 DEF Used
      <4>3. QED
        BY <1>o, <2>1, <2>3, <4>1, <4>2 DEF SnapOK
    <3>5. RedoOK(t)'
      BY <2>3 DEF RedoOK
    <3>6. QED
      BY <3>1, <3>2, <3>3, <3>4, <3>5 DEF ThreadInv
  <2>11. OwnerOK' /\ CommittedOK'
    BY <1>1, <2>4 DEF Inv, OwnerOK, CommittedOK
  <2>12. QED
    BY <1>1, <2>5, <2>6, <2>7, <2>8, <2>9, <2>10, <2>11, StepInv
<1>3. CASE ~Kills(t)
  <2>1. PICK l \in Locals : l = loc[t]
    BY Types
  <2>2. Quiet(t, "contend", l)
    BY <1>1, <1>3, <2>1, Types DEF KillOwner, GoTo, Quiet
  <2>3. Remembers
    BY <1>1, SameReads
  <2>4. QED
    BY <1>1, <2>1, <2>2, <2>3, BackStep
<1>4. QED
  BY <1>2, <1>3

\* The log is applied, under the lock (Descriptor_redo_lock.h:903-904).
LEMMA RedoStep ==
  ASSUME Inv, NEW t \in Threads, Redo(t)
  PROVE  Inv'
<1>0. KindOK(t) /\ PhaseOK(t) /\ WritesOK(t) /\ RedoOK(t)
  BY ThreadFacts
<1>o. PICK o \in Objects, s \in Meta : o = loc[t].obj /\ s = loc[t].snap
  BY LocTypes
<1>c. PICK c \in Txs : c = ContentsOf(s.log)
  <2>1. s.log \in Logs
    BY MetaFacts
  <2>2. ContentsOf(s.log) \in Txs
    BY <2>1, LogFacts
  <2>3. QED
    BY <2>2
<1>l. PICK l \in Locals : l = loc[t]
  BY Types
<1>1. /\ pc[t] = "redo" /\ pc' = [pc EXCEPT ![t] = "release"] /\ loc' = [loc EXCEPT ![t] = l]
      /\ UNCHANGED <<meta, txState, mode, attempt, writes, counter, cached, invisReads, began, committed>>
      /\ data' = [data EXCEPT ![o] = c]
  BY <1>o, <1>c, <1>l, Types DEF Redo, GoTo, private, history
<1>2. meta[o] = LockedBy(s) /\ meta[o].owner = Locked /\ Applies(t, o)
  <2>1. meta[o] = LockedBy(s)
    BY <1>0, <1>1, <1>o DEF RedoOK
  <2>2. QED
    BY <2>1, <1>1, <1>o, MetaFacts DEF Applies
<1>3. /\ pc'[t] = "release" /\ loc'[t] = l /\ data'[o] = c
      /\ \A r \in Objects \ {o} : data'[r] = data[r]
  BY <1>1, Types
<1>4. (Ended(t)' <=> Ended(t)) /\ ~EndsOpen(t) /\ ~EndsOpen(t)' /\ ~EndsCommit(t) /\ ~EndsCommit(t)'
  BY <1>1, <1>3, <1>l DEF Ended, EndsOpen, EndsCommit
<1>5. MemoryOK' /\ "release" \in Labels
  BY <1>1, Types DEF MemoryOK, Labels
<1>6. Others(t) /\ UsedStable /\ TypeInv' /\ CommittedOK'
  BY <1>1, <1>4, <1>5, SameMemory
<1>7. Metas(t)
  <2>1. \A r \in Objects : meta[r].ver \in Nat
    BY Types, MetaFacts
  <2>2. \A r \in Objects : r = o \/ data'[r] = data[r]
    BY <1>3
  <2>3. QED
    BY <1>1, <1>2, <2>1, <2>2 DEF Metas
<1>8. ThreadInv(t)'
  <2>1. KindOK(t)'
    BY <1>0, <1>1, <1>3, <1>l DEF KindOK
  <2>2. PhaseOK(t)'
    BY <1>0, <1>1, <1>4 DEF PhaseOK
  <2>3. WritesOK(t)'
    <3>1. txState'[t] = "ACTIVE" =>
            \A w \in Elements(writes[t]) : w.acquired => meta'[w.obj] = Owned(t, w.log, w.ver)
      BY <1>0, <1>1 DEF WritesOK
    <3>2. Killed(t) => Killed(t)'
      BY <1>1 DEF Killed
    <3>3. QED
      BY <1>1, <1>3, <1>4, <1>6, <1>7, <1>l, <3>1, <3>2, MemoryWrites
  <2>4. SnapOK(t)' /\ RedoOK(t)'
    BY <1>1, <1>2, <1>3, <1>o, <1>c, <1>l DEF SnapOK, RedoOK
  <2>5. QED
    BY <2>1, <2>2, <2>3, <2>4 DEF ThreadInv
<1>9. NewLock(t)
  BY <1>1, <1>3, <1>l DEF NewLock, Applies
<1>10. OwnerOK'
  BY <1>1 DEF Inv, OwnerOK
<1>11. QED
  BY <1>1, <1>6, <1>7, <1>8, <1>9, <1>10, StepInv

\* The next version, and the lock is released (Descriptor_redo_lock.h:906-913).
LEMMA ReleaseLockStep ==
  ASSUME Inv, NEW t \in Threads, ReleaseLock(t)
  PROVE  Inv'
<1>0. KindOK(t) /\ PhaseOK(t) /\ WritesOK(t) /\ RedoOK(t)
  BY ThreadFacts
<1>o. PICK o \in Objects, s \in Meta : o = loc[t].obj /\ s = loc[t].snap
  BY LocTypes
<1>m. PICK m \in Meta : m = Unowned(NextVersion(s.ver)) /\ m.owner = Free /\ m.ver = s.ver + 2
  <2>1. s.ver + 2 \in Nat
    BY MetaFacts
  <2>2. QED
    BY <2>1, MetaFacts DEF NextVersion
<1>a. PICK label \in {"load", "restore"} :
        /\ label = loc[t].then
        /\ label = IF loc[t].kind = "none" THEN "restore" ELSE "load"
  BY <1>0 DEF KindOK, ReleaseLock
<1>l. PICK l \in Locals : l = IF label = "load" THEN loc[t] ELSE NoLocals
  BY Types, NoLocalsType
<1>k. l.kind = loc[t].kind /\ (label = "load" => l.obj = o)
  BY <1>a, <1>l, <1>o, NoLocalsType
<1>1. /\ pc[t] = "release" /\ pc' = [pc EXCEPT ![t] = label] /\ loc' = [loc EXCEPT ![t] = l]
      /\ UNCHANGED <<data, txState, mode, attempt, writes, counter, cached, invisReads, began, committed>>
      /\ meta' = [meta EXCEPT ![o] = m]
  BY <1>o, <1>l, <1>m, <1>a DEF ReleaseLock, GoTo, private, history
<1>2. meta[o].owner = Locked /\ meta[o].ver = s.ver /\ s.ver \in Nat /\ Applies(t, o)
  <2>1. meta[o] = LockedBy(s)
    BY <1>0, <1>1, <1>o DEF RedoOK
  <2>2. QED
    BY <2>1, <1>1, <1>o, MetaFacts DEF Applies
<1>3. /\ pc'[t] = label /\ loc'[t] = l /\ meta'[o] = m
      /\ \A r \in Objects \ {o} : meta'[r] = meta[r]
  BY <1>1, Types
<1>4. (Ended(t)' <=> Ended(t)) /\ ~EndsOpen(t) /\ ~EndsOpen(t)' /\ ~EndsCommit(t) /\ ~EndsCommit(t)'
  BY <1>1, <1>3, <1>a, <1>k DEF Ended, EndsOpen, EndsCommit
<1>5. MemoryOK' /\ label \in Labels
  BY <1>1, Types DEF MemoryOK, Labels
<1>6. Others(t) /\ UsedStable /\ TypeInv' /\ CommittedOK'
  BY <1>1, <1>4, <1>5, SameMemory
<1>7. Metas(t)
  <2>1. \A r \in Objects : meta[r].ver \in Nat
    BY Types, MetaFacts
  <2>2. m.owner \notin Threads /\ Locked \notin Threads
    BY <1>m, MetaFacts
  <2>3. s.ver <= s.ver + 2 /\ s.ver < s.ver + 2
    BY <1>2
  <2>4. \A r \in Objects : r = o \/ meta'[r] = meta[r]
    BY <1>3
  <2>5. QED
    BY <1>1, <1>2, <1>3, <1>m, <2>1, <2>2, <2>3, <2>4 DEF Metas
<1>8. ThreadInv(t)'
  <2>1. KindOK(t)'
    BY <1>0, <1>1, <1>3, <1>a, <1>k DEF KindOK
  <2>2. PhaseOK(t)'
    BY <1>0, <1>1, <1>4 DEF PhaseOK
  <2>3. WritesOK(t)'
    <3>1. Single(t)' <=> Single(t)
      BY <1>1 DEF Single
    <3>2. ASSUME NEW w \in Elements(writes[t]) PROVE Fresh(w.obj, w.ver, w.read)'
      <4>1. w.obj \in Objects /\ w.ver \in Nat /\ Fresh(w.obj, w.ver, w.read)
        BY EntryFacts
      <4>2. QED
        BY <4>1, <1>6, <1>7, FreshStable
    <3>3. ASSUME NEW w \in Elements(writes[t]), w.acquired, txState[t] = "ACTIVE"
          PROVE  meta'[w.obj] = Owned(t, w.log, w.ver)
      <4>1. w.obj \in Objects /\ w.log \in Logs /\ w.ver \in Nat /\ meta[w.obj] = Owned(t, w.log, w.ver)
        BY <1>0, <3>3, EntryFacts DEF WritesOK
      <4>2. w.obj # o
        BY <4>1, <1>2, MetaFacts
      <4>3. QED
        BY <4>1, <4>2, <1>3
    <3>4. Killed(t)' <=> Killed(t)
      BY <1>1 DEF Killed
    <3>5. loc'[t].kind = "RW" => loc'[t].obj = loc[t].obj /\ loc[t].kind = "RW"
      BY <1>3, <1>a, <1>k, <1>o
    <3>6. /\ pc'[t] \notin {"idle", "acquireLazily"} /\ pc[t] # "acquireLazily"
          /\ loc'[t].kind = loc[t].kind
      BY <1>1, <1>3, <1>k
    <3>7. QED
      BY <1>0, <1>1, <1>4, <3>1, <3>2, <3>3, <3>4, <3>5, <3>6 DEF WritesOK
  <2>4. SnapOK(t)' /\ RedoOK(t)'
    BY <1>3 DEF SnapOK, RedoOK
  <2>5. QED
    BY <2>1, <2>2, <2>3, <2>4 DEF ThreadInv
<1>9. NewLock(t)
  BY <1>3 DEF NewLock, Applies
<1>10. OwnerOK'
  BY <1>1, <1>3, <1>m, MetaFacts DEF Inv, OwnerOK
<1>11. QED
  BY <1>1, <1>6, <1>7, <1>8, <1>9, <1>10, StepInv

\* The CAS of tx_state (Descriptor_redo_lock.h:692-694).
LEMMA CommitCasStep ==
  ASSUME Inv, NEW t \in Threads, CommitCas(t)
  PROVE  Inv'
<1>0. KindOK(t) /\ PhaseOK(t) /\ WritesOK(t)
  BY ThreadFacts
<1>l. PICK l \in Locals : l = NoLocals /\ l.kind = "none"
  BY NoLocalsType
<1>1. /\ pc[t] = "cas" /\ pc' = [pc EXCEPT ![t] = "restore"] /\ loc' = [loc EXCEPT ![t] = l]
      /\ UNCHANGED <<meta, data, mode, attempt, writes, counter, cached, invisReads, began>>
  BY <1>l DEF CommitCas, GoTo, private
<1>2. /\ pc'[t] = "restore" /\ loc'[t] = l
      /\ \A u \in Threads \ {t} : pc'[u] = pc[u] /\ loc'[u] = loc[u]
  BY <1>1, Types
<1>3. /\ ~Ended(t) /\ ~EndsOpen(t) /\ txState[t] \in {"ACTIVE", "ABORTED"}
      /\ attempt[t] \in 1 .. MaxAttempts /\ attempt[t] \in Nat
  <2>1. ~Ended(t) /\ ~EndsOpen(t)
    BY <1>0, <1>1 DEF Ended, EndsOpen, KindOK
  <2>2. attempt[t] \in 0 .. MaxAttempts /\ MaxAttempts \in Nat
    BY Types
  <2>3. QED
    BY <1>0, <2>1, <2>2 DEF PhaseOK
<1>4. PICK st \in {"COMMITTED", "ABORTED"} :
        /\ txState' = [txState EXCEPT ![t] = st]
        /\ txState[t] = "ABORTED" => st = "ABORTED"
  <2>1. CASE txState[t] = "ACTIVE"
    BY <2>1, Types DEF CommitCas
  <2>2. CASE txState[t] = "ABORTED"
    <3>1. txState' = txState
      BY <2>2 DEF CommitCas
    <3>2. QED
      BY <2>2, <3>1, Types
  <2>3. QED
    BY <1>3, <2>1, <2>2
<1>5. txState'[t] = st /\ \A u \in Threads \ {t} : txState'[u] = txState[u]
  BY <1>4, Types
<1>6. Ended(t)' /\ ~EndsOpen(t)' /\ ~EndsCommit(t)' /\ \A u \in Threads : Ended(u) => Ended(u)'
  BY <1>2, <1>l DEF Ended, EndsOpen, EndsCommit
<1>7. \A c \in committed' : c \in committed \/ c.tx = Tx(t)
  BY DEF CommitCas
<1>8. Tx(t) = <<t, attempt[t]>> /\ Tx(t) \in Txs /\ Tx(t)[2] = attempt[t]
  BY <1>3, LogFacts DEF Tx, Txs
<1>9. Others(t)
  BY <1>1, <1>2, <1>5 DEF Others
<1>10. Metas(t)
  <2>1. \A o \in Objects : meta[o].ver \in Nat
    BY Types, MetaFacts
  <2>2. txState[t] # "ACTIVE" => txState'[t] = txState[t]
    BY <1>3, <1>4, <1>5
  <2>3. \A o \in Objects : meta[o].owner \in Threads /\ txState[meta[o].owner] # "ACTIVE" =>
          txState'[meta[o].owner] = txState[meta[o].owner]
    BY <1>5, <2>2
  <2>4. QED
    BY <1>1, <2>1, <2>3 DEF Metas
<1>11. UsedStable
  BY <1>1, <1>6 DEF UsedStable, Used
<1>12. NewLock(t)
  BY <1>2 DEF NewLock, Applies
<1>13. TypeInv'
  <2>1. MemoryOK' /\ ThreadOK' /\ ReadsOK'
    <3>1. "restore" \in Labels /\ st \in States
      BY DEF Labels, States
    <3>2. QED
      BY <1>1, <1>4, <3>1, Types DEF MemoryOK, ThreadOK, ReadsOK
  <2>2. HistoryOK'
    BY <1>1, <1>7, <1>8 DEF Inv, TypeInv, HistoryOK
  <2>3. QED
    BY <2>1, <2>2 DEF TypeInv
<1>14. ThreadInv(t)'
  <2>1. KindOK(t)' /\ PhaseOK(t)' /\ SnapOK(t)' /\ RedoOK(t)'
    BY <1>2, <1>5, <1>6, <1>l DEF KindOK, PhaseOK, SnapOK, RedoOK
  <2>2. WritesOK(t)'
    <3>1. Single(t)' <=> Single(t)
      BY <1>1 DEF Single
    <3>2. \A w : Fresh(w.obj, w.ver, w.read)' <=> Fresh(w.obj, w.ver, w.read)
      BY <1>1 DEF Fresh
    <3>3. pc'[t] # "acquireLazily" /\ pc'[t] # "idle" /\ loc'[t].kind = "none" /\ txState'[t] # "ACTIVE"
      BY <1>2, <1>5, <1>l
    <3>4. QED
      BY <1>0, <1>1, <1>3, <1>6, <3>1, <3>2, <3>3 DEF WritesOK
  <2>3. QED
    BY <2>1, <2>2 DEF ThreadInv
<1>15. OwnerOK'
  BY <1>1 DEF Inv, OwnerOK
<1>16. CommittedOK'
  <2>1. ASSUME NEW c \in committed', c.tx = Tx(t)
        PROVE  \E u \in Threads : /\ c.tx = <<u, c.tx[2]>> /\ c.tx[2] \in Nat /\ c.tx[2] <= attempt'[u]
                                  /\ c.tx[2] = attempt'[u] => Ended(u)'
    BY <1>1, <1>3, <1>6, <1>8, <2>1
  <2>2. ASSUME NEW c \in committed
        PROVE  \E u \in Threads : /\ c.tx = <<u, c.tx[2]>> /\ c.tx[2] \in Nat /\ c.tx[2] <= attempt'[u]
                                  /\ c.tx[2] = attempt'[u] => Ended(u)'
    BY <1>1, <1>6 DEF Inv, CommittedOK
  <2>3. QED
    BY <1>7, <2>1, <2>2 DEF CommittedOK
<1>17. QED
  BY <1>1, <1>9, <1>10, <1>11, <1>12, <1>13, <1>14, <1>15, <1>16, StepInv

\* cleanupLazyWrites or cleanupEagerWrites, one object
\* (Descriptor_redo_lock.h:762-805).
LEMMA RestoreObjectStep ==
  ASSUME Inv, NEW t \in Threads, RestoreObject(t)
  PROVE  Inv'
<1>0. KindOK(t) /\ PhaseOK(t) /\ WritesOK(t)
  BY ThreadFacts
<1>1. /\ pc[t] = "restore" /\ writes[t] # <<>> /\ loc[t].kind = "none" /\ writes[t] \in Seq(Entry)
      /\ Ended(t) /\ ~EndsOpen(t) /\ txState[t] # "ACTIVE"
  BY <1>0, Types DEF RestoreObject, KindOK, PhaseOK, Ended, EndsOpen
<1>w. PICK w : w = Head(writes[t])
  OBVIOUS
<1>2. /\ w \in Entry /\ Elements(writes[t]) = {w} \cup Elements(Tail(writes[t]))
      /\ Tail(writes[t]) \in Seq(Entry)
  BY <1>1, <1>w, ElementsTail
<1>3. w.obj \in Objects /\ w.ver \in Nat /\ w.log \in Logs
  BY <1>2, EntryFacts
<1>o. PICK o \in Objects, s \in Meta : o = w.obj /\ s = Owned(t, w.log, w.ver) /\ s.owner = t /\ s.ver = w.ver
  BY <1>3, MetaFacts
<1>l. PICK l \in Locals : l = [loc[t] EXCEPT !.obj = o, !.snap = s, !.then = "restore"]
  BY Types DEF Locals
<1>k. l.obj = o /\ l.snap = s /\ l.kind = "none" /\ l.then = "restore"
  BY <1>l, <1>1, Types DEF Locals
<1>m. PICK m \in Meta : /\ m = IF txState[t] = "COMMITTED" THEN LockedBy(s) ELSE Unowned(w.ver)
                        /\ m.owner \notin Threads /\ m.ver = w.ver
  BY <1>3, <1>o, MetaFacts
<1>4. /\ meta' = [meta EXCEPT ![o] = IF @ = s THEN m ELSE @]
      /\ IF txState[t] = "COMMITTED" /\ meta[o] = s
         THEN pc' = [pc EXCEPT ![t] = "redo"] /\ loc' = [loc EXCEPT ![t] = l]
         ELSE loc' = loc /\ pc' = pc
      /\ writes' = [writes EXCEPT ![t] = Tail(writes[t])]
      /\ UNCHANGED <<data, txState, mode, attempt, counter, cached, invisReads, began, committed>>
  BY <1>w, <1>o, <1>l, <1>m DEF RestoreObject, casX, GoTo, history
<1>5. PICK label \in {"restore", "redo"}, k \in Locals :
        /\ pc' = [pc EXCEPT ![t] = label] /\ loc' = [loc EXCEPT ![t] = k] /\ k.kind = "none"
        /\ label = "redo" => k = l /\ txState[t] = "COMMITTED" /\ meta[o] = s
  <2>1. CASE txState[t] = "COMMITTED" /\ meta[o] = s
    BY <1>4, <1>k, <2>1
  <2>2. CASE ~(txState[t] = "COMMITTED" /\ meta[o] = s)
    <3>1. pc' = [pc EXCEPT ![t] = "restore"] /\ loc' = [loc EXCEPT ![t] = loc[t]] /\ loc[t] \in Locals
      BY <1>1, <1>4, <2>2, Types
    <3>2. QED
      BY <3>1, <1>1
  <2>3. QED
    BY <2>1, <2>2
<1>6. /\ pc'[t] = label /\ loc'[t] = k /\ writes'[t] = Tail(writes[t])
      /\ \A u \in Threads \ {t} : pc'[u] = pc[u] /\ loc'[u] = loc[u] /\ writes'[u] = writes[u]
  BY <1>4, <1>5, Types
<1>7. Ended(t)' /\ ~EndsOpen(t)' /\ ~EndsCommit(t)' /\ \A u \in Threads : Ended(u) => Ended(u)'
  BY <1>5, <1>6 DEF Ended, EndsOpen, EndsCommit
<1>8. Metas(t) /\ MemoryOK' /\ (\A r \in Objects : r # o => meta'[r] = meta[r])
      /\ meta'[o] = (IF meta[o] = s THEN m ELSE meta[o])
  <2>1. CASE meta[o] = s
    <3>1. meta' = [meta EXCEPT ![o] = m] /\ data' = data /\ txState' = txState /\ mode' = mode
      BY <1>4, <2>1
    <3>2. meta[o].owner \in Threads /\ txState[meta[o].owner] # "ACTIVE" /\ m.ver = meta[o].ver
      BY <1>1, <1>o, <1>m, <2>1
    <3>3. m.owner \notin Threads
      BY <1>m
    <3>4. Metas(t) /\ MemoryOK' /\ (\A r \in Objects : r # o => meta'[r] = meta[r]) /\ meta'[o] = m
      BY <3>1, <3>2, <3>3, HandOver
    <3>5. QED
      BY <2>1, <3>4
  <2>2. CASE meta[o] # s
    <3>1. meta' = meta
      BY <1>4, <2>2, Types
    <3>2. \A r \in Objects : meta[r].ver \in Nat
      BY Types, MetaFacts
    <3>3. Metas(t)
      BY <1>4, <3>1, <3>2 DEF Metas
    <3>4. MemoryOK'
      BY <1>4, <3>1, Types DEF MemoryOK
    <3>5. QED
      BY <2>2, <3>1, <3>3, <3>4
  <2>3. QED
    BY <2>1, <2>2
<1>9. TypeInv'
  <2>1. label \in Labels
    BY DEF Labels
  <2>2. ThreadOK'
    BY <1>2, <1>4, <1>5, <2>1, Types DEF ThreadOK
  <2>3. ReadsOK' /\ HistoryOK'
    BY <1>4, Types DEF Inv, TypeInv, ReadsOK, HistoryOK
  <2>4. QED
    BY <1>8, <2>2, <2>3 DEF TypeInv
<1>10. Others(t)
  BY <1>4, <1>6 DEF Others
<1>11. UsedStable
  <2>1. ASSUME NEW r \in Objects, NEW log \in Logs, log[1] \in Threads, Used(r, log) PROVE Used(r, log)'
    <3>1. CASE log[1] = t
      BY <1>4, <1>7, <2>1, <3>1 DEF Used
    <3>2. CASE log[1] # t
      BY <1>4, <1>6, <1>7, <2>1, <3>2 DEF Used
    <3>3. QED
      BY <3>1, <3>2
  <2>2. QED
    BY <2>1 DEF UsedStable
<1>12. NewLock(t)
  BY <1>5, <1>6, <1>k, <1>o, MetaFacts DEF NewLock, Applies
<1>13. ThreadInv(t)'
  <2>1. KindOK(t)'
    BY <1>5, <1>6, <1>k DEF KindOK
  <2>2. PhaseOK(t)'
    BY <1>1, <1>4, <1>7 DEF PhaseOK
  <2>3. SnapOK(t)'
    BY <1>5, <1>6 DEF SnapOK
  <2>4. RedoOK(t)'
    <3>1. label = "redo" => meta'[o] = LockedBy(s)
      BY <1>5, <1>8, <1>m
    <3>2. QED
      BY <1>5, <1>6, <1>k, <3>1 DEF RedoOK
  <2>5. WritesOK(t)'
    <3>1. PICK n \in Nat : /\ DOMAIN writes[t] = 1 .. n /\ DOMAIN Tail(writes[t]) = 1 .. n - 1
                           /\ \A i \in 1 .. n - 1 : Tail(writes[t])[i] = writes[t][i + 1]
      BY <1>1, ElementsTail
    <3>2. \A i \in 1 .. n - 1 : i + 1 \in 1 .. n
      OBVIOUS
    <3>3. ASSUME NEW i \in 1 .. n - 1, NEW j \in 1 .. n - 1,
                 Tail(writes[t])[i].obj = Tail(writes[t])[j].obj, Tail(writes[t])[i].log = Tail(writes[t])[j].log
          PROVE  i = j
      <4>1. i + 1 = j + 1
        BY <1>0, <3>1, <3>2, <3>3 DEF WritesOK
      <4>2. QED
        BY <4>1
    <3>4. Single(t) => Single(t)'
      <4>1. ASSUME Single(t), NEW i \in 1 .. n - 1, NEW j \in 1 .. n - 1,
                   Tail(writes[t])[i].obj = Tail(writes[t])[j].obj
            PROVE  i = j
        <5>1. i + 1 = j + 1
          BY <3>1, <3>2, <4>1 DEF Single
        <5>2. QED
          BY <5>1
      <4>2. QED
        BY <3>1, <4>1, <1>6 DEF Single
    <3>5. ASSUME NEW x \in Elements(Tail(writes[t])) PROVE Fresh(x.obj, x.ver, x.read)'
      <4>1. x \in Elements(writes[t])
        BY <1>2
      <4>2. x.obj \in Objects /\ x.ver \in Nat /\ Fresh(x.obj, x.ver, x.read)
        BY <4>1, EntryFacts
      <4>3. QED
        BY <4>2, <1>8, <1>9, FreshStable
    <3>6. Killed(t)' <=> Killed(t)
      BY <1>4 DEF Killed
    <3>7. /\ pc'[t] \notin {"idle", "acquireLazily"} /\ loc'[t].kind = "none" /\ txState'[t] # "ACTIVE"
          /\ Elements(writes'[t]) \subseteq Elements(writes[t]) /\ mode' = mode /\ attempt' = attempt
      BY <1>1, <1>2, <1>4, <1>5, <1>6
    <3>8. \A i, j \in DOMAIN writes'[t] :
            writes'[t][i].obj = writes'[t][j].obj /\ writes'[t][i].log = writes'[t][j].log => i = j
      BY <1>6, <3>1, <3>3
    <3>9. \A x \in Elements(writes'[t]) : Fresh(x.obj, x.ver, x.read)'
      BY <1>6, <3>5
    <3>10. QED
      BY <1>0, <1>7, <3>4, <3>6, <3>7, <3>8, <3>9 DEF WritesOK
  <2>6. QED
    BY <2>1, <2>2, <2>3, <2>4, <2>5 DEF ThreadInv
<1>14. OwnerOK'
  <2>1. ASSUME NEW r \in Objects, meta'[r].owner \in Threads
        PROVE  \E x \in Elements(writes'[meta'[r].owner]) :
                 x.obj = r /\ x.acquired /\ meta'[r] = Owned(meta'[r].owner, x.log, x.ver)
    <3>1. meta'[r] = meta[r] /\ (meta[r] # s \/ r # o)
      BY <2>1, <1>8, <1>m
    <3>2. PICK u \in Threads : u = meta[r].owner
      BY <2>1, <3>1
    <3>3. PICK x \in Elements(writes[u]) : x.obj = r /\ x.acquired /\ meta[r] = Owned(u, x.log, x.ver)
      BY <3>2 DEF Inv, OwnerOK
    <3>4. u # t => writes'[u] = writes[u]
      BY <1>6
    <3>5. u = t => x # w
      BY <3>1, <3>3, <1>o
    <3>6. x \in Elements(writes'[u])
      BY <3>3, <3>4, <3>5, <1>2, <1>6
    <3>7. QED
      BY <3>1, <3>2, <3>3, <3>6
  <2>2. QED
    BY <2>1 DEF OwnerOK
<1>15. CommittedOK'
  BY <1>4, <1>7 DEF Inv, CommittedOK
<1>16. mode' = mode
  BY <1>4
<1>17. QED
  BY <1>8, <1>9, <1>10, <1>11, <1>12, <1>13, <1>14, <1>15, <1>16, StepInv

\* The end of cleanup (Descriptor_redo_lock.h:651-660).
LEMMA EndTransactionStep ==
  ASSUME Inv, NEW t \in Threads, EndTransaction(t)
  PROVE  Inv'
<1>0. KindOK(t) /\ PhaseOK(t) /\ WritesOK(t)
  BY ThreadFacts
<1>l. PICK l \in Locals : l = loc[t]
  BY Types
<1>1. /\ pc[t] = "restore" /\ writes[t] = <<>> /\ l.kind = "none"
      /\ Ended(t) /\ ~EndsOpen(t)
  BY <1>0, <1>l DEF EndTransaction, KindOK, Ended, EndsOpen
<1>2. /\ UNCHANGED <<meta, data, txState, mode, attempt, writes, counter, committed>>
      /\ pc' = [pc EXCEPT ![t] = "idle"] /\ loc' = loc
      /\ invisReads' = [invisReads EXCEPT ![t] = <<>>]
      /\ cached' = [cached EXCEPT ![t] = 0]
      /\ began' = [began EXCEPT ![t] = {}]
  BY DEF EndTransaction, GoTo, shared
<1>3. Quiet(t, "idle", l) /\ "idle" \in Labels
  BY <1>2, <1>l, Types DEF Quiet, Labels
<1>4. Remembers
  <2>1. <<>> \in Seq(Pair) /\ 0 \in 0 .. counter
    BY Types
  <2>2. ReadsOK'
    BY <1>2, <2>1, Types DEF ReadsOK
  <2>3. HistoryOK'
    BY <1>2 DEF Inv, TypeInv, HistoryOK
  <2>4. QED
    BY <1>2, <2>2, <2>3 DEF Remembers
<1>5. pc'[t] = "idle" /\ loc'[t] = l
  BY <1>2, <1>l, Types
<1>6. Ended(t)' /\ ~EndsOpen(t)' /\ ~EndsCommit(t)'
  BY <1>5, <1>1 DEF Ended, EndsOpen, EndsCommit
<1>7. KindOK(t)' /\ PhaseOK(t)' /\ SnapOK(t)' /\ RedoOK(t)'
  BY <1>0, <1>1, <1>2, <1>5, <1>6 DEF KindOK, PhaseOK, SnapOK, RedoOK
<1>8. WritesOK(t)'
  BY <1>1, <1>3, <1>6, QuietWrites
<1>9. QED
  BY <1>1, <1>3, <1>4, <1>5, <1>6, <1>7, <1>8, QuietStep

\* beginTransaction (Descriptor_redo_lock.h:551-565).
LEMMA BeginStep ==
  ASSUME Inv, NEW t \in Threads, Begin(t)
  PROVE  Inv'
<1>0. KindOK(t) /\ PhaseOK(t) /\ WritesOK(t)
  BY ThreadFacts
<1>1. /\ pc[t] = "idle" /\ writes[t] = <<>> /\ loc[t].kind = "none"
      /\ attempt[t] < MaxAttempts /\ attempt[t] \in Nat /\ MaxAttempts \in Nat
  BY <1>0, Types DEF Begin, WritesOK, KindOK
<1>2. /\ UNCHANGED <<meta, data, mode, writes, counter, invisReads, loc, committed>>
      /\ pc' = [pc EXCEPT ![t] = "work"]
      /\ attempt' = [attempt EXCEPT ![t] = attempt[t] + 1]
      /\ cached' = [cached EXCEPT ![t] = counter]
      /\ txState' = [txState EXCEPT ![t] = "ACTIVE"]
      /\ began' = [began EXCEPT ![t] = {c.tx : c \in committed}]
  BY DEF Begin, GoTo
<1>3. /\ pc'[t] = "work" /\ attempt'[t] = attempt[t] + 1 /\ txState'[t] = "ACTIVE"
      /\ \A u \in Threads \ {t} : pc'[u] = pc[u] /\ attempt'[u] = attempt[u] /\ txState'[u] = txState[u]
  BY <1>2, Types
<1>4. ~Ended(t)' /\ \A u \in Threads \ {t} : Ended(u) => Ended(u)'
  BY <1>1, <1>2, <1>3 DEF Ended
<1>5. Others(t)
  BY <1>2, <1>3 DEF Others
<1>6. Metas(t)
  <2>1. \A r \in Objects : meta[r].ver \in Nat
    BY Types, MetaFacts
  <2>2. \A r \in Objects : meta[r].owner # t
    BY <1>1 DEF Inv, OwnerOK, Elements
  <2>3. QED
    BY <1>2, <1>3, <2>1, <2>2 DEF Metas
<1>7. UsedStable
  <2>1. ASSUME NEW r \in Objects, NEW log \in Logs, log[1] \in Threads, Used(r, log) PROVE Used(r, log)'
    <3>1. CASE log[1] = t
      <4>1. log[2] \in 1 .. MaxAttempts
        BY <2>1, LogFacts
      <4>2. log[2] <= attempt[t]
        BY <2>1, <3>1, <4>1, <1>1 DEF Used
      <4>3. log[2] < attempt'[t]
        BY <4>1, <4>2, <1>1, <1>3
      <4>4. QED
        BY <3>1, <4>3 DEF Used
    <3>2. CASE log[1] # t
      <4>1. log[1] \in Threads \ {t}
        BY <2>1, <3>2
      <4>2. QED
        BY <1>2, <1>3, <1>4, <2>1, <4>1 DEF Used
    <3>3. QED
      BY <3>1, <3>2
  <2>2. QED
    BY <2>1 DEF UsedStable
<1>8. NewLock(t)
  BY <1>3 DEF NewLock, Applies
<1>9. TypeInv'
  <2>1. "work" \in Labels /\ attempt[t] + 1 \in 0 .. MaxAttempts /\ "ACTIVE" \in States /\ counter \in 0 .. counter
    BY <1>1, Types DEF Labels, States
  <2>2. MemoryOK' /\ ThreadOK' /\ ReadsOK'
    BY <1>2, <2>1, Types DEF MemoryOK, ThreadOK, ReadsOK
  <2>3. HistoryOK'
    BY <1>2 DEF Inv, TypeInv, HistoryOK
  <2>4. QED
    BY <2>2, <2>3 DEF TypeInv
<1>10. ThreadInv(t)'
  <2>1. KindOK(t)' /\ SnapOK(t)' /\ RedoOK(t)'
    BY <1>1, <1>2, <1>3 DEF KindOK, SnapOK, RedoOK
  <2>2. PhaseOK(t)'
    BY <1>1, <1>3, <1>4 DEF PhaseOK
  <2>3. WritesOK(t)'
    <3>1. writes'[t] = <<>> /\ loc'[t].kind = "none" /\ pc'[t] = "work"
      BY <1>1, <1>2, <1>3
    <3>2. Elements(writes'[t]) = {} /\ DOMAIN writes'[t] = {} /\ Single(t)'
      BY <3>1 DEF Elements, Single
    <3>3. QED
      BY <3>1, <3>2 DEF WritesOK
  <2>4. QED
    BY <2>1, <2>2, <2>3 DEF ThreadInv
<1>11. OwnerOK'
  BY <1>2 DEF Inv, OwnerOK
<1>12. CommittedOK'
  <2>1. ASSUME NEW c \in committed
        PROVE  \E u \in Threads : /\ c.tx = <<u, c.tx[2]>> /\ c.tx[2] \in Nat /\ c.tx[2] <= attempt'[u]
                                  /\ c.tx[2] = attempt'[u] => Ended(u)'
    <3>1. PICK u \in Threads : /\ c.tx = <<u, c.tx[2]>> /\ c.tx[2] \in Nat /\ c.tx[2] <= attempt[u]
                               /\ c.tx[2] = attempt[u] => Ended(u)
      BY DEF Inv, CommittedOK
    <3>2. CASE u = t
      BY <1>1, <1>3, <3>1, <3>2
    <3>3. CASE u # t
      BY <1>3, <1>4, <3>1, <3>3
    <3>4. QED
      BY <3>2, <3>3
  <2>2. QED
    BY <1>2, <2>1 DEF CommittedOK
<1>13. mode' = mode
  BY <1>2
<1>14. QED
  BY <1>5, <1>6, <1>7, <1>8, <1>9, <1>10, <1>11, <1>12, <1>13, StepInv

\* A free object gets an owner: its log was not there before.
LEMMA TakeFree ==
  ASSUME Inv, NEW t \in Threads, NEW o \in Objects, NEW log \in Logs, log[1] = t, ~Used(o, log),
         meta[o].owner = Free,
         meta' = [meta EXCEPT ![o] = Owned(t, log, meta[o].ver)],
         data' = data, txState' = txState, mode' = mode
  PROVE  /\ Metas(t)
         /\ \A u \in Threads : \A w \in Elements(writes[u]) :
              txState[u] = "ACTIVE" /\ w.acquired => meta'[w.obj] = Owned(u, w.log, w.ver)
         /\ \A r \in Objects : r # o => meta'[r] = meta[r]
         /\ meta'[o] = Owned(t, log, meta[o].ver) /\ MemoryOK'
<1>0. \A r \in Objects : meta[r].ver \in Nat /\ meta[r].owner \in {Free, Locked} \cup Threads
  BY Types, MetaFacts
<1>m. PICK m \in Meta : /\ m = Owned(t, log, meta[o].ver)
                        /\ m.owner = t /\ m.log = log /\ m.ver = meta[o].ver
  BY <1>0, MetaFacts
<1>1. meta'[o] = m /\ \A r \in Objects : r # o => meta'[r] = meta[r]
  BY <1>m, Types
<1>2. Free \notin Threads /\ Free # Locked
  BY MetaFacts
<1>3. Metas(t)
  <2>1. \A r \in Objects : r = o \/ meta'[r] = meta[r]
    BY <1>1
  <2>2. QED
    BY <1>0, <1>1, <1>2, <1>m, <2>1 DEF Metas
<1>4. ASSUME NEW u \in Threads, NEW w \in Elements(writes[u]), txState[u] = "ACTIVE", w.acquired
      PROVE  meta'[w.obj] = Owned(u, w.log, w.ver)
  <2>1. w.obj \in Objects /\ w.log \in Logs /\ w.ver \in Nat
    BY EntryFacts
  <2>2. meta[w.obj] = Owned(u, w.log, w.ver)
    BY <1>4, ThreadFacts DEF WritesOK
  <2>3. meta[w.obj].owner = u
    BY <2>1, <2>2, MetaFacts
  <2>4. w.obj # o
    BY <1>2, <2>3
  <2>5. QED
    BY <1>1, <2>1, <2>2, <2>4
<1>5. MemoryOK'
  BY <1>m, Types DEF MemoryOK
<1>6. QED
  BY <1>1, <1>m, <1>3, <1>4, <1>5

\* The log of a new clone is of this attempt, and no entry of the object has it.
\* Only a transaction that was killed clones an object a second time.
LEMMA NewLogFacts ==
  ASSUME Inv, NEW t \in Threads, pc[t] = "acquire", loc[t].kind = "RW",
         NEW o \in Objects, o = loc[t].obj, NEW log, log = NewLog(t, o)
  PROVE  /\ log \in Logs /\ log = <<t, attempt[t], log[3]>> /\ log[1] = t /\ log[3] \in 1 .. 2
         /\ \A w \in Elements(writes[t]) : ~(w.obj = o /\ w.log = log)
         /\ IsWriteOf(t, o) <=> log[3] = 2
         /\ IsWriteOf(t, o) <=> \E w \in Elements(writes[t]) : w.obj = o
         /\ IsWriteOf(t, o) => ~mode.isLazy
         /\ \A w \in Elements(writes[t]) : w.log[3] = 1
         /\ Single(t) /\ ~Ended(t) /\ ~EndsOpen(t) /\ ~EndsCommit(t)
         /\ ~Used(o, log)
<1>0. PhaseOK(t) /\ WritesOK(t)
  BY ThreadFacts
<1>1. ~Ended(t) /\ ~EndsOpen(t) /\ ~EndsCommit(t)
  BY DEF Ended, EndsOpen, EndsCommit
<1>2. attempt[t] \in 1 .. MaxAttempts /\ attempt[t] \in Nat
  <2>1. attempt[t] \in 0 .. MaxAttempts /\ MaxAttempts \in Nat
    BY Types
  <2>2. QED
    BY <1>0, <1>1, <2>1 DEF PhaseOK
<1>3. PICK k \in 1 .. 2 : k = IF IsWriteOf(t, o) THEN 2 ELSE 1
  OBVIOUS
<1>4. log = <<t, attempt[t], k>>
  BY <1>3 DEF NewLog
<1>5. /\ log \in Logs /\ log = <<t, attempt[t], log[3]>> /\ log[1] = t /\ log[3] \in 1 .. 2
      /\ log[3] = k /\ log[2] = attempt[t]
  <2>1. log \in Logs
    BY <1>2, <1>4, LogFacts
  <2>2. QED
    BY <1>4, <2>1
<1>6. IsWriteOf(t, o) <=> log[3] = 2
  BY <1>3, <1>5
<1>7. IsWriteOf(t, o) <=> \E w \in Elements(writes[t]) : w.obj = o
  BY DEF IsWriteOf, Elements
<1>8. IsWriteOf(t, o) => ~mode.isLazy
  BY <1>0, <1>1, <1>7 DEF WritesOK
<1>9. /\ ~(\E w \in Elements(writes[t]) : w.log[3] = 2)
      /\ Single(t)
      /\ \A w \in Elements(writes[t]) : w.log[3] \in 1 .. 2
  BY <1>0, <1>1 DEF WritesOK
<1>10. \A w \in Elements(writes[t]) : w.log[3] = 1
  BY <1>9
<1>11. \A w \in Elements(writes[t]) : ~(w.obj = o /\ w.log = log)
  BY <1>6, <1>7, <1>10
<1>12. ~Used(o, log)
  BY <1>1, <1>2, <1>5, <1>11 DEF Used
<1>13. QED
  BY <1>1, <1>5, <1>6, <1>7, <1>8, <1>9, <1>10, <1>11, <1>12

\* The list of writes with the new entry.
LEMMA AcquireWrites ==
  ASSUME Inv, NEW t \in Threads, pc[t] = "acquire", loc[t].kind = "RW",
         NEW e \in Entry, e.obj = loc[t].obj, e.log = NewLog(t, e.obj), e.ver = loc[t].snap.ver,
         e.read = loc[t].copy, e.acquired = ~mode.isLazy,
         writes' = [writes EXCEPT ![t] = Append(writes[t], e)],
         UNCHANGED <<txState, mode, attempt>>, Metas(t), TypeInv',
         ~mode.isLazy => meta[e.obj].owner = Free /\ meta'[e.obj] = Owned(t, e.log, e.ver),
         \A w \in Elements(writes[t]) :
           txState[t] = "ACTIVE" /\ w.acquired => meta'[w.obj] = Owned(t, w.log, w.ver),
         EndsOpen(t)', ~EndsCommit(t)', ~Ended(t)', pc'[t] \notin {"idle", "acquireLazily"},
         loc'[t].kind = "RW"
  PROVE  /\ WritesOK(t)' /\ Elements(writes'[t]) = Elements(writes[t]) \cup {e}
<1>0. PhaseOK(t) /\ WritesOK(t) /\ SnapOK(t)
  BY ThreadFacts
<1>s. writes[t] \in Seq(Entry) /\ writes'[t] = Append(writes[t], e)
  BY Types
<1>n. PICK n \in Nat : /\ n = Len(writes[t])
                       /\ DOMAIN writes[t] = 1 .. n /\ DOMAIN writes'[t] = 1 .. n + 1
                       /\ \A i \in 1 .. n : writes'[t][i] = writes[t][i]
                       /\ writes'[t][n + 1] = e
  BY <1>s, ElementsAppend
<1>1. Elements(writes'[t]) = Elements(writes[t]) \cup {e}
  BY <1>s, ElementsAppend
<1>o. PICK o \in Objects, log \in Logs, v \in Nat, c \in Txs :
        o = e.obj /\ log = e.log /\ v = e.ver /\ c = e.read
  BY DEF Entry
<1>2. /\ log = <<t, attempt[t], log[3]>> /\ log[3] \in 1 .. 2
      /\ \A w \in Elements(writes[t]) : ~(w.obj = o /\ w.log = log)
      /\ IsWriteOf(t, o) <=> log[3] = 2
      /\ IsWriteOf(t, o) <=> \E w \in Elements(writes[t]) : w.obj = o
      /\ IsWriteOf(t, o) => ~mode.isLazy
      /\ \A w \in Elements(writes[t]) : w.log[3] = 1
      /\ Single(t) /\ ~Ended(t) /\ ~EndsOpen(t) /\ ~EndsCommit(t)
  BY <1>o, NewLogFacts
<1>3. \A i \in 1 .. n : writes[t][i] \in Elements(writes[t])
  BY <1>n DEF Elements
<1>4. \A w \in Elements(writes'[t]) : w.log = <<t, attempt'[t], w.log[3]>> /\ w.log[3] \in 1 .. 2
  BY <1>0, <1>1, <1>2, <1>o DEF WritesOK
<1>5. ASSUME NEW i \in DOMAIN writes'[t], NEW j \in DOMAIN writes'[t],
             writes'[t][i].obj = writes'[t][j].obj, writes'[t][i].log = writes'[t][j].log
      PROVE  i = j
  <2>1. \A k \in 1 .. n : ~(writes'[t][k].obj = o /\ writes'[t][k].log = log)
    BY <1>2, <1>3, <1>n
  <2>2. CASE i \in 1 .. n /\ j \in 1 .. n
    BY <1>0, <1>5, <1>n, <2>2 DEF WritesOK
  <2>3. CASE i = n + 1 \/ j = n + 1
    <3>1. i \in 1 .. n \/ i = n + 1
      BY <1>n
    <3>2. j \in 1 .. n \/ j = n + 1
      BY <1>n
    <3>3. QED
      BY <1>5, <1>n, <1>o, <2>1, <2>3, <3>1, <3>2
  <2>4. QED
    BY <1>n, <2>2, <2>3
<1>6. Single(t)' \/ IsWriteOf(t, o)
  <2>1. ASSUME ~IsWriteOf(t, o), NEW i \in DOMAIN writes'[t], NEW j \in DOMAIN writes'[t],
               writes'[t][i].obj = writes'[t][j].obj
        PROVE  i = j
    <3>1. \A k \in 1 .. n : writes'[t][k].obj # o
      BY <1>2, <1>3, <1>n, <2>1
    <3>2. i \in 1 .. n \/ i = n + 1
      BY <1>n
    <3>3. j \in 1 .. n \/ j = n + 1
      BY <1>n
    <3>4. CASE i \in 1 .. n /\ j \in 1 .. n
      BY <1>2, <1>n, <2>1, <3>4 DEF Single
    <3>5. QED
      BY <1>n, <1>o, <2>1, <3>1, <3>2, <3>3, <3>4
  <2>2. QED
    BY <2>1 DEF Single
<1>7. IsWriteOf(t, o) => ~mode.isLazy /\ Killed(t)'
  <2>1. ASSUME IsWriteOf(t, o) PROVE txState[t] = "ABORTED"
    <3>1. PICK w \in Elements(writes[t]) : w.obj = o
      BY <1>2, <2>1
    <3>2. ~mode.isLazy /\ w.acquired
      BY <1>0, <1>2, <2>1 DEF WritesOK
    <3>3. w.log \in Logs /\ w.ver \in Nat
      BY EntryFacts
    <3>4. Owned(t, w.log, w.ver).owner = t /\ Free \notin Threads
      BY <3>3, MetaFacts
    <3>5. txState[t] # "ACTIVE"
      BY <1>0, <1>o, <3>1, <3>2, <3>4 DEF WritesOK
    <3>6. QED
      BY <1>0, <1>2, <3>5 DEF PhaseOK
  <2>2. QED
    BY <1>2, <2>1 DEF Killed
<1>8. (\E w \in Elements(writes'[t]) : w.log[3] = 2) \/ ~Single(t)' => ~mode'.isLazy /\ Killed(t)'
  BY <1>1, <1>2, <1>6, <1>7, <1>o
<1>9. ~mode'.isLazy => \A w \in Elements(writes'[t]) : w.acquired
  BY <1>0, <1>1 DEF WritesOK
<1>10. txState'[t] = "ACTIVE" =>
         \A w \in Elements(writes'[t]) : w.acquired => meta'[w.obj] = Owned(t, w.log, w.ver)
  BY <1>1
<1>11. ASSUME NEW w \in Elements(writes'[t]) PROVE Fresh(w.obj, w.ver, w.read)'
  <2>1. CASE w = e
    <3>1. Fresh(o, v, c)
      BY <1>0, <1>o DEF SnapOK
    <3>2. QED
      BY <1>o, <2>1, <3>1, FreshStable
  <2>2. CASE w \in Elements(writes[t])
    <3>1. w.obj \in Objects /\ w.ver \in Nat /\ Fresh(w.obj, w.ver, w.read)
      BY <2>2, EntryFacts
    <3>2. QED
      BY <3>1, FreshStable
  <2>3. QED
    BY <1>1, <2>1, <2>2
<1>12. mode'.isLazy => \A w \in Elements(writes'[t]) : ~w.acquired
  BY <1>0, <1>1, <1>2 DEF WritesOK
<1>13. WritesOK(t)'
  BY <1>4, <1>5, <1>8, <1>9, <1>10, <1>11, <1>12 DEF WritesOK
<1>14. QED
  BY <1>1, <1>13

\* An open for writing acquires, or keeps the clone for the commit
\* (Descriptor_redo_lock.h:1190-1225).
LEMMA AcquireStep ==
  ASSUME Inv, NEW t \in Threads, Acquire(t), loc[t].kind = "RW"
  PROVE  Inv'
<1>0. PhaseOK(t) /\ SnapOK(t)
  BY ThreadFacts
<1>o. PICK o \in Objects, s \in Meta, c \in Txs : o = loc[t].obj /\ s = loc[t].snap /\ c = loc[t].copy
  BY LocTypes
<1>p. pc[t] = "acquire" /\ s.owner = Free /\ s.ver \in Nat
  BY <1>0, <1>o, MetaFacts DEF Acquire, SnapOK
<1>g. PICK log : log = NewLog(t, o)
  OBVIOUS
<1>1. /\ log \in Logs /\ log[1] = t /\ ~Used(o, log)
      /\ Single(t) /\ ~Ended(t) /\ ~EndsOpen(t) /\ ~EndsCommit(t)
  BY <1>o, <1>p, <1>g, NewLogFacts
<1>y. mode.isLazy \in BOOLEAN /\ mode.counts \in BOOLEAN
  BY Types
<1>b. PICK b \in BOOLEAN, v \in Nat : b = ~mode.isLazy /\ v = s.ver
  BY <1>y, <1>p
<1>f. [obj |-> o, ver |-> v, log |-> log, read |-> c, acquired |-> b] \in Entry
  BY <1>1 DEF Entry
<1>h. PICK e \in Entry : e = [obj |-> o, ver |-> v, log |-> log, read |-> c, acquired |-> b]
  BY <1>f
<1>e. e.obj = o /\ e.ver = s.ver /\ e.log = log /\ e.read = c /\ e.acquired = ~mode.isLazy
  BY <1>b, <1>h
<1>2. /\ UNCHANGED <<data, txState, mode, attempt, counter, cached, invisReads, began, committed>>
      /\ IF mode.isLazy \/ meta[o] = s
         THEN /\ writes' = [writes EXCEPT ![t] = Append(writes[t], e)]
              /\ meta' = [meta EXCEPT ![o] = IF mode.isLazy THEN @ ELSE Owned(t, log, s.ver)]
              /\ IF mode.counts
                 THEN GoTo(t, "count") /\ UNCHANGED loc
                 ELSE Validating(t, invisReads[t] \o (IF mode.isLazy THEN Pairs(writes'[t]) ELSE <<>>), "opened")
         ELSE GoTo(t, "contend") /\ UNCHANGED <<meta, writes, loc>>
  BY <1>o, <1>g, <1>b, <1>h DEF Acquire, history
<1>3. CASE ~(mode.isLazy \/ meta[o] = s)
  <2>1. PICK l \in Locals : l = loc[t]
    BY Types
  <2>2. Quiet(t, "contend", l)
    BY <1>2, <1>3, <2>1, Types DEF GoTo, Quiet
  <2>3. Remembers
    BY <1>2, SameReads
  <2>4. QED
    BY <1>p, <2>1, <2>2, <2>3, BackStep
<1>4. CASE mode.isLazy \/ meta[o] = s
  <2>1. /\ writes' = [writes EXCEPT ![t] = Append(writes[t], e)]
        /\ writes[t] \in Seq(Entry) /\ Append(writes[t], e) \in Seq(Entry)
        /\ writes'[t] = Append(writes[t], e)
        /\ \A u \in Threads \ {t} : writes'[u] = writes[u]
    BY <1>2, <1>4, Types, ElementsAppend
  <2>2. PICK l \in Locals, label \in {"opened", "validate", "count"} :
           /\ pc' = [pc EXCEPT ![t] = label] /\ loc' = [loc EXCEPT ![t] = l]
           /\ pc'[t] = label /\ loc'[t] = l
           /\ l.kind = "RW"
           /\ label = "validate" => l.then = "opened" /\ l.todo # <<>>
    <3>1. CASE mode.counts
      <4>1. /\ pc' = [pc EXCEPT ![t] = "count"] /\ loc' = [loc EXCEPT ![t] = loc[t]]
            /\ pc'[t] = "count" /\ loc'[t] = loc[t] /\ loc[t] \in Locals
        BY <1>2, <1>4, <3>1, Types DEF GoTo
      <4>2. QED
        BY <4>1
    <3>2. CASE ~mode.counts
      <4>1. PICK todo \in Seq(Pair) :
              todo = invisReads[t] \o (IF mode.isLazy THEN Pairs(writes'[t]) ELSE <<>>)
        <5>1. Pairs(writes'[t]) \in Seq(Pair)
          BY <2>1, PairsSeq
        <5>a. PICK ps \in Seq(Pair), none \in Seq(Pair) : ps = Pairs(writes'[t]) /\ none = <<>>
          <6>1. <<>> \in Seq(Pair)
            OBVIOUS
          <6>2. QED
            BY <5>1, <6>1
        <5>b. PICK mine \in Seq(Pair) : mine = IF mode.isLazy THEN ps ELSE none
          OBVIOUS
        <5>2. mine = IF mode.isLazy THEN Pairs(writes'[t]) ELSE <<>>
          BY <5>a, <5>b
        <5>3. PICK reads \in Seq(Pair) : reads = invisReads[t]
          BY Types
        <5>4. reads \o mine \in Seq(Pair)
          OBVIOUS
        <5>5. QED
          BY <5>2, <5>3, <5>4
      <4>2. Validating(t, todo, "opened")
        BY <1>2, <1>4, <3>2, <4>1
      <4>3. pc \in [Threads -> Labels] /\ loc \in [Threads -> Locals]
        BY Types
      <4>4. PICK l \in Locals, label \in {"opened", "validate"} :
           /\ pc' = [pc EXCEPT ![t] = label] /\ loc' = [loc EXCEPT ![t] = l]
           /\ pc'[t] = label /\ loc'[t] = l
           /\ l.kind = loc[t].kind
           /\ label = "validate" => l.then = "opened" /\ l.todo # <<>>
        BY <4>2, <4>3, ValidatingFacts
      <4>5. QED
        BY <4>4
    <3>3. QED
      BY <3>1, <3>2
  <2>3. EndsOpen(t)' /\ ~EndsCommit(t)' /\ ~Ended(t)'
    BY <2>2 DEF EndsOpen, EndsCommit, Ended
  <2>4. /\ Metas(t) /\ MemoryOK'
        /\ \A w \in Elements(writes[t]) :
             txState[t] = "ACTIVE" /\ w.acquired => meta'[w.obj] = Owned(t, w.log, w.ver)
        /\ \A r \in Objects : r # o => meta'[r] = meta[r]
        /\ ~mode.isLazy => meta[o].owner = Free /\ meta'[o] = Owned(t, log, s.ver)
        /\ mode.isLazy => meta' = meta
    <3>1. CASE mode.isLazy
      <4>1. meta' = meta
        BY <1>2, <1>4, <3>1, Types
      <4>2. \A r \in Objects : meta[r].ver \in Nat
        BY Types, MetaFacts
      <4>3. Metas(t)
        BY <1>2, <4>1, <4>2 DEF Metas
      <4>4. MemoryOK'
        BY <1>2, <4>1, Types DEF MemoryOK
      <4>5. \A w \in Elements(writes[t]) :
             txState[t] = "ACTIVE" /\ w.acquired => meta'[w.obj] = Owned(t, w.log, w.ver)
        BY <4>1, ThreadFacts DEF WritesOK
      <4>6. QED
        BY <3>1, <4>1, <4>3, <4>4, <4>5
    <3>2. CASE ~mode.isLazy
      <4>1. meta[o] = s /\ meta' = [meta EXCEPT ![o] = Owned(t, log, meta[o].ver)]
        BY <1>2, <1>4, <3>2
      <4>2. meta[o].owner = Free /\ UNCHANGED <<data, txState, mode>>
        BY <1>2, <1>p, <4>1
      <4>3. /\ Metas(t) /\ MemoryOK'
            /\ \A u \in Threads : \A w \in Elements(writes[u]) :
                 txState[u] = "ACTIVE" /\ w.acquired => meta'[w.obj] = Owned(u, w.log, w.ver)
            /\ \A r \in Objects : r # o => meta'[r] = meta[r]
            /\ meta'[o] = Owned(t, log, meta[o].ver)
        BY <1>1, <4>1, <4>2, TakeFree
      <4>4. QED
        BY <3>2, <4>1, <4>2, <4>3
    <3>3. QED
      BY <3>1, <3>2
  <2>5. TypeInv'
    <3>1. label \in Labels
      BY DEF Labels
    <3>2. ThreadOK'
      BY <1>2, <2>1, <2>2, <3>1, Types DEF ThreadOK
    <3>3. ReadsOK' /\ HistoryOK'
      BY <1>2, Types DEF Inv, TypeInv, ReadsOK, HistoryOK
    <3>4. QED
      BY <2>4, <3>2, <3>3 DEF TypeInv
  <2>6. WritesOK(t)' /\ Elements(writes'[t]) = Elements(writes[t]) \cup {e}
    <3>1. /\ e.obj = loc[t].obj /\ e.log = NewLog(t, e.obj) /\ e.ver = loc[t].snap.ver /\ e.read = loc[t].copy
          /\ ~mode.isLazy => meta[e.obj].owner = Free /\ meta'[e.obj] = Owned(t, e.log, e.ver)
      BY <1>o, <1>g, <1>e, <2>4
    <3>2. pc'[t] \notin {"idle", "acquireLazily"} /\ loc'[t].kind = "RW"
      BY <2>2
    <3>3. UNCHANGED <<txState, mode, attempt>>
      BY <1>2
    <3>4. QED
      BY <1>p, <1>e, <2>1, <2>3, <2>4, <2>5, <3>1, <3>2, <3>3, AcquireWrites
  <2>7. \A u \in Threads : Elements(writes[u]) \subseteq Elements(writes'[u])
    BY <2>1, <2>6
  <2>8. \A u \in Threads : Ended(u) <=> Ended(u)'
    BY <1>1, <2>2, <2>3, Types DEF Ended
  <2>9. Others(t)
    BY <1>2, <2>1, <2>2, Types DEF Others
  <2>10. UsedStable
    <3>1. ASSUME NEW r \in Objects, NEW g \in Logs, g[1] \in Threads, Used(r, g) PROVE Used(r, g)'
      BY <1>2, <2>7, <2>8, <3>1 DEF Used
    <3>2. QED
      BY <3>1 DEF UsedStable
  <2>11. NewLock(t)
    BY <2>2 DEF NewLock, Applies
  <2>12. ThreadInv(t)'
    <3>1. KindOK(t)'
      BY <2>2 DEF KindOK
    <3>2. PhaseOK(t)'
      BY <1>0, <1>1, <1>2, <2>3 DEF PhaseOK
    <3>3. SnapOK(t)' /\ RedoOK(t)'
      BY <2>2 DEF SnapOK, RedoOK
    <3>4. QED
      BY <2>6, <3>1, <3>2, <3>3 DEF ThreadInv
  <2>13. OwnerOK'
    <3>1. ASSUME NEW r \in Objects, meta'[r].owner \in Threads
          PROVE  \E x \in Elements(writes'[meta'[r].owner]) :
                   x.obj = r /\ x.acquired /\ meta'[r] = Owned(meta'[r].owner, x.log, x.ver)
      <4>1. CASE r = o /\ ~mode.isLazy
        <5>1. meta'[r] = Owned(t, e.log, e.ver) /\ meta'[r].owner = t
          BY <1>1, <1>e, <1>p, <2>4, <4>1, MetaFacts
        <5>2. QED
          BY <1>e, <2>6, <4>1, <5>1
      <4>2. CASE ~(r = o /\ ~mode.isLazy)
        <5>1. meta'[r] = meta[r]
          BY <2>4, <4>2
        <5>2. QED
          BY <2>7, <3>1, <5>1 DEF Inv, OwnerOK
      <4>3. QED
        BY <4>1, <4>2
    <3>2. QED
      BY <3>1 DEF OwnerOK
  <2>14. CommittedOK'
    BY <1>2, <2>8 DEF Inv, CommittedOK
  <2>15. mode' = mode
    BY <1>2
  <2>16. QED
    BY <2>4, <2>5, <2>9, <2>10, <2>11, <2>12, <2>13, <2>14, <2>15, StepInv
<1>5. QED
  BY <1>3, <1>4

\* One entry of the list of writes is marked acquired.
LEMMA MarkAcquired ==
  ASSUME NEW s \in Seq(Entry), NEW i \in DOMAIN s, NEW r \in Seq(Entry), NEW e \in Entry,
         e.obj = s[i].obj, e.log = s[i].log, e.ver = s[i].ver, e.read = s[i].read, e.acquired = TRUE,
         r = [s EXCEPT ![i] = e]
  PROVE  /\ DOMAIN r = DOMAIN s
         /\ \A j \in DOMAIN s : r[j].obj = s[j].obj /\ r[j].log = s[j].log
         /\ Elements(r) \subseteq Elements(s) \cup {e}
         /\ e \in Elements(r)
         /\ \A w \in Elements(s) : w.acquired /\ ~s[i].acquired => w \in Elements(r)
         /\ \A j \in DOMAIN s : j # i => s[j] \in Elements(r)
<1>1. DOMAIN r = DOMAIN s /\ r[i] = e /\ \A j \in DOMAIN s : j # i => r[j] = s[j]
  OBVIOUS
<1>2. \A j \in DOMAIN s : r[j].obj = s[j].obj /\ r[j].log = s[j].log
  BY <1>1
<1>3. Elements(r) \subseteq Elements(s) \cup {e}
  BY <1>1 DEF Elements
<1>4. e \in Elements(r)
  BY <1>1 DEF Elements
<1>5. \A j \in DOMAIN s : j # i => s[j] \in Elements(r)
  BY <1>1 DEF Elements
<1>6. \A w \in Elements(s) : w.acquired /\ ~s[i].acquired => w \in Elements(r)
  BY <1>5 DEF Elements
<1>7. QED
  BY <1>1, <1>2, <1>3, <1>4, <1>5, <1>6

\* The control after an object is acquired in the commit.
LEMMA AcquiredFacts ==
  ASSUME Inv, NEW t \in Threads, pc[t] = "acquireLazily", loc[t].kind = "none",
         NEW last \in BOOLEAN,
         IF last THEN Acquired(t) ELSE UNCHANGED <<pc, loc>>
  PROVE  \E l \in Locals, label \in {"acquireLazily", "tryCommit", "validate", "force", "cas"} :
           /\ pc' = [pc EXCEPT ![t] = label] /\ loc' = [loc EXCEPT ![t] = l]
           /\ pc'[t] = label /\ loc'[t] = l
           /\ l.kind = "none"
           /\ label = "validate" => l.then \in {"force", "cas"} /\ l.todo # <<>>
           /\ label = "acquireLazily" <=> ~last
<1>1. loc[t] \in Locals /\ pc \in [Threads -> Labels] /\ loc \in [Threads -> Locals]
  BY Types
<1>2. CASE ~last
  <2>1. pc' = [pc EXCEPT ![t] = "acquireLazily"] /\ loc' = [loc EXCEPT ![t] = loc[t]]
    BY <1>1, <1>2
  <2>2. pc'[t] = "acquireLazily" /\ loc'[t] = loc[t]
    BY <1>1, <1>2
  <2>3. QED
    BY <1>1, <1>2, <2>1, <2>2
<1>3. CASE last /\ mode.counts
  <2>1. pc' = [pc EXCEPT ![t] = "tryCommit"] /\ loc' = [loc EXCEPT ![t] = loc[t]]
    BY <1>1, <1>3 DEF Acquired, GoTo
  <2>2. pc'[t] = "tryCommit" /\ loc'[t] = loc[t]
    BY <1>1, <2>1
  <2>3. QED
    BY <1>1, <1>3, <2>1, <2>2
<1>4. CASE last /\ ~mode.counts
  <2>1. PICK todo \in Seq(Pair), goal \in {"force", "cas"} :
          todo = invisReads[t] /\ goal = IF mode.counts /\ writes[t] # <<>> THEN "force" ELSE "cas"
    BY Types
  <2>2. Validating(t, todo, goal)
    BY <1>4, <2>1 DEF Acquired, VerifyInvisReads
  <2>3. PICK l \in Locals, label \in {goal, "validate"} :
           /\ pc' = [pc EXCEPT ![t] = label] /\ loc' = [loc EXCEPT ![t] = l]
           /\ pc'[t] = label /\ loc'[t] = l
           /\ l.kind = loc[t].kind
           /\ label = "validate" => l.then = goal /\ l.todo # <<>>
    BY <1>1, <2>2, ValidatingFacts
  <2>4. label \in {"validate", "force", "cas"}
    OBVIOUS
  <2>5. QED
    BY <1>4, <2>3, <2>4
<1>5. QED
  BY <1>2, <1>3, <1>4

\* The list of writes after an object is acquired in the commit.
LEMMA MarkedWrites ==
  ASSUME Inv, NEW t \in Threads, pc[t] = "acquireLazily",
         NEW i \in DOMAIN writes[t], ~writes[t][i].acquired, NEW e \in Entry,
         e.obj = writes[t][i].obj, e.log = writes[t][i].log, e.ver = writes[t][i].ver,
         e.read = writes[t][i].read, e.acquired = TRUE,
         writes'[t] = [writes[t] EXCEPT ![i] = e], writes'[t] \in Seq(Entry),
         UNCHANGED <<txState, mode, attempt>>, Metas(t), TypeInv',
         meta'[e.obj] = Owned(t, e.log, e.ver),
         \A w \in Elements(writes[t]) :
           txState[t] = "ACTIVE" /\ w.acquired => meta'[w.obj] = Owned(t, w.log, w.ver),
         pc'[t] = "acquireLazily" \/ EndsCommit(t)', pc'[t] # "idle", loc'[t].kind = "none",
         pc'[t] = "acquireLazily" => \E j \in DOMAIN writes[t] : j # i /\ ~writes[t][j].acquired,
         EndsCommit(t)' => \A j \in DOMAIN writes[t] : j # i => writes[t][j].acquired
  PROVE  WritesOK(t)'
<1>0. WritesOK(t) /\ ~EndsOpen(t) /\ ~Ended(t)
  BY ThreadFacts DEF EndsOpen, Ended, KindOK
<1>s. PICK s \in Seq(Entry) : s = writes[t]
  BY Types
<1>1. /\ DOMAIN writes'[t] = DOMAIN writes[t]
      /\ \A j \in DOMAIN writes[t] : writes'[t][j].obj = writes[t][j].obj /\ writes'[t][j].log = writes[t][j].log
      /\ Elements(writes'[t]) \subseteq Elements(writes[t]) \cup {e}
      /\ \A j \in DOMAIN writes[t] : j # i => writes[t][j] \in Elements(writes'[t])
  <2>1. PICK r \in Seq(Entry) : r = writes'[t]
    OBVIOUS
  <2>2. i \in DOMAIN s /\ r = [s EXCEPT ![i] = e]
    BY <1>s, <2>1
  <2>3. e.obj = s[i].obj /\ e.log = s[i].log /\ e.ver = s[i].ver /\ e.read = s[i].read
    BY <1>s
  <2>4. /\ DOMAIN r = DOMAIN s
        /\ \A j \in DOMAIN s : r[j].obj = s[j].obj /\ r[j].log = s[j].log
        /\ Elements(r) \subseteq Elements(s) \cup {e}
        /\ \A j \in DOMAIN s : j # i => s[j] \in Elements(r)
    BY <2>2, <2>3, MarkAcquired
  <2>5. QED
    BY <1>s, <2>1, <2>4
<1>2. ASSUME NEW w \in Elements(writes'[t])
      PROVE  \E x \in Elements(writes[t]) : /\ x.obj = w.obj /\ x.log = w.log /\ x.ver = w.ver
                                            /\ x.read = w.read
  <2>1. writes[t][i] \in Elements(writes[t])
    BY DEF Elements
  <2>2. CASE w = e
    BY <2>1, <2>2
  <2>3. CASE w # e
    BY <1>1, <2>3
  <2>4. QED
    BY <2>2, <2>3
<1>3. \A w \in Elements(writes'[t]) : w.log = <<t, attempt'[t], w.log[3]>> /\ w.log[3] \in 1 .. 2
  <2>1. \A x \in Elements(writes[t]) : x.log = <<t, attempt[t], x.log[3]>> /\ x.log[3] \in 1 .. 2
    BY <1>0 DEF WritesOK
  <2>2. ASSUME NEW w \in Elements(writes'[t])
        PROVE  w.log = <<t, attempt'[t], w.log[3]>> /\ w.log[3] \in 1 .. 2
    <3>1. PICK x \in Elements(writes[t]) : x.log = w.log
      BY <1>2
    <3>2. x.log = <<t, attempt[t], x.log[3]>> /\ x.log[3] \in 1 .. 2
      BY <2>1
    <3>3. QED
      BY <3>1, <3>2
  <2>3. QED
    BY <2>2
<1>4. \A j, k \in DOMAIN writes'[t] :
        writes'[t][j].obj = writes'[t][k].obj /\ writes'[t][j].log = writes'[t][k].log => j = k
  BY <1>0, <1>1 DEF WritesOK
<1>5. ~(\E x \in Elements(writes[t]) : x.log[3] = 2) /\ Single(t)
  BY <1>0 DEF WritesOK
<1>6. ~(\E w \in Elements(writes'[t]) : w.log[3] = 2)
  <2>1. ASSUME NEW w \in Elements(writes'[t]) PROVE w.log[3] # 2
    <3>1. PICK x \in Elements(writes[t]) : x.log = w.log
      BY <1>2
    <3>2. QED
      BY <1>5, <3>1
  <2>2. QED
    BY <2>1
<1>7. Single(t)'
  BY <1>1, <1>5 DEF Single
<1>8. ~mode'.isLazy => \A w \in Elements(writes'[t]) : w.acquired
  BY <1>0, <1>1 DEF WritesOK
<1>9. EndsCommit(t)' => \A w \in Elements(writes'[t]) : w.acquired
  <2>1. ASSUME EndsCommit(t)', NEW w \in Elements(writes'[t]) PROVE w.acquired
    <3>1. PICK j \in DOMAIN writes'[t] : w = writes'[t][j]
      BY DEF Elements
    <3>2. CASE j = i
      BY <1>s, <1>1, <3>1, <3>2
    <3>3. CASE j # i
      BY <1>s, <1>1, <2>1, <3>1, <3>3
    <3>4. QED
      BY <3>2, <3>3
  <2>2. QED
    BY <2>1
<1>10. pc'[t] = "acquireLazily" => \E w \in Elements(writes'[t]) : ~w.acquired
  BY <1>1
<1>11. txState'[t] = "ACTIVE" =>
         \A w \in Elements(writes'[t]) : w.acquired => meta'[w.obj] = Owned(t, w.log, w.ver)
  BY <1>1
<1>12. ASSUME NEW w \in Elements(writes'[t]) PROVE Fresh(w.obj, w.ver, w.read)'
  <2>1. PICK x \in Elements(writes[t]) : x.obj = w.obj /\ x.ver = w.ver /\ x.read = w.read
    BY <1>2
  <2>2. x.obj \in Objects /\ x.ver \in Nat /\ Fresh(x.obj, x.ver, x.read)
    BY EntryFacts
  <2>3. Fresh(x.obj, x.ver, x.read)'
    BY <2>2, FreshStable
  <2>4. QED
    BY <2>1, <2>3
<1>13. pc'[t] # "idle" /\ loc'[t].kind # "UN" /\ loc'[t].kind # "RW"
  OBVIOUS
<1>14. QED
  BY <1>3, <1>4, <1>6, <1>7, <1>8, <1>9, <1>10, <1>11, <1>12, <1>13 DEF WritesOK

\* acquireLazily, one object (Descriptor_redo_lock.h:741-760).
LEMMA AcquireLazilyStep ==
  ASSUME Inv, NEW t \in Threads, AcquireLazily(t)
  PROVE  Inv'
<1>0. KindOK(t) /\ PhaseOK(t) /\ WritesOK(t)
  BY ThreadFacts
<1>1. /\ pc[t] = "acquireLazily" /\ loc[t].kind = "none" /\ ~Ended(t) /\ ~EndsOpen(t)
      /\ \E w \in Elements(writes[t]) : ~w.acquired
  BY <1>0 DEF AcquireLazily, KindOK, WritesOK, Ended, EndsOpen
<1>s. PICK s \in Seq(Entry), n \in Nat : s = writes[t] /\ n = Len(s) /\ DOMAIN s = 1 .. n
  BY Types
<1>2. PICK left : left = {i \in DOMAIN s : ~s[i].acquired}
  OBVIOUS
<1>3. PICK i : i = CHOOSE k \in left : \A m \in left : k <= m
  OBVIOUS
<1>4. i \in left /\ i \in DOMAIN s /\ ~s[i].acquired
  <2>1. left # {} /\ left \subseteq Nat
    BY <1>1, <1>2, <1>s DEF Elements
  <2>2. \E k \in left : \A m \in left : k <= m
    BY <2>1, NatLeast
  <2>3. i \in left
    BY <1>3, <2>2
  <2>4. QED
    BY <1>2, <2>3
<1>w. PICK w \in Entry : w = s[i] /\ w \in Elements(s)
  <2>1. s[i] \in Elements(s) /\ s[i] \in Entry
    BY <1>4 DEF Elements
  <2>2. QED
    BY <2>1
<1>5. w.obj \in Objects /\ w.log \in Logs /\ w.ver \in Nat /\ w.log[1] = t /\ w.log[2] = attempt[t] /\ attempt[t] \in Nat
  BY <1>w, <1>s, EntryFacts, Types
<1>o. PICK o \in Objects, log \in Logs, v \in Nat : o = w.obj /\ log = w.log /\ v = w.ver
  BY <1>5
<1>6. CASE meta[o] # Unowned(v)
  <2>1. Abort(t)
    BY <1>2, <1>3, <1>6, <1>o, <1>s, <1>w DEF AcquireLazily
  <2>2. QED
    BY <1>1, <2>1, AbortStep
<1>7. CASE meta[o] = Unowned(v)
  <2>f. [w EXCEPT !.acquired = TRUE] \in Entry
    BY DEF Entry
  <2>g. PICK e \in Entry : e = [w EXCEPT !.acquired = TRUE]
    BY <2>f
  <2>e. e.obj = o /\ e.log = log /\ e.ver = v /\ e.read = w.read /\ e.acquired = TRUE
    BY <1>o, <2>g DEF Entry
  <2>1. /\ meta' = [meta EXCEPT ![o] = Owned(t, log, v)]
        /\ writes' = [writes EXCEPT ![t][i].acquired = TRUE]
        /\ IF left = {i} THEN Acquired(t) ELSE UNCHANGED <<pc, loc>>
        /\ UNCHANGED <<data, txState, mode, attempt, counter, cached, invisReads, began, committed>>
    BY <1>2, <1>3, <1>7, <1>o, <1>s, <1>w DEF AcquireLazily, history
  <2>2. PICK r \in Seq(Entry) : r = [s EXCEPT ![i] = e]
    <3>1. s \in [1 .. n -> Entry]
      BY <1>s
    <3>2. PICK r \in [1 .. n -> Entry] : r = [s EXCEPT ![i] = e]
      BY <3>1
    <3>3. r \in Seq(Entry)
      OBVIOUS
    <3>4. QED
      BY <3>2, <3>3
  <2>3. writes' = [writes EXCEPT ![t] = r]
    <3>1. [writes[t] EXCEPT ![i].acquired = TRUE] = r
      BY <1>s, <1>w, <2>2, <2>g
    <3>2. QED
      BY <2>1, <3>1
  <2>4. writes'[t] = r /\ \A u \in Threads \ {t} : writes'[u] = writes[u]
    BY <2>3, Types
  <2>5. /\ e \in Elements(r) /\ \A x \in Elements(s) : x.acquired => x \in Elements(r)
    <3>1. e.obj = s[i].obj /\ e.log = s[i].log /\ e.ver = s[i].ver /\ e.read = s[i].read
      BY <1>o, <1>w, <2>e
    <3>2. QED
      BY <1>4, <2>2, <2>e, <3>1, MarkAcquired
  <2>6. ~Used(o, log)
    <3>1. \A x \in Elements(writes[t]) : ~(x.obj = o /\ x.log = log /\ x.acquired)
      <4>1. ASSUME NEW j \in DOMAIN s, s[j].obj = o, s[j].log = log, s[j].acquired PROVE FALSE
        <5>1. i = j
          BY <1>0, <1>4, <1>o, <1>s, <1>w, <4>1 DEF WritesOK
        <5>2. QED
          BY <1>4, <4>1, <5>1
      <4>2. QED
        BY <1>s, <4>1 DEF Elements
    <3>2. QED
      BY <1>1, <1>5, <1>o, <3>1 DEF Used
  <2>7. meta[o].owner = Free /\ meta[o].ver = v
    BY <1>7, MetaFacts
  <2>8. /\ Metas(t) /\ MemoryOK'
        /\ \A u \in Threads : \A x \in Elements(writes[u]) :
             txState[u] = "ACTIVE" /\ x.acquired => meta'[x.obj] = Owned(u, x.log, x.ver)
        /\ \A q \in Objects : q # o => meta'[q] = meta[q]
        /\ meta'[o] = Owned(t, log, v)
    <3>1. log[1] = t /\ meta' = [meta EXCEPT ![o] = Owned(t, log, meta[o].ver)]
      BY <1>5, <1>o, <2>1, <2>7
    <3>2. data' = data /\ txState' = txState /\ mode' = mode
      BY <2>1
    <3>3. /\ Metas(t) /\ MemoryOK'
          /\ \A u \in Threads : \A x \in Elements(writes[u]) :
               txState[u] = "ACTIVE" /\ x.acquired => meta'[x.obj] = Owned(u, x.log, x.ver)
          /\ \A q \in Objects : q # o => meta'[q] = meta[q]
          /\ meta'[o] = Owned(t, log, meta[o].ver)
      BY <2>6, <2>7, <3>1, <3>2, TakeFree
    <3>4. QED
      BY <2>7, <3>3
  <2>9. PICK last \in BOOLEAN : last <=> left = {i}
    OBVIOUS
  <2>10. PICK l \in Locals, label \in {"acquireLazily", "tryCommit", "validate", "force", "cas"} :
           /\ pc' = [pc EXCEPT ![t] = label] /\ loc' = [loc EXCEPT ![t] = l]
           /\ pc'[t] = label /\ loc'[t] = l
           /\ l.kind = "none"
           /\ label = "validate" => l.then \in {"force", "cas"} /\ l.todo # <<>>
           /\ label = "acquireLazily" <=> ~last
    <3>1. IF last THEN Acquired(t) ELSE UNCHANGED <<pc, loc>>
      BY <2>1, <2>9
    <3>2. QED
      BY <1>1, <3>1, AcquiredFacts
  <2>11. /\ ~EndsOpen(t)' /\ ~Ended(t)'
         /\ label = "acquireLazily" \/ EndsCommit(t)'
         /\ EndsCommit(t)' => label # "acquireLazily"
    BY <2>10 DEF EndsOpen, Ended, EndsCommit
  <2>12. TypeInv'
    <3>1. label \in Labels
      BY DEF Labels
    <3>2. ThreadOK'
      BY <2>1, <2>3, <2>10, <3>1, Types DEF ThreadOK
    <3>3. ReadsOK' /\ HistoryOK'
      BY <2>1, Types DEF Inv, TypeInv, ReadsOK, HistoryOK
    <3>4. QED
      BY <2>8, <3>2, <3>3 DEF TypeInv
  <2>13. WritesOK(t)'
    <3>1. /\ i \in DOMAIN writes[t] /\ ~writes[t][i].acquired
          /\ e.obj = writes[t][i].obj /\ e.log = writes[t][i].log /\ e.ver = writes[t][i].ver
          /\ e.read = writes[t][i].read
          /\ writes'[t] = [writes[t] EXCEPT ![i] = e] /\ writes'[t] \in Seq(Entry)
      BY <1>4, <1>o, <1>s, <1>w, <2>2, <2>4, <2>e
    <3>2. meta'[e.obj] = Owned(t, e.log, e.ver)
      BY <2>8, <2>e
    <3>3. label = "acquireLazily" => \E j \in DOMAIN writes[t] : j # i /\ ~writes[t][j].acquired
      BY <1>2, <1>4, <1>s, <2>9, <2>10
    <3>4. EndsCommit(t)' => \A j \in DOMAIN writes[t] : j # i => writes[t][j].acquired
      BY <1>2, <1>s, <2>9, <2>10, <2>11
    <3>5. /\ pc'[t] = "acquireLazily" \/ EndsCommit(t)'
          /\ pc'[t] # "idle" /\ loc'[t].kind = "none"
          /\ pc'[t] = "acquireLazily" => \E j \in DOMAIN writes[t] : j # i /\ ~writes[t][j].acquired
      BY <2>10, <2>11, <3>3
    <3>6. UNCHANGED <<txState, mode, attempt>>
      BY <2>1
    <3>7. QED
      BY <1>1, <2>8, <2>12, <2>e, <3>1, <3>2, <3>4, <3>5, <3>6, MarkedWrites
  <2>14. \A u \in Threads : \A x \in Elements(writes[u]) : x.acquired => x \in Elements(writes'[u])
    BY <1>s, <2>4, <2>5
  <2>15. \A u \in Threads : Ended(u) <=> Ended(u)'
    BY <1>1, <2>10, <2>11, Types DEF Ended
  <2>16. Others(t)
    BY <2>1, <2>4, <2>10, Types DEF Others
  <2>17. UsedStable
    <3>1. ASSUME NEW q \in Objects, NEW g \in Logs, g[1] \in Threads, Used(q, g) PROVE Used(q, g)'
      BY <2>1, <2>14, <2>15, <3>1 DEF Used
    <3>2. QED
      BY <3>1 DEF UsedStable
  <2>18. NewLock(t)
    BY <2>10 DEF NewLock, Applies
  <2>19. ThreadInv(t)'
    <3>1. KindOK(t)'
      BY <2>10 DEF KindOK
    <3>2. PhaseOK(t)'
      BY <1>0, <1>1, <2>1, <2>11 DEF PhaseOK
    <3>3. SnapOK(t)' /\ RedoOK(t)'
      BY <2>10 DEF SnapOK, RedoOK
    <3>4. QED
      BY <2>13, <3>1, <3>2, <3>3 DEF ThreadInv
  <2>20. OwnerOK'
    <3>1. ASSUME NEW q \in Objects, meta'[q].owner \in Threads
          PROVE  \E x \in Elements(writes'[meta'[q].owner]) :
                   x.obj = q /\ x.acquired /\ meta'[q] = Owned(meta'[q].owner, x.log, x.ver)
      <4>1. CASE q = o
        <5>1. meta'[q] = Owned(t, e.log, e.ver) /\ meta'[q].owner = t
          BY <2>8, <2>e, <4>1, MetaFacts
        <5>2. QED
          BY <2>4, <2>5, <2>e, <4>1, <5>1
      <4>2. CASE q # o
        <5>1. meta'[q] = meta[q]
          BY <2>8, <4>2
        <5>2. QED
          BY <2>14, <3>1, <5>1 DEF Inv, OwnerOK
      <4>3. QED
        BY <4>1, <4>2
    <3>2. QED
      BY <3>1 DEF OwnerOK
  <2>21. CommittedOK'
    BY <2>1, <2>15 DEF Inv, CommittedOK
  <2>22. mode' = mode
    BY <2>1
  <2>23. QED
    BY <2>8, <2>12, <2>16, <2>17, <2>18, <2>19, <2>20, <2>21, <2>22, StepInv
<1>8. QED
  BY <1>6, <1>7

-------------------------------------------------------------------------------
(* The invariant holds, and with it types and the lock on a log.             *)

\* A step that changes only the counter, and one that changes nothing.
LEMMA OtherStep ==
  ASSUME Inv, UNCHANGED <<meta, data, txState, mode, attempt, writes, pc, loc, committed>>, ReadsOK', HistoryOK'
  PROVE  Inv'
<1>1. MemoryOK' /\ ThreadOK'
  BY Types DEF MemoryOK, ThreadOK
<1>2. \A u \in Threads : (Ended(u)' <=> Ended(u)) /\ (EndsOpen(u)' <=> EndsOpen(u)) /\ (EndsCommit(u)' <=> EndsCommit(u))
                         /\ (Single(u)' <=> Single(u)) /\ (Killed(u)' <=> Killed(u))
  BY DEF Ended, EndsOpen, EndsCommit, Single, Killed
<1>3. \A o, v, c : Fresh(o, v, c)' <=> Fresh(o, v, c)
  BY DEF Fresh
<1>4. \A o, log : log[1] \in Threads => (Used(o, log)' <=> Used(o, log))
  BY <1>2 DEF Used
<1>5. ASSUME NEW t \in Threads PROVE ThreadInv(t)'
  <2>1. KindOK(t) /\ PhaseOK(t) /\ WritesOK(t) /\ SnapOK(t) /\ RedoOK(t)
    BY ThreadFacts
  <2>2. KindOK(t)' /\ PhaseOK(t)' /\ RedoOK(t)'
    BY <1>2, <2>1 DEF KindOK, PhaseOK, RedoOK
  <2>3. WritesOK(t)'
    BY <1>2, <1>3, <2>1 DEF WritesOK
  <2>4. SnapOK(t)'
    BY <1>3, <1>4, <2>1 DEF SnapOK
  <2>5. QED
    BY <2>2, <2>3, <2>4 DEF ThreadInv
<1>6. OwnerOK' /\ AppliersOK' /\ CommittedOK'
  BY <1>2 DEF Inv, OwnerOK, AppliersOK, Applies, CommittedOK
<1>7. QED
  BY <1>1, <1>5, <1>6 DEF Inv, TypeInv

\* The invariant holds initially.
LEMMA InvInit == Init => Inv
<1> SUFFICES ASSUME Init PROVE Inv
  OBVIOUS
<1>1. /\ \A o \in Objects : meta[o] = Unowned(FirstVersion) /\ meta[o].owner = Free
      /\ \A t \in Threads : /\ pc[t] = "idle" /\ loc[t] = NoLocals /\ writes[t] = <<>>
                            /\ txState[t] = "COMMITTED" /\ attempt[t] = 0
      /\ committed = {}
  <2>1. Unowned(FirstVersion).owner = Free
    BY MetaFacts DEF FirstVersion
  <2>2. QED
    BY <2>1 DEF Init
<1>2. TypeInv
  <2>1. /\ Unowned(FirstVersion) \in Meta /\ Initial \in Txs /\ NoLocals \in Locals
        /\ "idle" \in Labels /\ "COMMITTED" \in States /\ MaxAttempts \in Nat
    BY MetaFacts, LogFacts, NoLocalsType, RedoBoundsAssumption DEF FirstVersion, Labels, States
  <2>2. MemoryOK
    BY <2>1, RedoModesAssumption DEF Init, MemoryOK
  <2>3. ThreadOK
    BY <2>1 DEF Init, ThreadOK
  <2>4. ReadsOK /\ HistoryOK
    BY <2>1 DEF Init, ReadsOK, HistoryOK
  <2>5. QED
    BY <2>2, <2>3, <2>4 DEF TypeInv
<1>3. ASSUME NEW t \in Threads PROVE ThreadInv(t)
  <2>1. Ended(t) /\ ~EndsOpen(t) /\ ~EndsCommit(t) /\ loc[t].kind = "none" /\ Elements(writes[t]) = {}
    BY <1>1, NoLocalsType DEF Ended, EndsOpen, EndsCommit, Elements
  <2>2. Single(t)
    BY <1>1 DEF Single
  <2>3. QED
    BY <1>1, <2>1, <2>2 DEF ThreadInv, KindOK, PhaseOK, WritesOK, SnapOK, RedoOK
<1>4. OwnerOK /\ AppliersOK /\ CommittedOK
  BY <1>1, MetaFacts DEF OwnerOK, AppliersOK, Applies, CommittedOK
<1>5. QED
  BY <1>2, <1>3, <1>4 DEF Inv

\* What the three opens have in common preserves it.
LEMMA OpenTxStep ==
  ASSUME Inv, NEW t \in Threads
  PROVE  /\ OpenLoop(t) => Inv'
         /\ OpenTx(t) => Inv'
<1>1. OpenLoop(t) => Inv'
  BY LoadStep, LookAtOwnerStep, RecheckStep, ContendStep, KillOwnerStep, CleanOnAbortStep, LockStep,
     RedoStep, ReleaseLockStep DEF OpenLoop
<1>2. OpenTx(t) => Inv'
  BY <1>1, GiveWayStep, ValidateStep, CheckCounterStep, CacheCounterStep, OpenedStep DEF OpenTx
<1>3. QED
  BY <1>1, <1>2

\* Every step of a thread does.
LEMMA ThreadStep ==
  ASSUME Inv, NEW t \in Threads, Thread(t)
  PROVE  Inv'
<1>1. CASE getReadable(t)
  BY <1>1, OpenStep, OpenTxStep DEF getReadable
<1>2. CASE getWritable(t)
  BY <1>2, OpenStep, OpenTxStep, CloneStep, AcquireStep DEF getWritable
<1>3. CASE open_un(t)
  BY <1>3, OpenUnStep, OpenTxStep DEF open_un
<1>4. CASE commit(t)
  BY <1>4, CommitStep, AcquireLazilyStep, TryCommitStep, ForceCommitStep, CommitCasStep, ValidateStep DEF commit
<1>5. CASE cleanup(t)
  BY <1>5, RestoreObjectStep, EndTransactionStep, RedoStep, ReleaseLockStep DEF cleanup
<1>6. CASE Begin(t) \/ ReadField(t) \/ CheckField(t) \/ Release(t)
  BY <1>6, BeginStep, ReadFieldStep, CheckFieldStep, ReleaseStep
<1>7. QED
  BY <1>1, <1>2, <1>3, <1>4, <1>5, <1>6 DEF Thread

\* Every step preserves the invariant.
LEMMA InvNext == Inv /\ [Next]_vars => Inv'
<1> SUFFICES ASSUME Inv, [Next]_vars PROVE Inv'
  OBVIOUS
<1>1. CASE UNCHANGED vars
  <2>1. /\ UNCHANGED <<meta, data, txState, mode, attempt, writes, pc, loc, committed>>
        /\ UNCHANGED <<counter, cached, invisReads, began, committed>>
    BY <1>1 DEF vars, shared, private, history
  <2>2. ReadsOK' /\ HistoryOK'
    BY <2>1, SameReads DEF Remembers
  <2>3. QED
    BY <2>1, <2>2, OtherStep
<1>2. CASE OtherCommit
  <2>1. /\ UNCHANGED <<meta, data, txState, mode, attempt, writes, pc, loc, committed>>
        /\ UNCHANGED <<cached, invisReads, began>> /\ counter' = counter + 1
    BY <1>2 DEF OtherCommit, private, history
  <2>2. \A u \in Threads : cached[u] \in 0 .. counter + 1
    <3>1. \A u \in Threads : cached[u] \in 0 .. counter
      BY Types
    <3>2. QED
      BY <3>1, Types
  <2>3. ReadsOK' /\ HistoryOK'
    BY <2>1, <2>2, Types DEF ReadsOK, HistoryOK, Inv, TypeInv
  <2>4. QED
    BY <2>1, <2>3, OtherStep
<1>3. ASSUME NEW t \in Threads, Thread(t) PROVE Inv'
  BY <1>3, ThreadStep
<1>4. QED
  BY <1>1, <1>2, <1>3 DEF Next

\* The invariant is one.
LEMMA Invariant == Spec => []Inv
<1>1. QED
  BY InvInit, InvNext, PTL DEF Spec

\* The metadata of an object are a version, or an owner and its log, or the
\* lock and a log; versions, counters and the state of a transaction have their
\* types (SharedBase_redo_lock.h:48-85).
THEOREM TypeCorrect == Spec => []TypeOK
<1>1. Inv => TypeOK
  BY DEF Inv, TypeInv, MemoryOK, ThreadOK, ReadsOK, HistoryOK, TypeOK, Meta, States
<1>2. QED
  BY <1>1, Invariant, PTL

\* A log is applied by the one thread that holds the lock on its object,
\* whoever of all threads that found it committed tries to, and although the
\* owner and the log are compared with a snapshot taken long before
\* (Descriptor_redo_lock.h:888-913).
THEOREM OneThreadAppliesALog == Spec => []OneApplier
<1>1. Inv => OneApplier
  <2>1. ASSUME Inv, NEW t \in Threads, pc[t] \in {"redo", "release"}
        PROVE  /\ meta[loc[t].obj] = LockedBy(loc[t].snap)
               /\ \A u \in Threads \ {t} : pc[u] \in {"redo", "release"} => loc[u].obj # loc[t].obj
    <3>1. RedoOK(t) /\ AppliersOK /\ loc[t].obj \in Objects
      BY <2>1, ThreadFacts, LocTypes DEF Inv
    <3>2. QED
      BY <2>1, <3>1 DEF RedoOK, AppliersOK, Applies
  <2>2. QED
    BY <2>1 DEF OneApplier
<1>2. QED
  BY <1>1, Invariant, PTL

-------------------------------------------------------------------------------
(* What a step leaves of the contents of the objects.                        *)

\* The contents of an object whose metadata are m and that has d in place.
Contents(m, d) ==
  IF m.owner = Locked \/ (m.owner \in Threads /\ txState[m.owner] = "COMMITTED")
  THEN ContentsOf(m.log)
  ELSE d

\* A step that changes the contents of no object, and commits nothing.
Kept == /\ \A o \in Objects : Current(o)' = Current(o)
        /\ committed' = committed

\* They depend on the metadata, the object and the state of the owner.
LEMMA CurrentFrame ==
  ASSUME NEW o \in Objects, meta'[o] = meta[o], data'[o] = data[o],
         meta[o].owner \in Threads =>
           (txState'[meta[o].owner] = "COMMITTED" <=> txState[meta[o].owner] = "COMMITTED")
  PROVE  Current(o)' = Current(o)
  BY DEF Current

\* A step that touches none of these.
LEMMA QuietKept ==
  ASSUME UNCHANGED <<meta, data, txState, committed>>
  PROVE  Kept
  BY DEF Kept, Current

\* A step that only starts or kills a transaction that owns nothing or is not
\* committed.
LEMMA StateKept ==
  ASSUME Inv, NEW u \in Threads, NEW st \in States, st # "COMMITTED",
         txState' = [txState EXCEPT ![u] = st], UNCHANGED <<meta, data, committed>>,
         txState[u] = "COMMITTED" => \A o \in Objects : meta[o].owner # u
  PROVE  Kept
<1>1. txState'[u] = st /\ \A v \in Threads \ {u} : txState'[v] = txState[v]
  BY Types
<1>2. \A o \in Objects : Current(o)' = Current(o)
  <2>1. ASSUME NEW o \in Objects PROVE Current(o)' = Current(o)
    BY <1>1, CurrentFrame
  <2>2. QED
    BY <2>1
<1>3. QED
  BY <1>2 DEF Kept

\* A transaction that throws Aborted is not committed.
LEMMA AbortKept ==
  ASSUME Inv, NEW t \in Threads, ~Ended(t), Abort(t)
  PROVE  Kept
<1>1. txState[t] # "COMMITTED"
  BY ThreadFacts DEF PhaseOK
<1>2. txState' = [txState EXCEPT ![t] = "ABORTED"] /\ UNCHANGED <<meta, data, committed>>
  BY DEF Abort
<1>3. QED
  BY <1>1, <1>2, StateKept DEF States

\* A transaction that begins owns nothing.
LEMMA BeginKept ==
  ASSUME Inv, NEW t \in Threads, Begin(t)
  PROVE  Kept
<1>1. /\ txState' = [txState EXCEPT ![t] = "ACTIVE"] /\ UNCHANGED <<meta, data, committed>>
      /\ pc[t] = "idle"
  BY DEF Begin
<1>2. Elements(writes[t]) = {}
  BY <1>1, ThreadFacts DEF WritesOK, Elements
<1>3. \A o \in Objects : meta[o].owner # t
  BY <1>2, OwnedFacts
<1>4. QED
  BY <1>1, <1>3, StateKept DEF States

\* An owner is killed only while it is active (Descriptor_redo_lock.h:497-508).
LEMMA KillOwnerKept ==
  ASSUME Inv, NEW t \in Threads, KillOwner(t)
  PROVE  Kept
<1>1. PICK u \in Threads : u = loc[t].snap.owner
  BY ThreadFacts DEF KillOwner, SnapOK
<1>2. CASE txState[u] = "ACTIVE"
  <2>1. txState' = [txState EXCEPT ![u] = "ABORTED"] /\ UNCHANGED <<meta, data, committed>>
    BY <1>1, <1>2 DEF KillOwner, Kills, history
  <2>2. QED
    BY <1>2, <2>1, StateKept DEF States
<1>3. CASE txState[u] # "ACTIVE"
  BY <1>1, <1>3, QuietKept DEF KillOwner, Kills, history
<1>4. QED
  BY <1>2, <1>3

\* The metadata of an object change, and its contents do not.
LEMMA MetaKept ==
  ASSUME Inv, NEW o \in Objects, NEW m \in Meta, meta' = [meta EXCEPT ![o] = m],
         UNCHANGED <<data, txState, committed>>, Contents(m, data[o]) = Current(o)
  PROVE  Kept
<1>1. meta'[o] = m /\ \A q \in Objects : q # o => meta'[q] = meta[q]
  BY Types
<1>2. ASSUME NEW q \in Objects PROVE Current(q)' = Current(q)
  <2>1. CASE q = o
    BY <1>1, <2>1 DEF Contents, Current
  <2>2. CASE q # o
    BY <1>1, <2>2, CurrentFrame
  <2>3. QED
    BY <2>1, <2>2
<1>3. QED
  BY <1>2 DEF Kept

\* The same of a CAS, which may fail.
LEMMA CasKept ==
  ASSUME Inv, NEW o \in Objects, NEW from \in Meta, NEW to \in Meta, casX(o, from, to),
         UNCHANGED <<data, txState, committed>>,
         meta[o] = from => Contents(to, data[o]) = Current(o)
  PROVE  Kept
<1>1. CASE meta[o] = from
  <2>1. meta' = [meta EXCEPT ![o] = to]
    BY <1>1 DEF casX
  <2>2. QED
    BY <1>1, <2>1, MetaKept
<1>2. CASE meta[o] # from
  <2>1. meta' = meta
    BY <1>2, Types DEF casX
  <2>2. QED
    BY <2>1, QuietKept
<1>3. QED
  BY <1>1, <1>2

\* What stands in place counts while an object is free, or its owner has not
\* committed; the log does once it has, or the object is locked.
LEMMA ContentsFacts ==
  /\ \A m \in Meta : \A d : m.owner = Free => Contents(m, d) = d
  /\ \A m \in Meta : \A d : m.owner \in Threads /\ txState[m.owner] # "COMMITTED" => Contents(m, d) = d
  /\ \A m \in Meta : \A d : m.owner \in Threads /\ txState[m.owner] = "COMMITTED" =>
       Contents(m, d) = ContentsOf(m.log)
  /\ \A m \in Meta : \A d : m.owner = Locked => Contents(m, d) = ContentsOf(m.log)
  /\ \A o \in Objects : Current(o) = Contents(meta[o], data[o])
  BY MetaFacts DEF Contents, Current

\* The CASes of the helpers: an aborted owner is removed, a committed one is
\* replaced by the lock, and its log stays (Descriptor_redo_lock.h:873-897).
LEMMA HelpKept ==
  ASSUME Inv, NEW t \in Threads, CleanOnAbort(t) \/ Lock(t)
  PROVE  Kept
<1>o. PICK o \in Objects, s \in Meta : o = loc[t].obj /\ s = loc[t].snap
  BY LocTypes
<1>1. /\ s.owner \in Threads
      /\ meta[o] = s /\ pc[t] = "cleanAbort" => txState[s.owner] = "ABORTED"
      /\ meta[o] = s /\ pc[t] = "lock" => txState[s.owner] = "COMMITTED"
  BY <1>o, ThreadFacts DEF SnapOK, CleanOnAbort, Lock
<1>2. CASE CleanOnAbort(t)
  <2>1. PICK m \in Meta : m = Unowned(s.ver) /\ m.owner = Free
    BY MetaFacts
  <2>2. casX(o, s, m) /\ UNCHANGED <<data, txState, committed>> /\ pc[t] = "cleanAbort"
    BY <1>2, <1>o, <2>1 DEF CleanOnAbort, history
  <2>3. meta[o] = s => Contents(m, data[o]) = data[o] /\ Current(o) = data[o]
    BY <1>1, <2>1, <2>2, ContentsFacts
  <2>4. QED
    BY <2>2, <2>3, CasKept
<1>3. CASE Lock(t)
  <2>1. PICK m \in Meta : m = LockedBy(s) /\ m.owner = Locked /\ m.log = s.log
    BY MetaFacts
  <2>2. casX(o, s, m) /\ UNCHANGED <<data, txState, committed>> /\ pc[t] = "lock"
    BY <1>3, <1>o, <2>1 DEF Lock, history
  <2>3. meta[o] = s => Contents(m, data[o]) = ContentsOf(s.log) /\ Current(o) = ContentsOf(s.log)
    BY <1>1, <2>1, <2>2, ContentsFacts
  <2>4. QED
    BY <2>2, <2>3, CasKept
<1>4. QED
  BY <1>2, <1>3

\* The log is applied while the object is locked, and there when it is released
\* (Descriptor_redo_lock.h:898-913).
LEMMA ApplyKept ==
  ASSUME Inv, NEW t \in Threads, Redo(t) \/ ReleaseLock(t)
  PROVE  Kept
<1>o. PICK o \in Objects, s \in Meta : o = loc[t].obj /\ s = loc[t].snap
  BY LocTypes
<1>m. PICK m \in Meta : m = LockedBy(s) /\ m.owner = Locked /\ m.log = s.log
  BY MetaFacts
<1>1. meta[o] = m /\ (pc[t] = "release" => data[o] = ContentsOf(s.log))
  BY <1>o, <1>m, ThreadFacts DEF RedoOK, Redo, ReleaseLock
<1>2. CASE Redo(t)
  <2>1. data' = [data EXCEPT ![o] = ContentsOf(s.log)] /\ UNCHANGED <<meta, txState, committed>>
    BY <1>2, <1>o DEF Redo, history
  <2>2. \A q \in Objects : q # o => data'[q] = data[q]
    BY <2>1, Types
  <2>3. ASSUME NEW q \in Objects PROVE Current(q)' = Current(q)
    <3>1. CASE q = o
      BY <1>m, <1>1, <2>1, <3>1 DEF Current
    <3>2. CASE q # o
      BY <2>1, <2>2, <3>2, CurrentFrame
    <3>3. QED
      BY <3>1, <3>2
  <2>4. QED
    BY <2>1, <2>3 DEF Kept
<1>3. CASE ReleaseLock(t)
  <2>1. PICK f \in Meta : f = Unowned(NextVersion(s.ver)) /\ f.owner = Free
    <3>1. NextVersion(s.ver) \in Nat
      BY MetaFacts DEF NextVersion
    <3>2. QED
      BY <3>1, MetaFacts
  <2>2. meta' = [meta EXCEPT ![o] = f] /\ UNCHANGED <<data, txState, committed>> /\ pc[t] = "release"
    BY <1>3, <1>o, <2>1 DEF ReleaseLock, history
  <2>3. Contents(f, data[o]) = data[o] /\ Current(o) = ContentsOf(s.log)
    BY <1>m, <1>1, <2>1, ContentsFacts
  <2>4. QED
    BY <1>1, <2>2, <2>3, MetaKept
<1>4. QED
  BY <1>2, <1>3

\* A thread that cleans up after itself does the same
\* (Descriptor_redo_lock.h:762-862).
LEMMA RestoreKept ==
  ASSUME Inv, NEW t \in Threads, RestoreObject(t)
  PROVE  Kept
<1>1. PICK w \in Elements(writes[t]) : w = Head(writes[t])
  <2>1. PICK s \in Seq(Entry) : s = writes[t] /\ s # <<>>
    BY Types DEF RestoreObject
  <2>2. QED
    BY <2>1, ElementsTail
<1>2. PICK o \in Objects, mine \in Meta :
        o = w.obj /\ mine = Owned(t, w.log, w.ver) /\ mine.owner = t /\ mine.log = w.log
  BY EntryFacts, MetaFacts
<1>3. PICK f \in Meta : f = Unowned(w.ver) /\ f.owner = Free
  BY EntryFacts, MetaFacts
<1>4. PICK k \in Meta : k = LockedBy(mine) /\ k.owner = Locked /\ k.log = w.log
  BY <1>2, MetaFacts
<1>5. PICK to \in Meta : to = IF txState[t] = "COMMITTED" THEN k ELSE f
  OBVIOUS
<1>6. casX(o, mine, to) /\ UNCHANGED <<data, txState, committed>>
  BY <1>1, <1>2, <1>3, <1>4, <1>5 DEF RestoreObject, history
<1>7. ASSUME meta[o] = mine PROVE Contents(to, data[o]) = Current(o)
  <2>1. CASE txState[t] = "COMMITTED"
    BY <1>2, <1>4, <1>5, <1>7, <2>1, ContentsFacts
  <2>2. CASE txState[t] # "COMMITTED"
    BY <1>2, <1>3, <1>5, <1>7, <2>2, ContentsFacts
  <2>3. QED
    BY <2>1, <2>2
<1>8. QED
  BY <1>6, <1>7, CasKept

\* An object is acquired by a transaction that has not committed.
LEMMA AcquireKept ==
  ASSUME Inv, NEW t \in Threads, Acquire(t), loc[t].kind = "RW"
  PROVE  Kept
<1>o. PICK o \in Objects, s \in Meta : o = loc[t].obj /\ s = loc[t].snap
  BY LocTypes
<1>1. pc[t] = "acquire" /\ s.owner = Free /\ UNCHANGED <<data, txState, committed>>
  BY <1>o, ThreadFacts DEF Acquire, SnapOK, history
<1>2. txState[t] # "COMMITTED"
  BY <1>1, ThreadFacts DEF PhaseOK, Ended
<1>3. PICK log \in Logs : log = NewLog(t, o)
  BY <1>1, <1>o, NewLogFacts
<1>4. CASE meta' = meta
  BY <1>1, <1>4, QuietKept
<1>5. CASE meta' # meta
  <2>1. PICK m \in Meta : m = Owned(t, log, s.ver) /\ m.owner = t
    BY MetaFacts
  <2>2. meta \in [Objects -> Meta]
    BY Types
  <2>3. meta[o] = s /\ meta' = [meta EXCEPT ![o] = m]
    BY <1>o, <1>3, <1>5, <2>1, <2>2 DEF Acquire
  <2>4. Contents(m, data[o]) = data[o] /\ Current(o) = data[o]
    BY <1>1, <1>2, <2>1, <2>3, ContentsFacts
  <2>5. QED
    BY <1>1, <2>3, <2>4, MetaKept
<1>6. QED
  BY <1>4, <1>5

\* So it is in acquireLazily (Descriptor_redo_lock.h:741-760).
LEMMA AcquireLazilyKept ==
  ASSUME Inv, NEW t \in Threads, AcquireLazily(t)
  PROVE  Kept
<1>1. /\ pc[t] = "acquireLazily" /\ ~Ended(t)
      /\ \E w \in Elements(writes[t]) : ~w.acquired
  BY ThreadFacts DEF AcquireLazily, KindOK, WritesOK, Ended
<1>2. txState[t] # "COMMITTED"
  BY <1>1, ThreadFacts DEF PhaseOK
<1>s. PICK s \in Seq(Entry), n \in Nat : s = writes[t] /\ n = Len(s) /\ DOMAIN s = 1 .. n
  BY Types
<1>3. PICK left : left = {i \in DOMAIN s : ~s[i].acquired}
  OBVIOUS
<1>4. PICK i : i = CHOOSE k \in left : \A m \in left : k <= m
  OBVIOUS
<1>5. i \in DOMAIN s
  <2>1. left # {} /\ left \subseteq Nat
    BY <1>1, <1>3, <1>s DEF Elements
  <2>2. \E k \in left : \A m \in left : k <= m
    BY <2>1, NatLeast
  <2>3. i \in left
    BY <1>4, <2>2
  <2>4. QED
    BY <1>3, <2>3
<1>w. PICK w \in Elements(writes[t]) : w = s[i]
  BY <1>5, <1>s DEF Elements
<1>o. PICK o \in Objects, log \in Logs, v \in Nat : o = w.obj /\ log = w.log /\ v = w.ver
  BY EntryFacts
<1>6. CASE meta[o] # Unowned(v)
  <2>1. Abort(t)
    BY <1>3, <1>4, <1>6, <1>o, <1>s, <1>w DEF AcquireLazily
  <2>2. QED
    BY <1>1, <2>1, AbortKept
<1>7. CASE meta[o] = Unowned(v)
  <2>1. PICK m \in Meta : m = Owned(t, log, v) /\ m.owner = t
    BY MetaFacts
  <2>2. meta' = [meta EXCEPT ![o] = m] /\ UNCHANGED <<data, txState, committed>>
    BY <1>3, <1>4, <1>7, <1>o, <1>s, <1>w, <2>1 DEF AcquireLazily, history
  <2>3. Contents(m, data[o]) = data[o] /\ Current(o) = data[o]
    BY <1>2, <1>7, <2>1, MetaFacts, ContentsFacts
  <2>4. QED
    BY <2>2, <2>3, MetaKept
<1>8. QED
  BY <1>6, <1>7

\* The contents of all objects, and the transactions that have committed.
Mem == [o \in Objects |-> Current(o)]
Log == {[tx |-> c.tx, writes |-> c.writes] : c \in committed}

\* The commit of a transaction by its CAS of tx_state.
CommitsNow(t) ==
  /\ pc[t] = "cas" /\ txState[t] = "ACTIVE"
  /\ txState' = [txState EXCEPT ![t] = "COMMITTED"]
  /\ committed' = committed \cup
       {[tx |-> Tx(t), reads |-> seen[t], after |-> began[t],
         writes |-> {<<writes[t][i].obj, writes[t][i].read>> : i \in DOMAIN writes[t]}]}
  /\ meta' = meta /\ data' = data

\* No statement of an open changes the contents of an object.
LEMMA OpenKept ==
  ASSUME Inv, NEW t \in Threads
  PROVE  /\ OpenLoop(t) => Kept
         /\ OpenTx(t) => Kept
<1>1. CASE Load(t) \/ LookAtOwner(t) \/ Recheck(t) \/ GiveWay(t)
  BY <1>1, QuietKept DEF Load, LookAtOwner, Recheck, GiveWay, OnlyGoTo, shared, history
<1>2. CASE Contend(t)
  <2>1. CASE Abort(t) /\ loc[t].kind # "UN"
    <3>1. ~Ended(t)
      BY <1>2, <2>1 DEF Contend, Ended
    <3>2. QED
      BY <2>1, <3>1, AbortKept
  <2>2. CASE UNCHANGED <<shared, private, history>>
    BY <2>2, QuietKept DEF shared, history
  <2>3. QED
    BY <1>2, <2>1, <2>2 DEF Contend
<1>3. CASE Validate(t) \/ Opened(t)
  <2>1. ~Ended(t)
    BY <1>3, ThreadFacts DEF Validate, Opened, KindOK, Ended
  <2>2. Abort(t) \/ UNCHANGED <<meta, data, txState, committed>>
    BY <1>3 DEF Validate, Opened, shared, history
  <2>3. QED
    BY <2>1, <2>2, AbortKept, QuietKept
<1>4. CASE CheckCounter(t) \/ CacheCounter(t)
  BY <1>4, QuietKept DEF CheckCounter, CacheCounter, OnlyGoTo, shared, history
<1>5. CASE KillOwner(t) \/ CleanOnAbort(t) \/ Lock(t) \/ Redo(t) \/ ReleaseLock(t)
  BY <1>5, KillOwnerKept, HelpKept, ApplyKept
<1>6. QED
  BY <1>1, <1>2, <1>3, <1>4, <1>5 DEF OpenLoop, OpenTx

\* No statement but that CAS changes the contents of an object.
LEMMA ThreadKept ==
  ASSUME Inv, NEW t \in Threads, Thread(t)
  PROVE  Kept \/ CommitsNow(t)
<1>1. CASE \E o \in Objects, kind \in {"RO", "RW"} : Open(t, o, kind)
  <2>1. ~Ended(t)
    BY <1>1, ThreadFacts DEF Open, KindOK, Ended
  <2>2. Abort(t) \/ UNCHANGED <<meta, data, txState, committed>>
    BY <1>1 DEF Open, shared, history
  <2>3. QED
    BY <2>1, <2>2, AbortKept, QuietKept
<1>2. CASE getReadable(t)
  BY <1>1, <1>2, OpenKept DEF getReadable
<1>3. CASE getWritable(t)
  <2>1. CASE Clone(t)
    BY <2>1, QuietKept DEF Clone, shared, history
  <2>2. QED
    BY <1>1, <1>3, <2>1, OpenKept, AcquireKept DEF getWritable
<1>4. CASE open_un(t)
  <2>1. CASE \E o \in Objects : OpenUn(t, o)
    BY <2>1, QuietKept DEF OpenUn, shared, history
  <2>2. QED
    BY <1>4, <2>1, OpenKept DEF open_un
<1>5. CASE commit(t)
  <2>1. CASE Commit(t) \/ TryCommit(t) \/ ForceCommit(t)
    BY <2>1, QuietKept DEF Commit, TryCommit, ForceCommit, shared, history
  <2>2. CASE CommitCas(t)
    <3>1. CASE txState[t] = "ACTIVE"
      BY <2>2, <3>1 DEF CommitCas, CommitsNow
    <3>2. CASE txState[t] # "ACTIVE"
      BY <2>2, <3>2, QuietKept DEF CommitCas
    <3>3. QED
      BY <3>1, <3>2
  <2>3. QED
    BY <1>5, <2>1, <2>2, AcquireLazilyKept, OpenKept DEF commit, OpenTx
<1>6. CASE cleanup(t)
  <2>1. CASE EndTransaction(t)
    BY <2>1, QuietKept DEF EndTransaction, shared
  <2>2. QED
    BY <1>6, <2>1, RestoreKept, ApplyKept DEF cleanup
<1>7. CASE Begin(t)
  BY <1>7, BeginKept
<1>8. CASE ReadField(t) \/ Release(t)
  BY <1>8, QuietKept DEF ReadField, Release, shared, history
<1>9. CASE CheckField(t)
  <2>1. ~Ended(t)
    BY <1>9, ThreadFacts DEF CheckField, KindOK, Ended
  <2>2. Abort(t) \/ UNCHANGED <<meta, data, txState, committed>>
    BY <1>9 DEF CheckField, shared
  <2>3. QED
    BY <2>1, <2>2, AbortKept, QuietKept
<1>10. QED
  BY <1>2, <1>3, <1>4, <1>5, <1>6, <1>7, <1>8, <1>9 DEF Thread

-------------------------------------------------------------------------------
(* RedoLock implements TxMemory.                                             *)

\* What a transaction that commits has written: it owns each object by a log
\* that was cloned from contents that are still there.
LEMMA Written ==
  ASSUME Inv, NEW t \in Threads, pc[t] = "cas", txState[t] = "ACTIVE"
  PROVE  /\ \A w \in Elements(writes[t]) :
              /\ w.obj \in Objects /\ meta[w.obj].owner = t /\ ContentsOf(meta[w.obj].log) = Tx(t)
              /\ Current(w.obj) = w.read
         /\ \A o \in Objects : meta[o].owner = t => \E w \in Elements(writes[t]) : w.obj = o
         /\ Tx(t) \in Txs
         /\ \A c \in committed : c.tx # Tx(t)
<1>1. WritesOK(t) /\ PhaseOK(t) /\ EndsCommit(t) /\ ~Ended(t)
  BY ThreadFacts DEF EndsCommit, Ended, KindOK
<1>2. ASSUME NEW w \in Elements(writes[t])
      PROVE  /\ w.obj \in Objects /\ meta[w.obj].owner = t /\ ContentsOf(meta[w.obj].log) = Tx(t)
             /\ Current(w.obj) = w.read
  <2>1. /\ w.obj \in Objects /\ w.ver \in Nat /\ w.log \in Logs /\ w.log[1] = t /\ w.log[2] = attempt[t]
        /\ Fresh(w.obj, w.ver, w.read)
    BY EntryFacts
  <2>2. meta[w.obj] = Owned(t, w.log, w.ver)
    BY <1>1 DEF WritesOK
  <2>3. meta[w.obj].owner = t /\ meta[w.obj].log = w.log /\ meta[w.obj].ver = w.ver
    BY <2>1, <2>2, MetaFacts
  <2>4. ContentsOf(w.log) = Tx(t)
    BY <2>1 DEF ContentsOf, Tx
  <2>5. t # Locked
    BY MetaFacts
  <2>6. Current(w.obj) = data[w.obj] /\ data[w.obj] = w.read
    BY <2>1, <2>3, <2>5 DEF Current, Fresh
  <2>7. QED
    BY <2>1, <2>3, <2>4, <2>6
<1>3. \A o \in Objects : meta[o].owner = t => \E w \in Elements(writes[t]) : w.obj = o
  BY OwnedFacts
<1>4. Tx(t) \in Txs
  <2>1. attempt[t] \in 1 .. MaxAttempts
    BY <1>1, Types DEF PhaseOK
  <2>2. QED
    BY <2>1 DEF Tx, Txs
<1>5. ASSUME NEW c \in committed PROVE c.tx # Tx(t)
  <2>1. PICK u \in Threads : /\ c.tx = <<u, c.tx[2]>>
                             /\ c.tx[2] = attempt[u] => Ended(u)
    BY DEF Inv, CommittedOK
  <2>2. c.tx = Tx(t) => u = t /\ c.tx[2] = attempt[t]
    BY <2>1 DEF Tx
  <2>3. QED
    BY <1>1, <2>1, <2>2
<1>6. QED
  BY <1>2, <1>3, <1>4, <1>5

\* The CAS is a commit of TxMemory.
LEMMA CommitIsAtomic ==
  ASSUME Inv, NEW t \in Threads, CommitsNow(t),
         NEW written, written = {w.obj : w \in Elements(writes[t])}
  PROVE  Memory!Commit(Tx(t), written)
<1>1. /\ pc[t] = "cas" /\ txState[t] = "ACTIVE" /\ meta' = meta /\ data' = data
      /\ txState' = [txState EXCEPT ![t] = "COMMITTED"]
      /\ committed' = committed \cup
           {[tx |-> Tx(t), reads |-> seen[t], after |-> began[t],
             writes |-> {<<writes[t][i].obj, writes[t][i].read>> : i \in DOMAIN writes[t]}]}
  BY DEF CommitsNow
<1>2. txState'[t] = "COMMITTED" /\ \A u \in Threads \ {t} : txState'[u] = txState[u]
  BY <1>1, Types
<1>s. \A o : o \in written <=> \E w \in Elements(writes[t]) : w.obj = o
  OBVIOUS
<1>3. \A o \in written : o \in Objects /\ meta[o].owner = t /\ ContentsOf(meta[o].log) = Tx(t)
  BY <1>1, <1>s, Written
<1>4. {<<writes[t][i].obj, writes[t][i].read>> : i \in DOMAIN writes[t]}
         = {<<o, Current(o)>> : o \in written}
  <2>1. ASSUME NEW i \in DOMAIN writes[t]
        PROVE  writes[t][i].obj \in written /\ Current(writes[t][i].obj) = writes[t][i].read
    <3>1. writes[t][i] \in Elements(writes[t])
      BY DEF Elements
    <3>2. QED
      BY <1>1, <1>s, <3>1, Written
  <2>2. ASSUME NEW o \in written
        PROVE  \E i \in DOMAIN writes[t] : writes[t][i].obj = o /\ writes[t][i].read = Current(o)
    <3>1. PICK i \in DOMAIN writes[t] : writes[t][i].obj = o
      BY <1>s DEF Elements
    <3>2. QED
      BY <2>1, <3>1
  <2>3. QED
    BY <2>1, <2>2
<1>5. ASSUME NEW o \in Objects
      PROVE  Current(o)' = IF o \in written THEN Tx(t) ELSE Current(o)
  <2>1. CASE o \in written
    BY <1>1, <1>2, <1>3, <2>1 DEF Current
  <2>2. CASE o \notin written
    <3>1. meta[o].owner # t
      BY <1>1, <1>s, <2>2, Written
    <3>2. QED
      BY <1>1, <1>2, <2>2, <3>1, CurrentFrame
  <2>3. QED
    BY <2>1, <2>2
<1>6. Mem' = [o \in Objects |-> IF o \in written THEN Tx(t) ELSE Mem[o]]
  BY <1>5 DEF Mem
<1>7. Log' = Log \cup {[tx |-> Tx(t), writes |-> {<<o, Mem[o]>> : o \in written}]}
  <2>1. {<<o, Mem[o]>> : o \in written} = {<<o, Current(o)>> : o \in written}
    BY <1>3 DEF Mem
  <2>2. PICK c0 : c0 = [tx |-> Tx(t), reads |-> seen[t], after |-> began[t],
                        writes |-> {<<writes[t][i].obj, writes[t][i].read>> : i \in DOMAIN writes[t]}]
    OBVIOUS
  <2>3. c0.tx = Tx(t) /\ c0.writes = {<<o, Mem[o]>> : o \in written}
    BY <1>4, <2>1, <2>2
  <2>4. committed' = committed \cup {c0}
    BY <1>1, <2>2
  <2>5. QED
    BY <2>3, <2>4 DEF Log
<1>8. \A entry \in Log : entry.tx # Tx(t)
  BY <1>1, Written DEF Log
<1>9. QED
  BY <1>6, <1>7, <1>8 DEF Memory!Commit, Mem, Log

\* For any number of threads, objects and attempts, RedoLock implements
\* TxMemory: the CAS of tx_state replaces all objects that a transaction wrote
\* at once, each by contents made from those it replaces, so that no update is
\* lost; and no other step of anybody changes the contents of an object, although
\* they are written in place afterwards, one object at a time, by the owner or by
\* whoever gets the lock (Descriptor_redo_lock.h:672-695, 762-862, 888-913).
THEOREM TransactionsAreAtomic == Spec => ImplementsTxMemory
<1>1. Init => Memory!Init
  <2>1. ASSUME Init, NEW o \in Objects PROVE Current(o) = Initial
    <3>1. meta[o] = Unowned(FirstVersion) /\ data[o] = Initial
      BY <2>1 DEF Init
    <3>2. meta[o].owner = Free
      BY <3>1, MetaFacts DEF FirstVersion
    <3>3. QED
      BY <3>1, <3>2, MetaFacts DEF Current
  <2>2. ASSUME Init PROVE Log = {}
    BY <2>2 DEF Init, Log
  <2>3. QED
    BY <2>1, <2>2 DEF Memory!Init, Log
<1>2. Inv /\ [Next]_vars => [Memory!Next]_<<Mem, Log>>
  <2>1. ASSUME Kept PROVE UNCHANGED <<Mem, Log>>
    BY <2>1 DEF Kept, Mem, Log
  <2>2. ASSUME Inv, NEW t \in Threads, CommitsNow(t) PROVE Memory!Next
    <3>w. PICK written : written = {w.obj : w \in Elements(writes[t])}
      OBVIOUS
    <3>1. Memory!Commit(Tx(t), written)
      BY <2>2, <3>w, CommitIsAtomic
    <3>2. Tx(t) \in Txs /\ written \in SUBSET Objects
      BY <2>2, <3>w, Written DEF CommitsNow
    <3>3. QED
      BY <3>1, <3>2 DEF Memory!Next
  <2>3. ASSUME UNCHANGED vars \/ OtherCommit PROVE Kept
    BY <2>3, QuietKept DEF vars, shared, history, OtherCommit
  <2>4. QED
    BY <2>1, <2>2, <2>3, ThreadKept DEF Next
<1>3. QED
  BY <1>1, <1>2, Invariant, PTL DEF Spec, ImplementsTxMemory, Memory!Spec, Mem, Log
===============================================================================
