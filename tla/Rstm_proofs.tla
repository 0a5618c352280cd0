----------------------------- MODULE Rstm_proofs ------------------------------
(*****************************************************************************)
(* Theorems about Rstm, for every number of threads, objects and attempts.   *)
(*                                                                           *)
(* Inv is inductive. Its heart is SnapOK: a transaction that took a snapshot *)
(* of an owned header may act on what it read of the owner, however late, if *)
(* its CAS finds the header unchanged, because a version that has been in a  *)
(* header does not come back (Used). The proof is of the rely/guarantee      *)
(* kind: Others, Headers and UsedStable say what a step of one thread may do *)
(* to the rest; OtherThreads shows once that what the other threads rely on  *)
(* is stable under them; each lemma ...Step shows that one statement keeps   *)
(* to them and re-establishes what its own thread relies on.                 *)
(*****************************************************************************)
EXTENDS Rstm, NatFacts

-------------------------------------------------------------------------------
(* The invariant.                                                            *)

\* The values of tx_state.
States == {"ACTIVE", "ABORTED", "COMMITTED"}
\* A version, or NULL.
AnyVersion == Versions \cup {NullVersion}
\* An entry of eagerWrites or lazyWrites.
Entry == [obj : Objects, old : Versions, new : Versions, acquired : BOOLEAN]
\* An object and a version of it.
Pair == Objects \X Versions
\* The locals of open_RO, open_RW and commit.
Locals == [obj : Objects, kind : {"RO", "RW"}, snap : Header, older : AnyVersion,
           state : States, newer : AnyVersion, todo : Seq(Pair),
           pending : SUBSET Threads, then : {"work", "opened", "cas"}]

\* The types of the shared memory, of the threads, of their lists and of the
\* history: TypeOK, and what it leaves out.
MemoryOK ==
  /\ header \in [Objects -> Header]
  /\ next \in [Objects -> [Versions -> AnyVersion]]
  /\ readers \in [Objects -> SUBSET Threads]
  /\ txState \in [Threads -> States]

ThreadOK ==
  /\ pc \in [Threads -> Labels]
  /\ mode \in [Threads -> [isVisible : BOOLEAN, isLazy : BOOLEAN]]
  /\ attempt \in [Threads -> 0 .. MaxAttempts]
  /\ loc \in [Threads -> Locals]

ListsOK ==
  /\ invisReads \in [Threads -> Seq(Pair)]
  /\ visReads \in [Threads -> SUBSET Objects]
  /\ writes \in [Threads -> Seq(Entry)]

HistoryOK ==
  /\ seen \in [Threads -> SUBSET Pair]
  /\ began \in [Threads -> SUBSET Versions]
  /\ \A c \in committed : c.tx \in Versions

\* What thread t relies on at its next statement: the state it is in, the
\* snapshot it holds, the version it chose.
LocalOK(t) ==
  LET l == loc[t] IN
  /\ pc[t] = "idle" => writes[t] = <<>> /\ visReads[t] = {}
  /\ pc[t] # "idle" => attempt[t] >= 1
  /\ pc[t] \notin {"idle", "restore"} => txState[t] \in {"ACTIVE", "ABORTED"}
  /\ pc[t] \in {"idle", "restore"} => txState[t] # "ACTIVE"
  /\ l.snap.owned => OwnerOf(l.snap.ver) \in Threads
  /\ pc[t] \in {"look", "recheck", "decide", "cleanAbort", "cleanCommit"} => l.snap.owned
  /\ pc[t] \in {"look", "recheck", "decide", "cleanCommit"} => l.newer = l.snap.ver
  /\ pc[t] = "decide" => l.older \in Versions
  /\ pc[t] \in {"cleanAbort", "cleanCommit", "acquire", "clone", "install", "check", "insert", "opened"}
       => l.newer \in Versions
  /\ pc[t] \in {"snapReaders", "killReaders"} /\ ~mode[t].isLazy => l.newer \in Versions
  /\ pc[t] = "validate" /\ l.then = "opened" => l.newer \in Versions
  /\ pc[t] = "validate" => l.todo # <<>> /\ l.then \in {"opened", "cas"}

\* The statements that only a visible or an invisible reader, an eager or a lazy
\* writer reaches.
ModeOK(t) ==
  LET l == loc[t] IN
  /\ pc[t] = "acquire" => ~mode[t].isLazy /\ l.kind = "RW"
  /\ pc[t] = "clone" => mode[t].isLazy /\ l.kind = "RW"
  /\ pc[t] \in {"install", "check"} => mode[t].isVisible /\ l.kind = "RO"
  /\ pc[t] = "insert" => ~mode[t].isVisible /\ l.kind = "RO"
  /\ pc[t] = "acquireLazily" => mode[t].isLazy
  /\ pc[t] \in {"cleanAbort", "cleanCommit"} => CleansFirst(t)
  /\ ~mode[t].isVisible => visReads[t] = {}

\* No two entries of writes are of the same object.
Single(t) ==
  \A i, k \in DOMAIN writes[t] : writes[t][i].obj = writes[t][k].obj => i = k

\* A lazy writer is in an open that has not added to lazyWrites.
OpenLabels == {"load", "look", "recheck", "decide", "contend", "cleanAbort", "cleanCommit", "clone"}

\* The thread has used the version that its open chose, and checks it.
EndsOpen(t) == \/ pc[t] \in {"snapReaders", "killReaders", "opened"}
               \/ pc[t] = "validate" /\ loc[t].then = "opened"

\* The thread has acquired all it writes, and validates before it commits.
EndsCommit(t) == \/ pc[t] \in {"verify", "cas"}
                 \/ pc[t] = "validate" /\ loc[t].then = "cas"

\* The list of writes: the entries name versions of this attempt; an object is
\* there twice only if an eager transaction was killed and has not noticed; while
\* a transaction is active, it owns what it acquired.
WritesOK(t) ==
  LET l == loc[t]
      entries == Elements(writes[t])
  IN
  /\ \A w \in entries : w.new = <<t, attempt[t], w.new[3]>> /\ w.new[3] \in 1 .. 2
  /\ \A i, k \in DOMAIN writes[t] :
       writes[t][i].obj = writes[t][k].obj /\ writes[t][i].new = writes[t][k].new => i = k
  /\ (\E w \in entries : w.new[3] = 2) \/ ~Single(t) =>
       ~mode[t].isLazy /\ Killed(t) /\ (EndsOpen(t) \/ pc[t] = "restore")
  /\ ~mode[t].isLazy => \A w \in entries : w.acquired
  /\ mode[t].isLazy /\ pc[t] \in OpenLabels => \A w \in entries : w.obj # l.obj
  /\ ~mode[t].isLazy /\ l.kind = "RW" /\ EndsOpen(t) =>
       \E w \in entries : w.obj = l.obj /\ w.old = l.newer
  /\ EndsCommit(t) => \A w \in entries : w.acquired
  /\ txState[t] = "ACTIVE" =>
       \A w \in entries : w.acquired => header[w.obj] = Owned(w.new)

\* Version v of object o has been acquired, or will never be: no CAS can put it
\* into the header (again), so a header that shows it now showed it all along.
Used(o, v) ==
  LET u == OwnerOf(v) IN
  \/ v[2] < attempt[u]
  \/ /\ v[2] = attempt[u]
     /\ \/ pc[u] \in {"restore", "idle"}
        \/ \E w \in Elements(writes[u]) : w.obj = o /\ w.new = v /\ w.acquired

\* The snapshot of an owned header: a version that Used says is not acquired
\* again, and, if the header still shows it, an m_next and a tx_state that are
\* those of the version chosen (Descriptor_rstm.h:1128-1219).
SnapOK(t) ==
  LET l == loc[t]
      o == l.obj
      v == l.snap.ver
  IN
  /\ pc[t] = "acquire" /\ ~l.snap.owned => l.newer = v
  /\ pc[t] \in {"look", "recheck", "decide", "cleanAbort", "cleanCommit", "acquire"} /\ l.snap.owned
       => Used(o, v)
  /\ header[o] = l.snap /\ l.snap.owned =>
       /\ pc[t] = "recheck" => /\ l.older = next[o][v]
                               /\ l.state # "ACTIVE" => txState[OwnerOf(v)] = l.state
       /\ pc[t] = "decide" => l.older = next[o][v]
       /\ pc[t] \in {"cleanAbort", "cleanCommit", "acquire"} =>
            /\ txState[OwnerOf(v)] # "ACTIVE"
            /\ l.newer = IF txState[OwnerOf(v)] = "COMMITTED" THEN v ELSE next[o][v]

\* Thread t has version v of object o in its list of writes, and the version
\* it was cloned from is the m_next of v.
Owns(t, o, v) ==
  \E w \in Elements(writes[t]) : w.obj = o /\ w.acquired /\ w.new = v /\ w.old = next[o][v]

\* An owned header leads to a transaction that has it in its list.
OwnerOK ==
  \A o \in Objects : header[o].owned =>
    \E t \in Threads : pc[t] # "idle" /\ Owns(t, o, header[o].ver)

\* The committed transactions are attempts that have ended.
CommittedOK ==
  \A c \in committed : \E u \in Threads :
    /\ c.tx = <<u, c.tx[2], 1>> /\ c.tx[2] \in Nat /\ c.tx[2] <= attempt[u]
    /\ c.tx[2] = attempt[u] => pc[u] \in {"restore", "idle"}

\* The bitmap of an object and the lists of the readers agree.
ReadersOK(t) ==
  \A o \in Objects : /\ t \in readers[o] => o \in visReads[t]
                     /\ o \in visReads[t] => t \in readers[o]

\* The invariant: the types, what every thread relies on, the owned headers and
\* the history.
TypeInv == MemoryOK /\ ThreadOK /\ ListsOK /\ HistoryOK

ThreadInv(t) == LocalOK(t) /\ ModeOK(t) /\ WritesOK(t) /\ SnapOK(t) /\ ReadersOK(t)

Inv == TypeInv /\ (\A t \in Threads : ThreadInv(t)) /\ OwnerOK /\ CommittedOK

-------------------------------------------------------------------------------
(* What a step of one thread may do to what the others rely on.              *)

\* What a step of thread t leaves of another thread: all of its own state, but
\* that it may have been killed.
Others(t) ==
  \A u \in Threads \ {t} :
    /\ pc'[u] = pc[u] /\ loc'[u] = loc[u] /\ mode'[u] = mode[u] /\ attempt'[u] = attempt[u]
    /\ writes'[u] = writes[u] /\ visReads'[u] = visReads[u] /\ invisReads'[u] = invisReads[u]
    /\ seen'[u] = seen[u]
    /\ txState'[u] = txState[u] \/ (txState[u] = "ACTIVE" /\ txState'[u] = "ABORTED")
    /\ \A o \in Objects : u \in readers'[o] <=> u \in readers[o]

\* What a step of thread t does to the headers: it may put a version in a header
\* only if the version was never there; while the header shows a version, its
\* m_next and the state of an ended owner stay; nobody takes a header from an
\* active owner but that owner.
Headers(t) ==
  \A o \in Objects, v \in Versions :
    /\ header'[o] = Owned(v) /\ header[o] # Owned(v) => ~Used(o, v)
    /\ header'[o] = Owned(v) /\ header[o] = Owned(v) =>
         /\ next'[o][v] = next[o][v]
         /\ OwnerOf(v) \in Threads /\ txState[OwnerOf(v)] # "ACTIVE" =>
              txState'[OwnerOf(v)] = txState[OwnerOf(v)]
    /\ header[o] = Owned(v) /\ OwnerOf(v) \in Threads \ {t} /\ txState[OwnerOf(v)] = "ACTIVE" =>
         header'[o] = header[o]

\* A version that is Used stays Used.
UsedStable ==
  \A o \in Objects, v \in Versions : OwnerOf(v) \in Threads /\ Used(o, v) => Used(o, v)'

-------------------------------------------------------------------------------
(* Versions, entries and sequences.                                          *)

\* The names of versions: the initial one has no owner, the others the thread
\* that made them, and NULL is none of them.
LEMMA VersionFacts ==
  /\ NullVersion \notin Versions /\ Initial \in Versions
  /\ \A t \in Threads, n \in 1 .. MaxAttempts, k \in 1 .. 2 :
       <<t, n, k>> \in Versions /\ OwnerOf(<<t, n, k>>) = t
  /\ \A v \in Versions : v = Initial \/ (OwnerOf(v) \in Threads /\ v = <<v[1], v[2], v[3]>>
                                         /\ v[2] \in 1 .. MaxAttempts /\ v[3] \in 1 .. 2)
  /\ OwnerOf(Initial) \notin Threads
  BY NoThreadAssumption, BoundAssumption DEF Versions, Initial, NullVersion, OwnerOf

\* The locals between two opens have the type of locals.
LEMMA NoLocalsType ==
  /\ NoLocals \in Locals /\ NoLocals.obj \in Objects /\ NoLocals.kind = "RO"
  /\ NoLocals.snap = Unowned(Initial) /\ NoLocals.todo = <<>> /\ NoLocals.pending = {}
  /\ NoLocals.then = "work" /\ NoLocals.newer = NullVersion
<1>1. (CHOOSE o \in Objects : TRUE) \in Objects
  BY ObjectsAssumption
<1>2. Unowned(Initial) \in Header /\ NullVersion \in AnyVersion
  BY VersionFacts DEF Unowned, Header, AnyVersion
<1>3. <<>> \in Seq(Pair)
  OBVIOUS
<1>4. QED
  BY <1>1, <1>2, <1>3 DEF NoLocals, Locals, States

\* The elements of a sequence over S are in S.
LEMMA ElementsType ==
  ASSUME NEW S, NEW s \in Seq(S)
  PROVE  /\ \A w : w \in Elements(s) <=> \E i \in DOMAIN s : w = s[i]
         /\ Elements(s) \subseteq S
         /\ s = <<>> => Elements(s) = {}
  BY DEF Elements

\* The elements of a sequence with one more at its end.
LEMMA ElementsAppend ==
  ASSUME NEW S, NEW s \in Seq(S), NEW e \in S
  PROVE  /\ Append(s, e) \in Seq(S) /\ Len(Append(s, e)) = Len(s) + 1 /\ Len(s) \in Nat
         /\ DOMAIN s = 1 .. Len(s) /\ DOMAIN Append(s, e) = 1 .. Len(s) + 1
         /\ \A i \in 1 .. Len(s) : Append(s, e)[i] = s[i]
         /\ Append(s, e)[Len(s) + 1] = e
         /\ Elements(Append(s, e)) = Elements(s) \cup {e}
<1>1. /\ Append(s, e) \in Seq(S) /\ Len(Append(s, e)) = Len(s) + 1 /\ Len(s) \in Nat
      /\ DOMAIN s = 1 .. Len(s) /\ DOMAIN Append(s, e) = 1 .. Len(s) + 1
      /\ \A i \in 1 .. Len(s) : Append(s, e)[i] = s[i]
      /\ Append(s, e)[Len(s) + 1] = e
  OBVIOUS
<1>2. Elements(Append(s, e)) = Elements(s) \cup {e}
  <2>1. ASSUME NEW w \in Elements(Append(s, e)) PROVE w \in Elements(s) \cup {e}
    BY <1>1 DEF Elements
  <2>2. e \in Elements(Append(s, e))
    BY <1>1 DEF Elements
  <2>3. ASSUME NEW w \in Elements(s) PROVE w \in Elements(Append(s, e))
    <3>1. PICK i \in 1 .. Len(s) : w = s[i]
      BY <1>1 DEF Elements
    <3>2. i \in 1 .. Len(s) + 1 /\ Append(s, e)[i] = w
      BY <1>1, <3>1
    <3>3. QED
      BY <1>1, <3>2 DEF Elements
  <2>4. QED
    BY <2>1, <2>2, <2>3
<1>3. QED
  BY <1>1, <1>2

\* The elements of a sequence are its head and those of its tail.
LEMMA ElementsTail ==
  ASSUME NEW S, NEW s \in Seq(S), s # <<>>
  PROVE  /\ Tail(s) \in Seq(S) /\ Len(s) \in Nat /\ Len(s) >= 1 /\ Head(s) = s[1] /\ Head(s) \in S
         /\ DOMAIN s = 1 .. Len(s) /\ DOMAIN Tail(s) = 1 .. Len(s) - 1
         /\ \A i \in 1 .. Len(s) - 1 : Tail(s)[i] = s[i + 1]
         /\ Elements(s) = {Head(s)} \cup Elements(Tail(s))
<1>1. /\ Tail(s) \in Seq(S) /\ Len(s) \in Nat /\ Len(s) >= 1 /\ Head(s) = s[1] /\ Head(s) \in S
      /\ DOMAIN s = 1 .. Len(s) /\ DOMAIN Tail(s) = 1 .. Len(s) - 1
      /\ \A i \in 1 .. Len(s) - 1 : Tail(s)[i] = s[i + 1]
  OBVIOUS
<1>2. Elements(s) = {Head(s)} \cup Elements(Tail(s))
  <2>1. ASSUME NEW w \in Elements(s) PROVE w \in {Head(s)} \cup Elements(Tail(s))
    <3>1. PICK i \in 1 .. Len(s) : w = s[i]
      BY <1>1 DEF Elements
    <3>2. CASE i = 1
      BY <3>1, <3>2, <1>1
    <3>3. CASE i # 1
      <4>1. i - 1 \in 1 .. Len(s) - 1 /\ (i - 1) + 1 = i
        BY <3>3, <1>1
      <4>2. Tail(s)[i - 1] = w
        BY <4>1, <3>1, <1>1
      <4>3. QED
        BY <4>1, <4>2, <1>1 DEF Elements
    <3>4. QED
      BY <3>2, <3>3
  <2>2. ASSUME NEW w \in Elements(Tail(s)) PROVE w \in Elements(s)
    <3>1. PICK i \in 1 .. Len(s) - 1 : w = Tail(s)[i]
      BY <1>1 DEF Elements
    <3>2. i + 1 \in 1 .. Len(s) /\ s[i + 1] = w
      BY <3>1, <1>1
    <3>3. QED
      BY <1>1, <3>2 DEF Elements
  <2>3. Head(s) \in Elements(s)
    <3>1. 1 \in DOMAIN s /\ Head(s) = s[1]
      BY <1>1
    <3>2. QED
      BY <3>1 DEF Elements
  <2>4. QED
    BY <2>1, <2>2, <2>3
<1>3. QED
  BY <1>1, <1>2

\* An entry of the writes of u has the type of entries, and is of this attempt.
LEMMA EntryFacts ==
  ASSUME Inv, NEW u \in Threads, NEW w \in Elements(writes[u])
  PROVE  /\ w \in Entry /\ w.obj \in Objects /\ w.old \in Versions /\ w.new \in Versions
         /\ w.new = <<u, attempt[u], w.new[3]>> /\ w.new[3] \in 1 .. 2
         /\ OwnerOf(w.new) = u /\ w.new[2] = attempt[u]
<1>1. writes[u] \in Seq(Entry)
  BY DEF Inv, TypeInv, ListsOK
<1>2. w \in Entry
  BY <1>1, ElementsType
<1>3. w.new = <<u, attempt[u], w.new[3]>> /\ w.new[3] \in 1 .. 2
  BY DEF Inv, ThreadInv, WritesOK
<1>4. w.obj \in Objects /\ w.old \in Versions /\ w.new \in Versions
  BY <1>2 DEF Entry
<1>5. OwnerOf(w.new) = u /\ w.new[2] = attempt[u]
  BY <1>3 DEF OwnerOf
<1>6. QED
  BY <1>2, <1>3, <1>4, <1>5

-------------------------------------------------------------------------------
(* A step preserves the invariant if it keeps to Others, Headers, UsedStable.*)

\* What another thread relies on stays true under a step of t that does what
\* Others, Headers and UsedStable say of it.
LEMMA OtherThreads ==
  ASSUME Inv, NEW t \in Threads, Others(t), Headers(t), UsedStable, TypeInv',
         NEW u \in Threads, u # t
  PROVE  ThreadInv(u)'
<1> USE DEF Inv, ThreadInv
<1>0. /\ pc'[u] = pc[u] /\ loc'[u] = loc[u] /\ mode'[u] = mode[u] /\ attempt'[u] = attempt[u]
      /\ writes'[u] = writes[u] /\ visReads'[u] = visReads[u]
      /\ txState'[u] = txState[u] \/ (txState[u] = "ACTIVE" /\ txState'[u] = "ABORTED")
      /\ \A o \in Objects : u \in readers'[o] <=> u \in readers[o]
  BY DEF Others
<1>1. LocalOK(u)'
  BY <1>0 DEF LocalOK
<1>2. ModeOK(u)'
  BY <1>0 DEF ModeOK, CleansFirst
<1>3. WritesOK(u)'
  <2> USE <1>0 DEF WritesOK
  <2>1. Single(u)' <=> Single(u)
    BY DEF Single
  <2>2. /\ EndsOpen(u)' <=> EndsOpen(u) 
        /\ EndsCommit(u)' <=> EndsCommit(u)
    BY DEF EndsOpen, EndsCommit
  <2>3. Killed(u) => Killed(u)'
    BY DEF Killed
  <2>4. ASSUME txState'[u] = "ACTIVE", NEW w \in Elements(writes[u]), w.acquired
        PROVE  header'[w.obj] = Owned(w.new)
    <3>1. w.obj \in Objects /\ w.new \in Versions /\ OwnerOf(w.new) = u
      BY EntryFacts
    <3>2. header[w.obj] = Owned(w.new) /\ txState[u] = "ACTIVE"
      BY <2>4
    <3>3. QED
      BY <3>1, <3>2 DEF Headers
  <2>5. QED
    BY <2>1, <2>2, <2>3, <2>4
<1>4. SnapOK(u)'
  <2> DEFINE l == loc[u]
  <2> DEFINE o == l.obj
  <2> DEFINE v == l.snap.ver
  <2>1. o \in Objects /\ v \in Versions /\ l.snap \in Header
    BY DEF TypeInv, ThreadOK, Locals, Header
  <2>2. l.snap.owned => OwnerOf(v) \in Threads /\ l.snap = Owned(v)
    BY <2>1 DEF LocalOK, Header, Owned
  <2>3. l.snap.owned /\ Used(o, v) => Used(o, v)'
    BY <2>1, <2>2, <1>0 DEF UsedStable
  <2>4. ASSUME l.snap.owned, header'[o] = l.snap, Used(o, v)
        PROVE  /\ header[o] = l.snap /\ next'[o][v] = next[o][v]
               /\ txState[OwnerOf(v)] # "ACTIVE" => txState'[OwnerOf(v)] = txState[OwnerOf(v)]
    BY <2>1, <2>2, <2>4 DEF Headers
  <2>5. SnapOK(u)
    OBVIOUS
  <2>6. ASSUME pc[u] = "acquire", ~l.snap.owned PROVE l.newer = v
    BY <2>5, <2>6 DEF SnapOK
  <2>7. ASSUME pc[u] \in {"look", "recheck", "decide", "cleanAbort", "cleanCommit", "acquire"}, l.snap.owned
        PROVE  Used(o, v) /\ Used(o, v)'
    BY <2>3, <2>5, <2>7 DEF SnapOK
  <2>8. ASSUME header'[o] = l.snap, l.snap.owned
        PROVE  /\ pc[u] = "recheck" => /\ l.older = next'[o][v]
                                       /\ l.state # "ACTIVE" => txState'[OwnerOf(v)] = l.state
               /\ pc[u] = "decide" => l.older = next'[o][v]
               /\ pc[u] \in {"cleanAbort", "cleanCommit", "acquire"} =>
                    /\ txState'[OwnerOf(v)] # "ACTIVE"
                    /\ l.newer = IF txState'[OwnerOf(v)] = "COMMITTED" THEN v ELSE next'[o][v]
    BY <2>4, <2>5, <2>7, <2>8 DEF SnapOK
  <2> HIDE DEF l, o, v
  <2>9. l' = l /\ o' = o /\ v' = v
    BY <1>0 DEF l, o, v
  <2>10. QED
    BY <2>6, <2>7, <2>8, <1>0 DEF SnapOK, l, o, v
<1>5. ReadersOK(u)'
  BY <1>0 DEF ReadersOK
<1>6. QED
  BY <1>1, <1>2, <1>3, <1>4, <1>5

\* A step of t preserves the invariant if it does to the others what they rely
\* on, and re-establishes what t itself relies on, the owners and the history.
LEMMA StepInv ==
  ASSUME Inv, NEW t \in Threads, Others(t), Headers(t), UsedStable,
         TypeInv', ThreadInv(t)', OwnerOK', CommittedOK'
  PROVE  Inv'
<1>1. \A u \in Threads : ThreadInv(u)'
  BY OtherThreads
<1>2. QED
  BY <1>1 DEF Inv

\* A step that changes nothing but the control and the locals of t.
LEMMA LocalStep ==
  ASSUME Inv, NEW t \in Threads, pc[t] \notin {"idle", "restore"},
         UNCHANGED <<memory, self, lists, history>>,
         NEW label \in Labels \ {"idle"}, pc' = [pc EXCEPT ![t] = label],
         NEW l \in Locals, loc' = [loc EXCEPT ![t] = l],
         LocalOK(t)', ModeOK(t)', WritesOK(t)', SnapOK(t)'
  PROVE  Inv'
<1>a. /\ header' = header /\ next' = next /\ readers' = readers /\ txState' = txState
      /\ mode' = mode /\ attempt' = attempt
      /\ invisReads' = invisReads /\ visReads' = visReads /\ writes' = writes
      /\ seen' = seen /\ began' = began /\ committed' = committed
  BY DEF memory, self, lists, history
<1>b. pc \in [Threads -> Labels] /\ loc \in [Threads -> Locals]
  BY DEF Inv, TypeInv, ThreadOK
<1>1. Others(t)
  BY <1>a, <1>b DEF Others
<1>2. Headers(t)
  BY <1>a DEF Headers
<1>3. UsedStable
  <2>1. ASSUME NEW o \in Objects, NEW v \in Versions, OwnerOf(v) \in Threads, Used(o, v)
        PROVE  Used(o, v)'
    <3>1. pc[OwnerOf(v)] \in {"restore", "idle"} => pc'[OwnerOf(v)] = pc[OwnerOf(v)]
      BY <1>b, <2>1
    <3>2. QED
      BY <1>a, <2>1, <3>1 DEF Used, OwnerOf
  <2>2. QED
    BY <2>1 DEF UsedStable
<1>4. TypeInv'
  BY <1>a, <1>b DEF Inv, TypeInv, MemoryOK, ThreadOK, ListsOK, HistoryOK
<1>5. ThreadInv(t)'
  BY <1>a DEF Inv, ThreadInv, ReadersOK
<1>6. OwnerOK'
  <2>1. ASSUME NEW o \in Objects, header[o].owned
        PROVE  \E u \in Threads : pc'[u] # "idle" /\ Owns(u, o, header[o].ver)'
    <3>1. PICK u \in Threads : pc[u] # "idle" /\ Owns(u, o, header[o].ver)
      BY <2>1 DEF Inv, OwnerOK
    <3>2. QED
      BY <1>a, <1>b, <3>1 DEF Owns
  <2>2. QED
    BY <1>a, <2>1 DEF OwnerOK
<1>7. CommittedOK'
  BY <1>a, <1>b DEF Inv, CommittedOK
<1>8. QED
  BY <1>1, <1>2, <1>3, <1>4, <1>5, <1>6, <1>7, StepInv

\* The parts of WritesOK that depend on the control and the locals.
LEMMA LocalWrites ==
  ASSUME Inv, NEW t \in Threads,
         UNCHANGED <<memory, self, lists, history>>,
         EndsOpen(t) => EndsOpen(t)' \/ pc'[t] = "restore",
         mode[t].isLazy /\ pc'[t] \in OpenLabels => \A w \in Elements(writes[t]) : w.obj # loc'[t].obj,
         ~mode[t].isLazy /\ loc'[t].kind = "RW" /\ EndsOpen(t)' =>
           \E w \in Elements(writes[t]) : w.obj = loc'[t].obj /\ w.old = loc'[t].newer,
         EndsCommit(t)' => \A w \in Elements(writes[t]) : w.acquired,
         pc[t] # "restore"
  PROVE  WritesOK(t)'
<1>a. /\ header' = header /\ txState' = txState
      /\ mode' = mode /\ attempt' = attempt /\ writes' = writes
  BY DEF memory, self, lists
<1>1. Single(t)' <=> Single(t)
  BY <1>a DEF Single
<1>2. Killed(t)' <=> Killed(t)
  BY <1>a DEF Killed
<1>3. WritesOK(t)
  BY DEF Inv, ThreadInv
<1>4. QED
  BY <1>a, <1>1, <1>2, <1>3 DEF WritesOK

\* The types of the variables, from the invariant.
LEMMA Types ==
  ASSUME Inv
  PROVE  /\ header \in [Objects -> Header]
         /\ next \in [Objects -> [Versions -> AnyVersion]]
         /\ readers \in [Objects -> SUBSET Threads]
         /\ txState \in [Threads -> States]
         /\ pc \in [Threads -> Labels]
         /\ mode \in [Threads -> [isVisible : BOOLEAN, isLazy : BOOLEAN]]
         /\ attempt \in [Threads -> 0 .. MaxAttempts]
         /\ loc \in [Threads -> Locals]
         /\ invisReads \in [Threads -> Seq(Pair)]
         /\ visReads \in [Threads -> SUBSET Objects]
         /\ writes \in [Threads -> Seq(Entry)]
         /\ seen \in [Threads -> SUBSET Pair]
  BY DEF Inv, TypeInv, MemoryOK, ThreadOK, ListsOK, HistoryOK

\* What thread t relies on, from the invariant.
LEMMA ThreadFacts ==
  ASSUME Inv, NEW t \in Threads
  PROVE  LocalOK(t) /\ ModeOK(t) /\ WritesOK(t) /\ SnapOK(t) /\ ReadersOK(t)
  BY DEF Inv, ThreadInv

\* The transaction and the entry that an owned header leads to.
LEMMA OwnedFacts ==
  ASSUME Inv, NEW o \in Objects, header[o].owned
  PROVE  \E u \in Threads : 
           /\ u = OwnerOf(header[o].ver) /\ pc[u] # "idle"
           /\ \E w \in Elements(writes[u]) :
                /\ w.obj = o /\ w.acquired /\ w.new = header[o].ver /\ w.old = next[o][header[o].ver]
                /\ w.old \in Versions
  BY EntryFacts DEF Inv, OwnerOK, Owns

\* A version stays Used under a step that moves only the control of t.
LEMMA UsedFrame ==
  ASSUME Inv, NEW t \in Threads, pc[t] \notin {"idle", "restore"},
         UNCHANGED <<memory, self, lists, history>>,
         NEW label \in Labels \ {"idle"}, pc' = [pc EXCEPT ![t] = label],
         NEW o \in Objects, NEW v \in Versions, OwnerOf(v) \in Threads, Used(o, v)
  PROVE  Used(o, v)'
<1>a. attempt' = attempt /\ writes' = writes
  BY DEF self, lists
<1>1. pc[OwnerOf(v)] \in {"restore", "idle"} => pc'[OwnerOf(v)] = pc[OwnerOf(v)]
  BY Types
<1>2. QED
  BY <1>a, <1>1 DEF Used, OwnerOf

\* A version in an owned header is Used.
LEMMA OwnedUsed ==
  ASSUME Inv, NEW o \in Objects, header[o].owned
  PROVE  OwnerOf(header[o].ver) \in Threads /\ Used(o, header[o].ver)
<1>1. PICK u \in Threads :
        /\ u = OwnerOf(header[o].ver) /\ pc[u] # "idle"
        /\ \E w \in Elements(writes[u]) :
             /\ w.obj = o /\ w.acquired /\ w.new = header[o].ver /\ w.old = next[o][header[o].ver]
             /\ w.old \in Versions
  BY OwnedFacts
<1>2. PICK w \in Elements(writes[u]) : w.obj = o /\ w.acquired /\ w.new = header[o].ver
  BY <1>1
<1>3. header[o].ver[2] = attempt[u]
  BY <1>2, EntryFacts
<1>4. QED
  BY <1>1, <1>2, <1>3 DEF Used

-------------------------------------------------------------------------------
(* The statements that change only the control and the locals.               *)

\* The load of the header (Descriptor_rstm.h:1128-1134).
LEMMA LoadStep ==
  ASSUME Inv, NEW t \in Threads, Load(t)
  PROVE  Inv'
<1>0. LocalOK(t) /\ ModeOK(t) /\ WritesOK(t) /\ SnapOK(t)
  BY ThreadFacts
<1>o. PICK o \in Objects : o = loc[t].obj
  BY Types DEF Locals
<1>s. PICK snap \in Header : snap = header[o]
  BY Types
<1>2. loc[t] \in Locals /\ loc[t].kind \in {"RO", "RW"}
      /\ mode[t] \in [isVisible : BOOLEAN, isLazy : BOOLEAN]
  BY Types DEF Locals
<1>3. snap.ver \in Versions /\ snap.ver \in AnyVersion /\ snap.owned \in BOOLEAN
  BY <1>2 DEF Header, AnyVersion
<1>l. PICK l \in Locals : l = [loc[t] EXCEPT !.snap = snap, !.newer = snap.ver]
  BY <1>2, <1>3 DEF Locals
<1>5. PICK label \in {"look", "install", "insert", "clone", "acquire"} :
        /\ label = IF snap.owned THEN "look" ELSE Use(t)
        /\ label = "look" <=> snap.owned
  BY <1>2, <1>3 DEF Use
<1>1. /\ pc[t] = "load" /\ pc' = [pc EXCEPT ![t] = label] /\ loc' = [loc EXCEPT ![t] = l]
      /\ UNCHANGED <<memory, self, lists, history>>
  BY <1>o, <1>s, <1>l, <1>5, Types DEF Load, GoTo
<1>6. label \in Labels \ {"idle"}
  BY <1>5 DEF Labels
<1>7. l.snap = snap /\ l.newer = snap.ver /\ l.obj = o /\ l.kind = loc[t].kind
  BY <1>2, <1>l, <1>o DEF Locals
<1>a. /\ header' = header /\ next' = next /\ readers' = readers /\ txState' = txState
      /\ mode' = mode /\ attempt' = attempt /\ visReads' = visReads /\ writes' = writes
  BY <1>1 DEF memory, self, lists
<1>b. loc'[t] = l /\ pc'[t] = label
  BY <1>1, Types
<1>8. snap.owned => OwnerOf(snap.ver) \in Threads /\ Used(o, snap.ver)
  BY <1>2, <1>s, OwnedUsed
<1>9. LocalOK(t)'
  BY <1>0, <1>a, <1>b, <1>1, <1>3, <1>5, <1>7, <1>8 DEF LocalOK
<1>10. ModeOK(t)'
  BY <1>0, <1>a, <1>b, <1>5, <1>7, <1>2 DEF ModeOK, Use
<1>11. WritesOK(t)'
  <2>1. ~EndsOpen(t)' /\ ~EndsCommit(t)' /\ ~EndsOpen(t) /\ loc'[t].obj = loc[t].obj
    BY <1>b, <1>1, <1>5, <1>7, <1>o DEF EndsOpen, EndsCommit
  <2>2. mode[t].isLazy => \A w \in Elements(writes[t]) : w.obj # loc[t].obj
    BY <1>0, <1>1 DEF WritesOK, OpenLabels
  <2>3. QED
    BY <2>1, <2>2, <1>1, LocalWrites
<1>12. SnapOK(t)'
  <2>1. snap.owned => Used(o, snap.ver)'
    BY <1>1, <1>3, <1>5, <1>6, <1>8, UsedFrame
  <2>2. QED
    BY <1>a, <1>b, <1>5, <1>7, <1>s, <2>1 DEF SnapOK
<1>13. QED
  BY <1>1, <1>6, <1>9, <1>10, <1>11, <1>12, LocalStep

\* abort, of a transaction that was killed or that kills itself
\* (Descriptor_rstm.h:580-597).
LEMMA AbortStep ==
  ASSUME Inv, NEW t \in Threads, pc[t] \notin {"idle", "restore"}, Abort(t)
  PROVE  Inv'
<1>0. LocalOK(t) /\ ModeOK(t) /\ WritesOK(t) /\ SnapOK(t) /\ ReadersOK(t)
  BY ThreadFacts
<1>a. /\ header' = header /\ next' = next /\ readers' = readers
      /\ mode' = mode /\ attempt' = attempt
      /\ invisReads' = invisReads /\ visReads' = visReads /\ writes' = writes
      /\ began' = began /\ committed' = committed
      /\ txState' = [txState EXCEPT ![t] = "ABORTED"]
      /\ loc' = [loc EXCEPT ![t] = NoLocals]
      /\ seen' = [seen EXCEPT ![t] = {}]
      /\ pc' = [pc EXCEPT ![t] = "restore"]
  BY DEF Abort, GoTo, self, lists
<1>b. txState[t] \in {"ACTIVE", "ABORTED"} /\ attempt[t] >= 1
  BY <1>0 DEF LocalOK
<1>c. pc'[t] = "restore" /\ loc'[t] = NoLocals /\ txState'[t] = "ABORTED"
  BY <1>a, Types
<1>1. Others(t)
  BY <1>a, Types DEF Others
<1>2. Headers(t)
  BY <1>a, <1>b, Types DEF Headers
<1>3. UsedStable
  <2>1. ASSUME NEW o \in Objects, NEW v \in Versions, OwnerOf(v) \in Threads, Used(o, v)
        PROVE  Used(o, v)'
    <3>1. pc[OwnerOf(v)] \in {"restore", "idle"} => pc'[OwnerOf(v)] \in {"restore", "idle"}
      BY <1>a, Types
    <3>2. QED
      BY <1>a, <2>1, <3>1 DEF Used, OwnerOf
  <2>2. QED
    BY <2>1 DEF UsedStable
<1>4. TypeInv'
  <2>1. "restore" \in Labels
    BY DEF Labels
  <2>2. QED
    BY <1>a, <2>1, Types, NoLocalsType DEF Inv, TypeInv, MemoryOK, ThreadOK, ListsOK, HistoryOK, States
<1>5. ThreadInv(t)'
  <2>1. LocalOK(t)'
    BY <1>a, <1>b, <1>c, NoLocalsType DEF LocalOK, Unowned
  <2>2. ModeOK(t)'
    BY <1>a, <1>0, <1>c DEF ModeOK
  <2>3. WritesOK(t)'
    <3>1. (Single(t)' <=> Single(t)) /\ Killed(t)' /\ ~EndsOpen(t)' /\ ~EndsCommit(t)'
      BY <1>a, <1>c DEF Single, Killed, EndsOpen, EndsCommit
    <3>2. QED
      BY <3>1, <1>a, <1>0, <1>c DEF WritesOK, OpenLabels
  <2>4. SnapOK(t)'
    BY <1>c, NoLocalsType DEF SnapOK, Unowned
  <2>5. ReadersOK(t)'
    BY <1>a, <1>0 DEF ReadersOK
  <2>6. QED
    BY <2>1, <2>2, <2>3, <2>4, <2>5 DEF ThreadInv
<1>6. OwnerOK'
  <2>1. ASSUME NEW o \in Objects, header[o].owned
        PROVE  \E u \in Threads : pc'[u] # "idle" /\ Owns(u, o, header[o].ver)'
    <3>1. PICK u \in Threads : pc[u] # "idle" /\ Owns(u, o, header[o].ver)
      BY <2>1 DEF Inv, OwnerOK
    <3>2. QED
      BY <1>a, <3>1, Types DEF Owns
  <2>2. QED
    BY <1>a, <2>1 DEF OwnerOK
<1>7. CommittedOK'
  BY <1>a, Types DEF Inv, CommittedOK
<1>8. QED
  BY <1>1, <1>2, <1>3, <1>4, <1>5, <1>6, <1>7, StepInv

\* The loads of m_next and of tx_state (Descriptor_rstm.h:1136-1139).
LEMMA LookStep ==
  ASSUME Inv, NEW t \in Threads, Look(t)
  PROVE  Inv'
<1>0. LocalOK(t) /\ ModeOK(t) /\ WritesOK(t) /\ SnapOK(t)
  BY ThreadFacts
<1>1. pc[t] = "look"
  BY DEF Look
<1>o. PICK o \in Objects, v \in Versions : o = loc[t].obj /\ v = loc[t].newer /\ v = loc[t].snap.ver
       /\ OwnerOf(v) \in Threads /\ loc[t].snap.owned
  BY <1>0, <1>1, Types DEF Locals, LocalOK, Header
<1>2. loc[t] \in Locals /\ next[o][v] \in AnyVersion /\ txState[OwnerOf(v)] \in States
  BY <1>o, Types
<1>l. PICK l \in Locals : l = [loc[t] EXCEPT !.older = next[o][v], !.state = txState[OwnerOf(v)]]
  BY <1>2 DEF Locals
<1>3. /\ pc' = [pc EXCEPT ![t] = "recheck"] /\ loc' = [loc EXCEPT ![t] = l]
      /\ UNCHANGED <<memory, self, lists, history>>
  BY <1>o, <1>l, Types DEF Look, GoTo
<1>6. "recheck" \in Labels \ {"idle"}
  BY DEF Labels
<1>7. l.snap = loc[t].snap /\ l.newer = v /\ l.obj = o /\ l.kind = loc[t].kind
      /\ l.older = next[o][v] /\ l.state = txState[OwnerOf(v)]
  BY <1>2, <1>l, <1>o DEF Locals
<1>a. /\ header' = header /\ next' = next /\ readers' = readers /\ txState' = txState
      /\ mode' = mode /\ attempt' = attempt /\ visReads' = visReads /\ writes' = writes
  BY <1>3 DEF memory, self, lists
<1>b. loc'[t] = l /\ pc'[t] = "recheck"
  BY <1>3, Types
<1>9. LocalOK(t)'
  BY <1>0, <1>a, <1>b, <1>1, <1>o, <1>7 DEF LocalOK
<1>10. ModeOK(t)'
  BY <1>0, <1>a, <1>b, <1>7 DEF ModeOK
<1>11. WritesOK(t)'
  <2>1. ~EndsOpen(t)' /\ ~EndsCommit(t)' /\ ~EndsOpen(t) /\ loc'[t].obj = loc[t].obj
    BY <1>b, <1>1, <1>7, <1>o DEF EndsOpen, EndsCommit
  <2>2. mode[t].isLazy => \A w \in Elements(writes[t]) : w.obj # loc[t].obj
    BY <1>0, <1>1 DEF WritesOK, OpenLabels
  <2>3. QED
    BY <2>1, <2>2, <1>1, <1>3, LocalWrites
<1>12. SnapOK(t)'
  <2>1. Used(o, v)
    BY <1>0, <1>1, <1>o DEF SnapOK
  <2>2. Used(o, v)'
    BY <1>1, <1>3, <1>o, <1>6, <2>1, UsedFrame
  <2>3. QED
    BY <1>a, <1>b, <1>7, <1>o, <2>2 DEF SnapOK
<1>13. QED
  BY <1>1, <1>3, <1>6, <1>9, <1>10, <1>11, <1>12, LocalStep

\* A step back, after which the thread relies on nothing.
LEMMA BackStep ==
  ASSUME Inv, NEW t \in Threads, pc[t] \in OpenLabels \cup {"acquire"},
         UNCHANGED <<memory, self, lists, history>>,
         NEW label \in {"load", "work", "contend"}, pc' = [pc EXCEPT ![t] = label],
         NEW l \in Locals, loc' = [loc EXCEPT ![t] = l],
         l.snap.owned => l.snap = loc[t].snap, label # "work" => l.obj = loc[t].obj
  PROVE  Inv'
<1>0. LocalOK(t) /\ ModeOK(t) /\ WritesOK(t) /\ SnapOK(t)
  BY ThreadFacts
<1>6. label \in Labels \ {"idle"} /\ pc[t] \notin {"idle", "restore"}
  BY DEF Labels, OpenLabels
<1>a. /\ header' = header /\ next' = next /\ readers' = readers /\ txState' = txState
      /\ mode' = mode /\ attempt' = attempt /\ visReads' = visReads /\ writes' = writes
  BY DEF memory, self, lists
<1>b. loc'[t] = l /\ pc'[t] = label
  BY Types
<1>9. LocalOK(t)'
  BY <1>0, <1>6, <1>a, <1>b DEF LocalOK
<1>10. ModeOK(t)'
  BY <1>0, <1>a, <1>b DEF ModeOK
<1>11. WritesOK(t)'
  <2>1. ~EndsOpen(t)' /\ ~EndsCommit(t)' /\ ~EndsOpen(t)
    BY <1>b DEF EndsOpen, EndsCommit, OpenLabels
  <2>2. mode[t].isLazy /\ label # "work" => \A w \in Elements(writes[t]) : w.obj # l.obj
    <3>1. mode[t].isLazy => pc[t] \in OpenLabels
      BY <1>0 DEF ModeOK
    <3>2. QED
      BY <1>0, <3>1 DEF WritesOK
  <2>3. "work" \notin OpenLabels
    BY DEF OpenLabels
  <2>4. QED
    BY <2>1, <2>2, <2>3, <1>6, <1>b, LocalWrites
<1>12. SnapOK(t)'
  BY <1>b DEF SnapOK
<1>13. QED
  BY <1>6, <1>9, <1>10, <1>11, <1>12, LocalStep

\* The locals at the start of an open of object o.
Fresh(o, kind) == [NoLocals EXCEPT !.obj = o, !.kind = kind]

\* They have the type of locals.
LEMMA FreshType ==
  ASSUME NEW o \in Objects, NEW k \in {"RO", "RW"}
  PROVE  /\ Fresh(o, k) \in Locals
         /\ ~Fresh(o, k).snap.owned /\ Fresh(o, k).obj = o /\ Fresh(o, k).kind = k
<1>1. NoLocals \in Locals /\ ~NoLocals.snap.owned
  BY NoLocalsType DEF Unowned
<1>2. Fresh(o, k) \in Locals
  BY <1>1 DEF Locals, Fresh
<1>3. /\ Fresh(o, k).snap = NoLocals.snap
      /\ Fresh(o, k).obj = o
      /\ Fresh(o, k).kind = k
  BY <1>1 DEF Locals, Fresh
<1>4. QED
  BY <1>1, <1>2, <1>3

\* The contention manager has answered, and the loop starts again
\* (Descriptor_rstm.h:1340-1345).
LEMMA ContendStep ==
  ASSUME Inv, NEW t \in Threads, Contend(t)
  PROVE  Inv'
<1>2. CASE Killed(t)
  <2>1. Abort(t) /\ pc[t] \notin {"idle", "restore"}
    BY <1>2 DEF Contend
  <2>2. QED
    BY <2>1, AbortStep
<1>3. CASE ~Killed(t)
  <2>0. loc[t].obj \in Objects /\ loc[t].kind \in {"RO", "RW"}
    BY Types DEF Locals
  <2>4. PICK l \in Locals : l = Fresh(loc[t].obj, loc[t].kind) /\ ~l.snap.owned /\ l.obj = loc[t].obj
    BY <2>0, FreshType
  <2>1. /\ pc[t] = "contend" /\ pc' = [pc EXCEPT ![t] = "load"] /\ loc' = [loc EXCEPT ![t] = l]
        /\ UNCHANGED <<memory, self, lists, history>>
    BY <2>4, <1>3 DEF Contend, GoTo, Fresh
  <2>2. pc[t] \in OpenLabels
    BY <2>1 DEF OpenLabels
  <2>3. QED
    BY <2>4, <2>1, <2>2, BackStep
<1>4. QED
  BY <1>2, <1>3

\* The contention manager says to wait (Descriptor_rstm.h:1331-1345).
LEMMA GiveWayStep ==
  ASSUME Inv, NEW t \in Threads, GiveWay(t)
  PROVE  Inv'
<1>1. PICK l \in Locals : l = loc[t]
  BY Types
<1>2. /\ pc[t] = "decide" /\ pc' = [pc EXCEPT ![t] = "contend"] /\ loc' = [loc EXCEPT ![t] = l]
      /\ UNCHANGED <<memory, self, lists, history>>
  BY <1>1, Types DEF GiveWay, GoTo
<1>3. pc[t] \in OpenLabels
  BY <1>2 DEF OpenLabels
<1>4. QED
  BY <1>1, <1>2, <1>3, BackStep

\* The contention manager says to wait for the readers
\* (Descriptor_rstm.h:984-991).
LEMMA YieldStep ==
  ASSUME Inv, NEW t \in Threads, YieldToReaders(t)
  PROVE  Inv'
<1>1. CASE pc[t] = "acquire" /\ GoTo(t, "contend") /\ UNCHANGED <<memory, self, loc, lists, history>>
  <2>1. PICK l \in Locals : l = loc[t]
    BY Types
  <2>2. /\ pc' = [pc EXCEPT ![t] = "contend"] /\ loc' = [loc EXCEPT ![t] = l]
        /\ UNCHANGED <<memory, self, lists, history>>
    BY <1>1, <2>1, Types DEF GoTo
  <2>3. QED
    BY <1>1, <2>1, <2>2, BackStep
<1>2. CASE pc[t] = "acquireLazily" /\ Abort(t)
  BY <1>2, AbortStep
<1>3. QED
  BY <1>1, <1>2 DEF YieldToReaders

\* The start of an open (Descriptor_rstm.h:1267-1289).
LEMMA OpenStep ==
  ASSUME Inv, NEW t \in Threads, NEW o \in Objects, NEW kind \in {"RO", "RW"}, Open(t, o, kind)
  PROVE  Inv'
<1>0. LocalOK(t) /\ ModeOK(t) /\ WritesOK(t) /\ SnapOK(t)
  BY ThreadFacts
<1>2. CASE Killed(t)
  <2>1. Abort(t) /\ pc[t] \notin {"idle", "restore"}
    BY <1>2 DEF Open
  <2>2. QED
    BY <2>1, AbortStep
<1>3. CASE ~Killed(t)
  <2>1. PICK l \in Locals : l = Fresh(o, kind) /\ ~l.snap.owned /\ l.obj = o
    BY FreshType
  <2>2. /\ pc[t] = "work" /\ pc' = [pc EXCEPT ![t] = "load"] /\ loc' = [loc EXCEPT ![t] = l]
        /\ UNCHANGED <<memory, self, lists, history>>
        /\ mode[t].isLazy => \A w \in Elements(writes[t]) : w.obj # o
    BY <2>1, <1>3 DEF Open, GoTo, Fresh
  <2>a. /\ header' = header /\ next' = next /\ readers' = readers /\ txState' = txState
        /\ mode' = mode /\ attempt' = attempt /\ visReads' = visReads /\ writes' = writes
    BY <2>2 DEF memory, self, lists
  <2>b. loc'[t] = l /\ pc'[t] = "load"
    BY <2>2, Types
  <2>3. LocalOK(t)'
    BY <1>0, <2>1, <2>2, <2>a, <2>b DEF LocalOK
  <2>4. ModeOK(t)'
    BY <1>0, <2>a, <2>b DEF ModeOK
  <2>5. WritesOK(t)'
    <3>1. ~EndsOpen(t)' /\ ~EndsCommit(t)' /\ ~EndsOpen(t)
      BY <2>2, <2>b DEF EndsOpen, EndsCommit
    <3>2. QED
      BY <3>1, <2>1, <2>2, <2>b, LocalWrites
  <2>6. SnapOK(t)'
    BY <2>b, <2>1 DEF SnapOK
  <2>7. "load" \in Labels \ {"idle"}
    BY DEF Labels
  <2>8. QED
    BY <2>2, <2>3, <2>4, <2>5, <2>6, <2>7, LocalStep
<1>4. QED
  BY <1>2, <1>3

\* The second load of the header, and what is done about the owner
\* (Descriptor_rstm.h:1141-1218).
LEMMA RecheckStep ==
  ASSUME Inv, NEW t \in Threads, Recheck(t)
  PROVE  Inv'
<1>0. LocalOK(t) /\ ModeOK(t) /\ WritesOK(t) /\ SnapOK(t)
  BY ThreadFacts
<1>1. pc[t] = "recheck" /\ UNCHANGED <<memory, self, lists, history>> /\ pc[t] \in OpenLabels
  BY DEF Recheck, OpenLabels
<1>p. loc[t] \in Locals /\ loc \in [Threads -> Locals] /\ pc \in [Threads -> Labels]
      /\ mode[t] \in [isVisible : BOOLEAN, isLazy : BOOLEAN]
  BY Types
<1>o. PICK o \in Objects, v \in Versions :
        /\ o = loc[t].obj /\ v = loc[t].snap.ver /\ loc[t].newer = v /\ loc[t].snap.owned
        /\ OwnerOf(v) \in Threads /\ loc[t].older \in AnyVersion
        /\ loc[t].kind \in {"RO", "RW"}
  BY <1>0, <1>1, <1>p DEF Locals, LocalOK, Header
<1>u. Used(o, v)
  BY <1>0, <1>1, <1>o DEF SnapOK
<1>2. CASE ~IsSnapshot(t)
  <2>1. PICK l \in Locals : l = loc[t]
    BY <1>p
  <2>2. pc' = [pc EXCEPT ![t] = "load"] /\ loc' = [loc EXCEPT ![t] = l]
    BY <1>2, <1>p, <2>1 DEF Recheck, GoTo
  <2>3. QED
    BY <1>1, <2>1, <2>2, BackStep
<1>3. CASE IsSnapshot(t) /\ loc[t].state = "ACTIVE" /\ OwnerOf(loc[t].newer) = t
  <2>1. PICK l \in Locals : l = NoLocals /\ ~l.snap.owned
    BY NoLocalsType DEF Unowned
  <2>2. pc' = [pc EXCEPT ![t] = "work"] /\ loc' = [loc EXCEPT ![t] = l]
    BY <1>3, <2>1 DEF Recheck, GoTo
  <2>3. QED
    BY <1>1, <2>1, <2>2, BackStep
<1>4. CASE IsSnapshot(t) /\ ~(loc[t].state = "ACTIVE" /\ OwnerOf(loc[t].newer) = t)
  <2>1. header[o] = loc[t].snap
    BY <1>4, <1>o DEF IsSnapshot
  <2>2. loc[t].older = next[o][v] /\ (loc[t].state # "ACTIVE" => txState[OwnerOf(v)] = loc[t].state)
    BY <1>0, <1>1, <1>o, <2>1 DEF SnapOK
  <2>3. loc[t].older \in Versions
    BY <2>1, <2>2, <1>o, OwnedFacts
  <2>l. PICK l \in Locals, label \in {"decide", "cleanAbort", "cleanCommit", "acquire"} :
          /\ pc' = [pc EXCEPT ![t] = label] /\ loc' = [loc EXCEPT ![t] = l]
          /\ l.snap = loc[t].snap /\ l.obj = o /\ l.older = loc[t].older /\ l.kind = loc[t].kind
          /\ label = "acquire" => l.kind = "RW" /\ ~mode[t].isLazy
          /\ label \in {"cleanAbort", "cleanCommit"} => CleansFirst(t)
          /\ label = "decide" => l.newer = v
          /\ label = "cleanCommit" => l.newer = v
          /\ label # "decide" =>
               \/ loc[t].state = "ABORTED" /\ l.newer = loc[t].older
               \/ loc[t].state = "COMMITTED" /\ l.newer = v
    <3>1. CASE loc[t].state = "ACTIVE"
      <4>1. pc' = [pc EXCEPT ![t] = "decide"] /\ loc' = loc
        BY <1>4, <3>1 DEF Recheck, GoTo
      <4>2. loc' = [loc EXCEPT ![t] = loc[t]]
        BY <4>1, <1>p
      <4>3. QED
        BY <4>1, <4>2, <1>o, <1>p
    <3>2. CASE loc[t].state = "ABORTED"
      <4>0. ChooseOlder(t)
        BY <1>4, <3>2 DEF Recheck
      <4>1. PICK l \in Locals : l = [loc[t] EXCEPT !.newer = loc[t].older]
        BY <1>p, <1>o DEF Locals
      <4>2. /\ l.snap = loc[t].snap /\ l.obj = o /\ l.older = loc[t].older /\ l.kind = loc[t].kind
            /\ l.newer = loc[t].older
        BY <4>1, <1>p, <1>o DEF Locals
      <4>3. loc' = [loc EXCEPT ![t] = l]
            /\ pc' = [pc EXCEPT ![t] = IF CleansFirst(t) THEN "cleanAbort" ELSE "acquire"]
        BY <4>0, <4>1, <1>p DEF ChooseOlder, GoTo
      <4>4. ~CleansFirst(t) => loc[t].kind = "RW" /\ ~mode[t].isLazy
        BY <1>o DEF CleansFirst
      <4>5. CASE CleansFirst(t)
        BY <4>2, <4>3, <4>5, <3>2
      <4>6. CASE ~CleansFirst(t)
        BY <4>2, <4>3, <4>6, <3>2, <4>4
      <4>7. QED
        BY <4>5, <4>6
    <3>3. CASE loc[t].state = "COMMITTED"
      <4>0. pc' = [pc EXCEPT ![t] = IF CleansFirst(t) THEN "cleanCommit" ELSE "acquire"] /\ loc' = loc
        BY <1>4, <3>3 DEF Recheck, GoTo
      <4>2. loc' = [loc EXCEPT ![t] = loc[t]]
        BY <4>0, <1>p
      <4>4. ~CleansFirst(t) => loc[t].kind = "RW" /\ ~mode[t].isLazy
        BY <1>o DEF CleansFirst
      <4>5. CASE CleansFirst(t)
        BY <4>0, <4>2, <4>5, <3>3, <1>o, <1>p
      <4>6. CASE ~CleansFirst(t)
        BY <4>0, <4>2, <4>6, <3>3, <4>4, <1>o, <1>p
      <4>7. QED
        BY <4>5, <4>6
    <3>4. QED
      BY <3>1, <3>2, <3>3, <1>p DEF Locals, States
  <2>6. label \in Labels \ {"idle"}
    BY DEF Labels
  <2>a. /\ header' = header /\ next' = next /\ readers' = readers /\ txState' = txState
        /\ mode' = mode /\ attempt' = attempt /\ visReads' = visReads /\ writes' = writes
    BY <1>1 DEF memory, self, lists
  <2>b. loc'[t] = l /\ pc'[t] = label
    BY <2>l, Types
  <2>c. label # "decide" => txState[OwnerOf(v)] = loc[t].state
    BY <2>2, <2>l
  <2>9. LocalOK(t)'
    BY <1>0, <1>1, <2>a, <2>b, <2>l, <1>o, <2>3 DEF LocalOK
  <2>10. ModeOK(t)'
    BY <1>0, <2>a, <2>b, <2>l DEF ModeOK, CleansFirst
  <2>11. WritesOK(t)'
    <3>1. ~EndsOpen(t)' /\ ~EndsCommit(t)' /\ ~EndsOpen(t) /\ loc'[t].obj = loc[t].obj
      BY <2>b, <2>l, <1>o, <1>1 DEF EndsOpen, EndsCommit
    <3>2. mode[t].isLazy => \A w \in Elements(writes[t]) : w.obj # loc[t].obj
      BY <1>0, <1>1 DEF WritesOK
    <3>3. QED
      BY <3>1, <3>2, <1>1, LocalWrites
  <2>12. SnapOK(t)'
    <3>1. Used(o, v)'
      BY <1>1, <1>o, <1>u, <2>6, <2>l, UsedFrame
    <3>2. QED
      BY <2>a, <2>b, <2>c, <2>l, <1>o, <2>2, <3>1 DEF SnapOK
  <2>13. QED
    BY <1>1, <2>l, <2>6, <2>9, <2>10, <2>11, <2>12, LocalStep
<1>5. QED
  BY <1>2, <1>3, <1>4

\* What Validating does to the control and the locals.
LEMMA ValidatingFacts ==
  ASSUME NEW t \in Threads, pc \in [Threads -> Labels], loc \in [Threads -> Locals],
         NEW todo \in Seq(Pair), NEW goal \in {"opened", "cas"}, Validating(t, todo, goal)
  PROVE  \E l \in Locals, label \in {goal, "validate"} :
           /\ pc' = [pc EXCEPT ![t] = label] /\ loc' = [loc EXCEPT ![t] = l]
           /\ pc'[t] = label /\ loc'[t] = l
           /\ l.obj = loc[t].obj /\ l.kind = loc[t].kind /\ l.snap = loc[t].snap
           /\ l.newer = loc[t].newer
           /\ label = "validate" => l.then = goal /\ l.todo # <<>>
           /\ l.todo = todo
<1>1. loc[t] \in Locals
  OBVIOUS
<1>2. PICK then \in {"work", "opened", "cas"} : then = IF todo = <<>> THEN "work" ELSE goal
  OBVIOUS
<1>3. PICK l \in Locals : l = [loc[t] EXCEPT !.todo = todo, !.pending = {}, !.then = then]
  BY <1>1 DEF Locals
<1>4. /\ l.obj = loc[t].obj /\ l.kind = loc[t].kind /\ l.snap = loc[t].snap
      /\ l.newer = loc[t].newer /\ l.then = then /\ l.todo = todo
  BY <1>1, <1>3 DEF Locals
<1>5. PICK label \in {goal, "validate"} : label = IF todo = <<>> THEN goal ELSE "validate"
  OBVIOUS
<1>6. pc' = [pc EXCEPT ![t] = label]
  BY <1>5 DEF Validating, GoTo
<1>7. loc' = [loc EXCEPT ![t] = l]
  <2>1. loc' = [loc EXCEPT ![t].todo = todo, ![t].pending = {}, ![t].then = then]
    BY <1>2 DEF Validating
  <2>2. QED
    BY <2>1, <1>3
<1>8. pc'[t] = label /\ loc'[t] = l
  BY <1>6, <1>7
<1>9. label = "validate" => then = goal /\ todo # <<>>
  BY <1>2, <1>5
<1>10. QED
  BY <1>4, <1>6, <1>7, <1>8, <1>9

\* A step that goes on to validate a list of pairs.
LEMMA ValidatingStep ==
  ASSUME Inv, NEW t \in Threads, pc[t] \notin {"idle", "restore"},
         UNCHANGED <<memory, self, lists, history>>,
         NEW todo \in Seq(Pair), NEW goal \in {"opened", "cas"}, Validating(t, todo, goal),
         EndsOpen(t) => goal = "opened",
         goal = "cas" => \A w \in Elements(writes[t]) : w.acquired,
         goal = "opened" =>
           /\ loc[t].newer \in Versions
           /\ ~mode[t].isLazy /\ loc[t].kind = "RW" =>
                \E w \in Elements(writes[t]) : w.obj = loc[t].obj /\ w.old = loc[t].newer
  PROVE  Inv'
<1>0. LocalOK(t) /\ ModeOK(t) /\ WritesOK(t) /\ SnapOK(t)
  BY ThreadFacts
<1>1. PICK l \in Locals, label \in {goal, "validate"} :
           /\ pc' = [pc EXCEPT ![t] = label] /\ loc' = [loc EXCEPT ![t] = l]
           /\ pc'[t] = label /\ loc'[t] = l
           /\ l.obj = loc[t].obj /\ l.kind = loc[t].kind /\ l.snap = loc[t].snap
           /\ l.newer = loc[t].newer
           /\ label = "validate" => l.then = goal /\ l.todo # <<>>
           /\ l.todo = todo
  <2>1. pc \in [Threads -> Labels] /\ loc \in [Threads -> Locals]
    BY Types
  <2>2. QED
    BY <2>1, ValidatingFacts
<1>a. /\ header' = header /\ next' = next /\ readers' = readers /\ txState' = txState
      /\ mode' = mode /\ attempt' = attempt /\ visReads' = visReads /\ writes' = writes
  BY DEF memory, self, lists
<1>2. label \in Labels \ {"idle"}
  BY DEF Labels
<1>3. LocalOK(t)'
  BY <1>0, <1>1, <1>a DEF LocalOK
<1>4. ModeOK(t)'
  BY <1>0, <1>1, <1>a DEF ModeOK
<1>5. WritesOK(t)'
  <2>1. EndsOpen(t)' => goal = "opened"
    BY <1>1 DEF EndsOpen
  <2>2. EndsCommit(t)' => goal = "cas"
    BY <1>1 DEF EndsCommit
  <2>3. EndsOpen(t) => EndsOpen(t)'
    BY <1>1 DEF EndsOpen
  <2>4. pc'[t] \notin OpenLabels
    BY <1>1 DEF OpenLabels
  <2>5. QED
    BY <2>1, <2>2, <2>3, <2>4, <1>1, LocalWrites
<1>6. SnapOK(t)'
  BY <1>1 DEF SnapOK
<1>7. QED
  BY <1>1, <1>2, <1>3, <1>4, <1>5, <1>6, LocalStep

\* The pairs of a list of entries, as a sequence.
LEMMA PairsSeq ==
  ASSUME NEW s \in Seq(Entry)
  PROVE  Pairs(s) \in Seq(Pair)
<1>1. PICK n \in Nat : DOMAIN s = 1 .. n /\ n = Len(s)
  OBVIOUS
<1>2. ASSUME NEW i \in 1 .. n PROVE <<s[i].obj, s[i].old>> \in Pair
  <2>1. s[i] \in Entry
    BY <1>1
  <2>2. s[i].obj \in Objects /\ s[i].old \in Versions
    BY <2>1 DEF Entry
  <2>3. QED
    BY <2>2 DEF Pair
<1>3. Pairs(s) = [i \in 1 .. n |-> <<s[i].obj, s[i].old>>]
  BY <1>1 DEF Pairs
<1>4. [i \in 1 .. n |-> <<s[i].obj, s[i].old>>] \in [1 .. n -> Pair]
  BY <1>2
<1>5. [1 .. n -> Pair] \subseteq Seq(Pair)
  OBVIOUS
<1>6. QED
  BY <1>3, <1>4, <1>5

\* They are pairs of an object and a version.
LEMMA PairsType ==
  ASSUME Inv, NEW t \in Threads
  PROVE  /\ invisReads[t] \in Seq(Pair)
         /\ Pairs(writes[t]) \in Seq(Pair)
         /\ LazyPairs(t) \in Seq(Pair)
         /\ \A n \in 0 .. Len(invisReads[t]) : SubSeq(invisReads[t], 1, n) \o LazyPairs(t) \in Seq(Pair)
<1>1. invisReads[t] \in Seq(Pair) /\ writes[t] \in Seq(Entry)
  BY Types
<1>3. Pairs(writes[t]) \in Seq(Pair)
  BY <1>1, PairsSeq
<1>4. LazyPairs(t) \in Seq(Pair)
  BY <1>3 DEF LazyPairs
<1>5. ASSUME NEW n \in 0 .. Len(invisReads[t])
      PROVE SubSeq(invisReads[t], 1, n) \o LazyPairs(t) \in Seq(Pair)
  <2>1. SubSeq(invisReads[t], 1, n) \in Seq(Pair)
    BY <1>1
  <2>2. QED
    BY <2>1, <1>4
<1>6. QED
  BY <1>1, <1>3, <1>4, <1>5

\* A visible reader checks the header again (Descriptor_rstm.h:1222-1237).
LEMMA CheckHeaderStep ==
  ASSUME Inv, NEW t \in Threads, CheckHeader(t)
  PROVE  Inv'
<1>0. LocalOK(t) /\ ModeOK(t)
  BY ThreadFacts
<1>1. pc[t] = "check"
  BY DEF CheckHeader
<1>2. CASE ~IsInTime(t)
  BY <1>1, <1>2, AbortStep DEF CheckHeader
<1>3. CASE IsInTime(t)
  <2>1. Validating(t, LazyPairs(t), "opened") /\ UNCHANGED <<memory, self, lists, history>>
    BY <1>3 DEF CheckHeader
  <2>2. LazyPairs(t) \in Seq(Pair)
    BY PairsType
  <2>3. loc[t].newer \in Versions /\ loc[t].kind = "RO"
    BY <1>0, <1>1 DEF LocalOK, ModeOK
  <2>4. ~EndsOpen(t)
    BY <1>1 DEF EndsOpen
  <2>5. QED
    BY <1>1, <2>1, <2>2, <2>3, <2>4, ValidatingStep
<1>4. QED
  BY <1>2, <1>3

\* One pair is validated (Descriptor_rstm.h:824-838).
LEMMA ValidateStep ==
  ASSUME Inv, NEW t \in Threads, Validate(t)
  PROVE  Inv'
<1>0. LocalOK(t) /\ ModeOK(t) /\ WritesOK(t)
  BY ThreadFacts
<1>1. pc[t] = "validate" /\ loc[t].todo # <<>> /\ loc[t].then \in {"opened", "cas"}
      /\ loc[t].todo \in Seq(Pair)
  BY <1>0, Types DEF Validate, LocalOK, Locals
<1>p. PICK todo \in Seq(Pair), goal \in {"opened", "cas"} :
        todo = Tail(loc[t].todo) /\ goal = loc[t].then
  BY <1>1, ElementsTail
<1>2. CASE Abort(t)
  BY <1>1, <1>2, AbortStep
<1>3. CASE ~Abort(t)
  <2>1. Validating(t, todo, goal) /\ UNCHANGED <<memory, self, lists, history>>
    BY <1>3, <1>p DEF Validate
  <2>2. EndsOpen(t) <=> goal = "opened"
    BY <1>1, <1>p DEF EndsOpen
  <2>3. goal = "cas" => \A w \in Elements(writes[t]) : w.acquired
    BY <1>0, <1>1, <1>p DEF WritesOK, EndsCommit
  <2>4. goal = "opened" =>
           /\ loc[t].newer \in Versions
           /\ ~mode[t].isLazy /\ loc[t].kind = "RW" =>
                \E w \in Elements(writes[t]) : w.obj = loc[t].obj /\ w.old = loc[t].newer
    BY <1>0, <1>1, <1>p, <2>2 DEF WritesOK, LocalOK
  <2>5. QED
    BY <1>1, <2>1, <2>2, <2>3, <2>4, ValidatingStep
<1>4. QED
  BY <1>2, <1>3

\* The commit goes on to validate the invisible reads
\* (Descriptor_rstm.h:796-801).
LEMMA VerifyStep ==
  ASSUME Inv, NEW t \in Threads, VerifyInvisReads(t)
  PROVE  Inv'
<1>0. WritesOK(t)
  BY ThreadFacts
<1>1. pc[t] = "verify" /\ Validating(t, invisReads[t], "cas") /\ UNCHANGED <<memory, self, lists, history>>
  BY DEF VerifyInvisReads
<1>2. invisReads[t] \in Seq(Pair)
  BY Types
<1>3. \A w \in Elements(writes[t]) : w.acquired
  BY <1>0, <1>1 DEF WritesOK, EndsCommit
<1>4. ~EndsOpen(t)
  BY <1>1 DEF EndsOpen
<1>5. QED
  BY <1>1, <1>2, <1>3, <1>4, ValidatingStep

\* What follows the acquisition, as KillingReaders says.
LEMMA KillingFacts ==
  ASSUME Inv, NEW t \in Threads, NEW victims \in SUBSET Threads, KillingReaders(t, victims)
  PROVE  \/ /\ victims = {} /\ ~mode[t].isLazy /\ Validating(t, invisReads[t], "opened")
         \/ \E l \in Locals, label \in {"killReaders", "acquireLazily"} :
              /\ pc' = [pc EXCEPT ![t] = label] /\ loc' = [loc EXCEPT ![t] = l]
              /\ pc'[t] = label /\ loc'[t] = l
              /\ label = "acquireLazily" => mode[t].isLazy /\ victims = {} /\ ~l.snap.owned
              /\ label = "killReaders" =>
                   /\ l.obj = loc[t].obj /\ l.kind = loc[t].kind /\ l.snap = loc[t].snap
                   /\ l.newer = loc[t].newer /\ l.pending = victims
<1>1. loc[t] \in Locals /\ pc \in [Threads -> Labels] /\ loc \in [Threads -> Locals]
      /\ mode[t] \in [isVisible : BOOLEAN, isLazy : BOOLEAN]
  BY Types
<1>2. CASE victims # {}
  <2>1. PICK l \in Locals : l = [loc[t] EXCEPT !.pending = victims]
    BY <1>1 DEF Locals
  <2>2. /\ l.obj = loc[t].obj /\ l.kind = loc[t].kind /\ l.snap = loc[t].snap
        /\ l.newer = loc[t].newer /\ l.pending = victims
    BY <1>1, <2>1 DEF Locals
  <2>3. loc' = [loc EXCEPT ![t] = l] /\ pc' = [pc EXCEPT ![t] = "killReaders"]
    BY <1>1, <1>2, <2>1 DEF KillingReaders, GoTo
  <2>4. loc'[t] = l /\ pc'[t] = "killReaders"
    BY <2>3, <1>1
  <2>5. QED
    BY <2>2, <2>3, <2>4
<1>3. CASE victims = {} /\ mode[t].isLazy
  <2>1. PICK l \in Locals : l = NoLocals /\ ~l.snap.owned
    BY NoLocalsType DEF Unowned
  <2>2. loc' = [loc EXCEPT ![t] = l] /\ pc' = [pc EXCEPT ![t] = "acquireLazily"]
    BY <1>3, <2>1 DEF KillingReaders, GoTo
  <2>3. loc'[t] = l /\ pc'[t] = "acquireLazily"
    BY <2>2, <1>1
  <2>4. QED
    BY <1>3, <2>1, <2>2, <2>3
<1>4. CASE victims = {} /\ ~mode[t].isLazy
  BY <1>4 DEF KillingReaders
<1>5. QED
  BY <1>1, <1>2, <1>3, <1>4

\* The load of the bitmap of readers (Descriptor_rstm.h:1069-1072).
LEMMA SnapReadersStep ==
  ASSUME Inv, NEW t \in Threads, SnapReaders(t)
  PROVE  Inv'
<1>0. LocalOK(t) /\ ModeOK(t) /\ WritesOK(t) /\ SnapOK(t)
  BY ThreadFacts
<1>1. pc[t] = "snapReaders" /\ KillingReaders(t, Victims(t)) /\ UNCHANGED <<memory, self, lists, history>>
  BY DEF SnapReaders
<1>v. PICK victims \in SUBSET Threads : victims = Victims(t)
  <2>1. loc[t].obj \in Objects
    BY Types DEF Locals
  <2>2. QED
    BY <2>1, Types DEF Victims
<1>e. EndsOpen(t)
  BY <1>1 DEF EndsOpen
<1>2. CASE ~mode[t].isLazy /\ Validating(t, invisReads[t], "opened")
  <2>1. invisReads[t] \in Seq(Pair)
    BY Types
  <2>2. loc[t].newer \in Versions
    BY <1>0, <1>1, <1>2 DEF LocalOK
  <2>3. loc[t].kind = "RW" => \E w \in Elements(writes[t]) : w.obj = loc[t].obj /\ w.old = loc[t].newer
    BY <1>0, <1>2, <1>e DEF WritesOK
  <2>4. QED
    BY <1>1, <1>2, <2>1, <2>2, <2>3, ValidatingStep
<1>3. CASE ~(~mode[t].isLazy /\ Validating(t, invisReads[t], "opened"))
  <2>1. PICK l \in Locals, label \in {"killReaders", "acquireLazily"} :
              /\ pc' = [pc EXCEPT ![t] = label] /\ loc' = [loc EXCEPT ![t] = l]
              /\ pc'[t] = label /\ loc'[t] = l
              /\ label = "acquireLazily" => mode[t].isLazy /\ victims = {} /\ ~l.snap.owned
              /\ label = "killReaders" =>
                   /\ l.obj = loc[t].obj /\ l.kind = loc[t].kind /\ l.snap = loc[t].snap
                   /\ l.newer = loc[t].newer /\ l.pending = victims
    BY <1>1, <1>3, <1>v, KillingFacts
  <2>a. /\ header' = header /\ next' = next /\ readers' = readers /\ txState' = txState
        /\ mode' = mode /\ attempt' = attempt /\ visReads' = visReads /\ writes' = writes
    BY <1>1 DEF memory, self, lists
  <2>2. label \in Labels \ {"idle"}
    BY DEF Labels
  <2>3. LocalOK(t)'
    BY <1>0, <1>1, <2>1, <2>a DEF LocalOK
  <2>4. ModeOK(t)'
    BY <1>0, <2>1, <2>a DEF ModeOK
  <2>5. WritesOK(t)'
    <3>1. EndsOpen(t)' <=> label = "killReaders"
      BY <2>1 DEF EndsOpen
    <3>2. ~EndsCommit(t)' /\ pc'[t] \notin OpenLabels
      BY <2>1 DEF EndsCommit, OpenLabels
    <3>3. (Single(t)' <=> Single(t)) /\ (Killed(t)' <=> Killed(t))
      BY <2>a DEF Single, Killed
    <3>4. QED
      BY <1>0, <1>e, <2>1, <2>a, <3>1, <3>2, <3>3 DEF WritesOK
  <2>6. SnapOK(t)'
    BY <2>1 DEF SnapOK
  <2>7. QED
    BY <1>1, <2>1, <2>2, <2>3, <2>4, <2>5, <2>6, LocalStep
<1>4. QED
  BY <1>2, <1>3

\* The start of the commit (Descriptor_rstm.h:783-794).
LEMMA CommitStep ==
  ASSUME Inv, NEW t \in Threads, Commit(t)
  PROVE  Inv'
<1>0. LocalOK(t) /\ ModeOK(t) /\ WritesOK(t) /\ SnapOK(t)
  BY ThreadFacts
<1>l. PICK l \in Locals : l = loc[t]
  BY Types
<1>1. PICK label \in {"restore", "acquireLazily", "verify"} :
        /\ pc[t] = "work" /\ pc' = [pc EXCEPT ![t] = label] /\ loc' = [loc EXCEPT ![t] = l]
        /\ UNCHANGED <<memory, self, lists, history>>
        /\ label = "restore" <=> txState[t] # "ACTIVE"
        /\ label = "acquireLazily" => mode[t].isLazy
        /\ label = "verify" => ~mode[t].isLazy
  BY <1>l, Types DEF Commit, GoTo
<1>a. /\ header' = header /\ next' = next /\ readers' = readers /\ txState' = txState
      /\ mode' = mode /\ attempt' = attempt /\ visReads' = visReads /\ writes' = writes
  BY <1>1 DEF memory, self, lists
<1>b. loc'[t] = l /\ pc'[t] = label
  BY <1>1, Types
<1>2. label \in Labels \ {"idle"}
  BY DEF Labels
<1>3. LocalOK(t)'
  BY <1>0, <1>1, <1>a, <1>b, <1>l DEF LocalOK
<1>4. ModeOK(t)'
  BY <1>0, <1>1, <1>a, <1>b, <1>l DEF ModeOK
<1>5. WritesOK(t)'
  <2>1. ~EndsOpen(t)' /\ ~EndsOpen(t) /\ pc'[t] \notin OpenLabels
    BY <1>1, <1>b DEF EndsOpen, OpenLabels
  <2>2. EndsCommit(t)' => label = "verify"
    BY <1>b DEF EndsCommit
  <2>3. label = "verify" => \A w \in Elements(writes[t]) : w.acquired
    BY <1>0, <1>1 DEF WritesOK
  <2>4. QED
    BY <2>1, <2>2, <2>3, <1>1, <1>b, LocalWrites
<1>6. SnapOK(t)'
  BY <1>b DEF SnapOK
<1>7. QED
  BY <1>1, <1>2, <1>3, <1>4, <1>5, <1>6, LocalStep

-------------------------------------------------------------------------------
(* The statements that change the lists and the bitmaps.                     *)

\* WritesOK after a step that leaves the headers, the writes and tx_state alone.
LEMMA WritesFrame ==
  ASSUME Inv, NEW t \in Threads,
         UNCHANGED <<header, txState, mode, attempt, writes>>,
         EndsOpen(t) => EndsOpen(t)' \/ pc'[t] = "restore" \/ ~Killed(t),
         mode[t].isLazy /\ pc'[t] \in OpenLabels => \A w \in Elements(writes[t]) : w.obj # loc'[t].obj,
         ~mode[t].isLazy /\ loc'[t].kind = "RW" /\ EndsOpen(t)' =>
           \E w \in Elements(writes[t]) : w.obj = loc'[t].obj /\ w.old = loc'[t].newer,
         EndsCommit(t)' => \A w \in Elements(writes[t]) : w.acquired,
         pc[t] = "restore" => pc'[t] = "restore"
  PROVE  WritesOK(t)'
<1>1. Single(t)' <=> Single(t)
  BY DEF Single
<1>2. Killed(t)' <=> Killed(t)
  BY DEF Killed
<1>3. WritesOK(t)
  BY DEF Inv, ThreadInv
<1>4. QED
  BY <1>1, <1>2, <1>3 DEF WritesOK

\* A step that leaves the headers, the versions and the descriptors alone.
LEMMA QuietStep ==
  ASSUME Inv, NEW t \in Threads, pc[t] # "idle",
         UNCHANGED <<header, next, txState, mode, attempt, began, committed>>,
         NEW label \in Labels \ {"idle"}, pc[t] = "restore" => label = "restore",
         pc' = [pc EXCEPT ![t] = label],
         NEW l \in Locals, loc' = [loc EXCEPT ![t] = l],
         readers' \in [Objects -> SUBSET Threads], invisReads' \in [Threads -> Seq(Pair)],
         visReads' \in [Threads -> SUBSET Objects], writes' \in [Threads -> Seq(Entry)],
         seen' \in [Threads -> SUBSET Pair],
         \A u \in Threads \ {t} :
           /\ invisReads'[u] = invisReads[u] /\ visReads'[u] = visReads[u]
           /\ writes'[u] = writes[u] /\ seen'[u] = seen[u]
           /\ \A o \in Objects : u \in readers'[o] <=> u \in readers[o],
         \A w \in Elements(writes[t]) : w \in Elements(writes'[t]),
         LocalOK(t)', ModeOK(t)', WritesOK(t)', SnapOK(t)', ReadersOK(t)'
  PROVE  Inv'
<1>b. pc \in [Threads -> Labels] /\ loc \in [Threads -> Locals]
  BY Types
<1>1. Others(t)
  BY <1>b DEF Others
<1>2. Headers(t)
  BY DEF Headers
<1>w. \A u \in Threads : \A w \in Elements(writes[u]) : w \in Elements(writes'[u])
  OBVIOUS
<1>3. UsedStable
  <2>1. ASSUME NEW o \in Objects, NEW v \in Versions, OwnerOf(v) \in Threads, Used(o, v)
        PROVE  Used(o, v)'
    <3>1. pc[OwnerOf(v)] \in {"restore", "idle"} => pc'[OwnerOf(v)] = pc[OwnerOf(v)]
      BY <1>b, <2>1
    <3>2. QED
      BY <1>w, <2>1, <3>1 DEF Used, OwnerOf
  <2>2. QED
    BY <2>1 DEF UsedStable
<1>4. TypeInv'
  BY <1>b DEF Inv, TypeInv, MemoryOK, ThreadOK, ListsOK, HistoryOK
<1>5. ThreadInv(t)'
  BY DEF ThreadInv
<1>6. OwnerOK'
  <2>1. ASSUME NEW o \in Objects, header[o].owned
        PROVE  \E u \in Threads : pc'[u] # "idle" /\ Owns(u, o, header[o].ver)'
    <3>1. PICK u \in Threads : pc[u] # "idle" /\ Owns(u, o, header[o].ver)
      BY <2>1 DEF Inv, OwnerOK
    <3>2. pc'[u] # "idle"
      BY <1>b, <3>1
    <3>3. QED
      BY <1>w, <3>1, <3>2 DEF Owns
  <2>2. QED
    BY <2>1 DEF OwnerOK
<1>7. CommittedOK'
  BY <1>b DEF Inv, CommittedOK
<1>8. QED
  BY <1>1, <1>2, <1>3, <1>4, <1>5, <1>6, <1>7, StepInv

\* The CAS of the bitmap of readers (Descriptor_rstm.h:1056-1067).
LEMMA InstallStep ==
  ASSUME Inv, NEW t \in Threads, InstallVisibleReader(t)
  PROVE  Inv'
<1>0. LocalOK(t) /\ ModeOK(t) /\ WritesOK(t) /\ SnapOK(t) /\ ReadersOK(t)
  BY ThreadFacts
<1>o. PICK o \in Objects, l \in Locals : o = loc[t].obj /\ l = loc[t]
  BY Types DEF Locals
<1>1. /\ pc[t] = "install" /\ pc' = [pc EXCEPT ![t] = "check"] /\ loc' = [loc EXCEPT ![t] = l]
      /\ UNCHANGED <<header, next, txState, mode, attempt, began, committed>>
      /\ invisReads' = invisReads /\ writes' = writes /\ seen' = seen
      /\ readers' = [readers EXCEPT ![o] = @ \cup {t}]
      /\ visReads' = [visReads EXCEPT ![t] = @ \cup {o}]
  BY <1>o, Types DEF InstallVisibleReader, GoTo, self, history
<1>b. pc'[t] = "check" /\ loc'[t] = l
  BY <1>1, Types
<1>2. "check" \in Labels \ {"idle"}
  BY DEF Labels
<1>3. LocalOK(t)'
  BY <1>0, <1>1, <1>b, <1>o DEF LocalOK
<1>4. ModeOK(t)'
  BY <1>0, <1>1, <1>b, <1>o DEF ModeOK
<1>5. WritesOK(t)'
  <2>1. ~EndsOpen(t) /\ ~EndsOpen(t)' /\ ~EndsCommit(t)' /\ pc'[t] \notin OpenLabels
    BY <1>1, <1>b DEF EndsOpen, EndsCommit, OpenLabels
  <2>2. QED
    BY <2>1, <1>1, WritesFrame
<1>6. SnapOK(t)'
  BY <1>b DEF SnapOK
<1>7. ReadersOK(t)'
  BY <1>0, <1>1, Types DEF ReadersOK
<1>8. /\ readers' \in [Objects -> SUBSET Threads] /\ visReads' \in [Threads -> SUBSET Objects]
      /\ \A u \in Threads \ {t} : visReads'[u] = visReads[u] /\ \A p \in Objects : u \in readers'[p] <=> u \in readers[p]
  BY <1>1, Types
<1>9. QED
  BY <1>1, <1>2, <1>3, <1>4, <1>5, <1>6, <1>7, <1>8, Types, QuietStep

\* The version goes to the program (Descriptor_rstm.h:1257-1264).
LEMMA OpenedStep ==
  ASSUME Inv, NEW t \in Threads, Opened(t)
  PROVE  Inv'
<1>0. LocalOK(t) /\ ModeOK(t) /\ WritesOK(t) /\ SnapOK(t) /\ ReadersOK(t)
  BY ThreadFacts
<1>1. pc[t] = "opened"
  BY DEF Opened
<1>2. CASE Killed(t)
  BY <1>1, <1>2, AbortStep DEF Opened
<1>3. CASE ~Killed(t)
  <2>1. PICK l \in Locals : l = NoLocals /\ ~l.snap.owned
    BY NoLocalsType DEF Unowned
  <2>2. /\ pc' = [pc EXCEPT ![t] = "work"] /\ loc' = [loc EXCEPT ![t] = l]
        /\ UNCHANGED <<header, next, txState, mode, attempt, began, committed>>
        /\ UNCHANGED <<readers, invisReads, visReads, writes>>
        /\ seen' = [seen EXCEPT ![t] = @ \cup {<<loc[t].obj, loc[t].newer>>}]
    BY <1>3, <2>1 DEF Opened, GoTo, memory, self, lists
  <2>3. <<loc[t].obj, loc[t].newer>> \in Pair
    BY <1>0, <1>1, Types DEF Pair, LocalOK, Locals
  <2>4. seen' \in [Threads -> SUBSET Pair] /\ \A u \in Threads \ {t} : seen'[u] = seen[u]
    BY <2>2, <2>3, Types
  <2>b. pc'[t] = "work" /\ loc'[t] = l
    BY <2>2, Types
  <2>5. "work" \in Labels \ {"idle"}
    BY DEF Labels
  <2>6. LocalOK(t)'
    BY <1>0, <1>1, <2>2, <2>b, <2>1 DEF LocalOK
  <2>7. ModeOK(t)'
    BY <1>0, <2>2, <2>b DEF ModeOK
  <2>8. WritesOK(t)'
    <3>1. ~EndsOpen(t)' /\ ~EndsCommit(t)' /\ pc'[t] \notin OpenLabels
      BY <2>b DEF EndsOpen, EndsCommit, OpenLabels
    <3>2. QED
      BY <3>1, <1>1, <1>3, <2>2, WritesFrame
  <2>9. SnapOK(t)'
    BY <2>b DEF SnapOK
  <2>10. ReadersOK(t)'
    BY <1>0, <2>2 DEF ReadersOK
  <2>11. QED
    BY <1>1, <2>2, <2>4, <2>5, <2>6, <2>7, <2>8, <2>9, <2>10, Types, QuietStep
<1>4. QED
  BY <1>2, <1>3

\* The reader leaves a bitmap (Descriptor_rstm.h:1030-1042).
LEMMA RemoveStep ==
  ASSUME Inv, NEW t \in Threads, RemoveVisibleReader(t)
  PROVE  Inv'
<1>0. LocalOK(t) /\ ModeOK(t) /\ WritesOK(t) /\ SnapOK(t) /\ ReadersOK(t)
  BY ThreadFacts
<1>l. PICK l \in Locals : l = loc[t]
  BY Types
<1>o. PICK o \in visReads[t] :
        /\ readers' = [readers EXCEPT ![o] = @ \ {t}]
        /\ visReads' = [visReads EXCEPT ![t] = @ \ {o}]
  BY DEF RemoveVisibleReader
<1>1. /\ pc[t] = "restore" /\ pc' = [pc EXCEPT ![t] = "restore"] /\ loc' = [loc EXCEPT ![t] = l]
      /\ UNCHANGED <<header, next, txState, mode, attempt, began, committed>>
      /\ invisReads' = invisReads /\ writes' = writes /\ seen' = seen
  BY <1>l, Types DEF RemoveVisibleReader, self, history
<1>2. "restore" \in Labels \ {"idle"} /\ o \in Objects
  BY Types DEF Labels
<1>b. pc'[t] = "restore" /\ loc'[t] = l
  BY <1>1, Types
<1>3. LocalOK(t)'
  BY <1>0, <1>1, <1>b, <1>l DEF LocalOK
<1>4. ModeOK(t)'
  <2>1. visReads'[t] \subseteq visReads[t]
    BY <1>o, Types
  <2>2. QED
    BY <1>0, <1>1, <1>b, <1>l, <2>1 DEF ModeOK
<1>5. WritesOK(t)'
  <2>1. ~EndsOpen(t) /\ ~EndsOpen(t)' /\ ~EndsCommit(t)' /\ pc'[t] \notin OpenLabels
    BY <1>1, <1>b DEF EndsOpen, EndsCommit, OpenLabels
  <2>2. QED
    BY <2>1, <1>1, <1>b, WritesFrame
<1>6. SnapOK(t)'
  BY <1>b DEF SnapOK
<1>7. ReadersOK(t)'
  BY <1>0, <1>o, <1>2, Types DEF ReadersOK
<1>8. /\ readers' \in [Objects -> SUBSET Threads] /\ visReads' \in [Threads -> SUBSET Objects]
      /\ \A u \in Threads \ {t} : visReads'[u] = visReads[u] /\ \A p \in Objects : u \in readers'[p] <=> u \in readers[p]
  BY <1>o, <1>2, Types
<1>9. QED
  BY <1>1, <1>2, <1>3, <1>4, <1>5, <1>6, <1>7, <1>8, Types, QuietStep

\* addValidateInvisRead (Descriptor_rstm.h:840-860).
LEMMA InsertStep ==
  ASSUME Inv, NEW t \in Threads, InsertInvisRead(t)
  PROVE  Inv'
<1>0. LocalOK(t) /\ ModeOK(t) /\ WritesOK(t) /\ SnapOK(t) /\ ReadersOK(t)
  BY ThreadFacts
<1>1. pc[t] = "insert"
  BY DEF InsertInvisRead
<1>o. PICK o \in Objects, v \in Versions : o = loc[t].obj /\ v = loc[t].newer
  BY <1>0, <1>1, Types DEF LocalOK, Locals
<1>k. PICK known : known = {i \in DOMAIN invisReads[t] : invisReads[t][i][1] = o}
  OBVIOUS
<1> DEFINE n == IF known = {} THEN Len(invisReads[t])
                ELSE CHOOSE i \in known : \A k \in known : i <= k
<1> HIDE DEF n
<1>s. invisReads[t] \in Seq(Pair) /\ Len(invisReads[t]) \in Nat /\ DOMAIN invisReads[t] = 1 .. Len(invisReads[t])
  BY Types
<1>2. n \in 0 .. Len(invisReads[t])
  <2>1. CASE known = {}
    BY <1>s, <2>1 DEF n
  <2>2. CASE known # {}
    <3>1. known \subseteq Nat /\ known \subseteq 0 .. Len(invisReads[t])
      BY <1>k, <1>s
    <3>2. \E i \in known : \A k \in known : i <= k
      BY <2>2, <3>1, NatLeast
    <3>3. n \in known
      BY <2>2, <3>2 DEF n
    <3>4. QED
      BY <3>1, <3>3
  <2>3. QED
    BY <2>1, <2>2
<1>t. PICK todo \in Seq(Pair) : todo = SubSeq(invisReads[t], 1, n) \o LazyPairs(t)
  BY <1>2, PairsType
<1>3. /\ invisReads' = [invisReads EXCEPT ![t] = IF known = {} THEN Append(@, <<o, v>>) ELSE @]
      /\ Validating(t, todo, "opened")
      /\ UNCHANGED <<header, next, txState, mode, attempt, began, committed>>
      /\ UNCHANGED <<readers, visReads, writes, seen>>
  BY <1>o, <1>k, <1>t DEF n, InsertInvisRead, memory, self, history
<1>4. invisReads' \in [Threads -> Seq(Pair)] /\ \A u \in Threads \ {t} : invisReads'[u] = invisReads[u]
  <2>1. <<o, v>> \in Pair
    BY DEF Pair
  <2>2. Append(invisReads[t], <<o, v>>) \in Seq(Pair)
    BY <2>1, <1>s
  <2>3. QED
    BY <2>2, <1>3, Types
<1>5. PICK l \in Locals, label \in {"opened", "validate"} :
           /\ pc' = [pc EXCEPT ![t] = label] /\ loc' = [loc EXCEPT ![t] = l]
           /\ pc'[t] = label /\ loc'[t] = l
           /\ l.obj = loc[t].obj /\ l.kind = loc[t].kind /\ l.snap = loc[t].snap
           /\ l.newer = loc[t].newer
           /\ label = "validate" => l.then = "opened" /\ l.todo # <<>>
           /\ l.todo = todo
  <2>1. pc \in [Threads -> Labels] /\ loc \in [Threads -> Locals]
    BY Types
  <2>2. QED
    BY <1>3, <2>1, ValidatingFacts
<1>6. label \in Labels \ {"idle"}
  BY DEF Labels
<1>7. LocalOK(t)'
  BY <1>0, <1>1, <1>3, <1>5 DEF LocalOK
<1>8. ModeOK(t)'
  BY <1>0, <1>3, <1>5 DEF ModeOK
<1>9. WritesOK(t)'
  <2>1. ~EndsOpen(t) /\ ~EndsCommit(t)' /\ pc'[t] \notin OpenLabels /\ loc'[t].kind = "RO"
    BY <1>0, <1>1, <1>5 DEF EndsOpen, EndsCommit, OpenLabels, ModeOK
  <2>2. QED
    BY <2>1, <1>1, <1>3, <1>5, WritesFrame
<1>10. SnapOK(t)'
  BY <1>5 DEF SnapOK
<1>11. ReadersOK(t)'
  BY <1>0, <1>3 DEF ReadersOK
<1>12. QED
  BY <1>1, <1>3, <1>4, <1>5, <1>6, <1>7, <1>8, <1>9, <1>10, <1>11, Types, QuietStep

\* The entry that thread t adds to writes for version v of object o.
IsNewEntry(t, o, v, a, new, e) ==
  /\ new = NewVersion(t, o) /\ new = <<t, attempt[t], new[3]>> /\ new[3] \in 1 .. 2
  /\ e = [obj |-> o, old |-> v, new |-> new, acquired |-> a]
  /\ e.obj = o /\ e.old = v /\ e.new = new /\ e.acquired = a
  /\ ~ \E w \in Elements(writes[t]) : w.obj = o /\ w.new = new
  /\ \A w \in Elements(writes[t]) : w.new[3] = 1
  /\ Single(t)
  /\ (\A w \in Elements(writes[t]) : w.obj # o) => new[3] = 1

\* The new entry of writes when thread t makes a version of object o.
LEMMA NewEntry ==
  ASSUME Inv, NEW t \in Threads, pc[t] \in {"acquire", "clone"}, NEW o \in Objects,
         NEW v \in Versions, NEW a \in BOOLEAN
  PROVE  \E new \in Versions, e \in Entry :
           IsNewEntry(t, o, v, a, new, e)
<1>0. LocalOK(t) /\ WritesOK(t)
  BY ThreadFacts
<1>1. ~EndsOpen(t) /\ pc[t] # "restore"
  BY DEF EndsOpen
<1>2. Single(t) /\ \A w \in Elements(writes[t]) : w.new[3] = 1
  BY <1>0, <1>1 DEF WritesOK
<1>3. attempt[t] \in 1 .. MaxAttempts
  BY <1>0, Types, BoundAssumption DEF LocalOK
<1>4. PICK k \in 1 .. 2 : k = IF \E w \in Elements(writes[t]) : w.obj = o THEN 2 ELSE 1
  OBVIOUS
<1>5. PICK new \in Versions : new = <<t, attempt[t], k>>
  BY <1>3, VersionFacts
<1>6. new[3] = k /\ new = NewVersion(t, o)
  BY <1>4, <1>5 DEF NewVersion
<1>7. PICK e \in Entry : e = [obj |-> o, old |-> v, new |-> new, acquired |-> a]
  BY DEF Entry
<1>8. ~ \E w \in Elements(writes[t]) : w.obj = o /\ w.new = new
  BY <1>2, <1>4, <1>6
<1>9. QED
  <2>1. IsNewEntry(t, o, v, a, new, e)
    BY <1>2, <1>4, <1>5, <1>6, <1>7, <1>8 DEF IsNewEntry
  <2>2. QED
    BY <2>1

\* Entry e has been added to the writes of t.
EntryAdded(t, e) ==
  /\ writes' \in [Threads -> Seq(Entry)]
  /\ Elements(writes'[t]) = Elements(writes[t]) \cup {e}
  /\ \A u \in Threads \ {t} : writes'[u] = writes[u]
  /\ \A w \in Elements(writes'[t]) : w.new = <<t, attempt[t], w.new[3]>> /\ w.new[3] \in 1 .. 2
  /\ \A i, k \in DOMAIN writes'[t] :
       writes'[t][i].obj = writes'[t][k].obj /\ writes'[t][i].new = writes'[t][k].new => i = k
  /\ Single(t) /\ (\A w \in Elements(writes[t]) : w.obj # e.obj) => Single(t)'

\* What holds of the list once an entry is at its end.
LEMMA AppendEntry ==
  ASSUME Inv, NEW t \in Threads, NEW e \in Entry,
         e.new = <<t, attempt[t], e.new[3]>>, e.new[3] \in 1 .. 2,
         ~ \E w \in Elements(writes[t]) : w.obj = e.obj /\ w.new = e.new,
         attempt' = attempt, writes' = [writes EXCEPT ![t] = Append(@, e)]
  PROVE  EntryAdded(t, e)
<1>0. WritesOK(t) /\ writes[t] \in Seq(Entry)
  BY ThreadFacts, Types
<1>b. PICK s \in Seq(Entry), n \in Nat : s = writes[t] /\ n = Len(s)
  BY <1>0
<1>c. PICK z \in Seq(Entry) : z = Append(s, e)
  BY ElementsAppend
<1>s. /\ z \in Seq(Entry)
      /\ s = writes[t] /\ n = Len(s) /\ z = Append(s, e) /\ DOMAIN s = 1 .. n /\ DOMAIN z = 1 .. n + 1
      /\ \A i \in 1 .. n : z[i] = s[i]
      /\ z[n + 1] = e
      /\ Elements(z) = Elements(s) \cup {e}
  BY <1>b, <1>c, ElementsAppend
<1>e. Elements(z) = Elements(writes[t]) \cup {e}
  <2>1. Elements(z) = Elements(s) \cup {e}
    BY <1>s
  <2>2. QED
    BY <2>1, <1>b
<1>1. writes' = [writes EXCEPT ![t] = z] /\ writes'[t] = z
  BY <1>s, Types
<1>2. /\ writes' \in [Threads -> Seq(Entry)]
      /\ \A u \in Threads \ {t} : writes'[u] = writes[u]
  BY <1>1, Types
<1>3. \A i \in 1 .. n : s[i] \in Elements(s)
  BY <1>s DEF Elements
<1>4. \A i \in 1 .. n : ~(s[i].obj = e.obj /\ s[i].new = e.new)
  BY <1>3, <1>s
<1>5. \A i, k \in 1 .. n : s[i].obj = s[k].obj /\ s[i].new = s[k].new => i = k
  BY <1>0, <1>s DEF WritesOK
<1>6. \A i, k \in 1 .. n + 1 : z[i].obj = z[k].obj /\ z[i].new = z[k].new => i = k
  <2>1. ASSUME NEW i \in 1 .. n + 1, NEW k \in 1 .. n + 1, z[i].obj = z[k].obj, z[i].new = z[k].new
        PROVE  i = k
    <3>1. CASE i \in 1 .. n /\ k \in 1 .. n
      BY <2>1, <3>1, <1>s, <1>5
    <3>2. CASE i \in 1 .. n /\ k = n + 1
      BY <2>1, <3>2, <1>s, <1>4
    <3>3. CASE i = n + 1 /\ k \in 1 .. n
      BY <2>1, <3>3, <1>s, <1>4
    <3>4. QED
      BY <3>1, <3>2, <3>3
  <2>2. QED
    BY <2>1
<1>7. Single(t) /\ (\A w \in Elements(writes[t]) : w.obj # e.obj) => Single(t)'
  <2>1. ASSUME Single(t), \A w \in Elements(writes[t]) : w.obj # e.obj,
               NEW i \in 1 .. n + 1, NEW k \in 1 .. n + 1, z[i].obj = z[k].obj
        PROVE  i = k
    <3>1. CASE i \in 1 .. n /\ k \in 1 .. n
      BY <2>1, <3>1, <1>s DEF Single
    <3>2. CASE i \in 1 .. n /\ k = n + 1
      BY <2>1, <3>2, <1>s, <1>3
    <3>3. CASE i = n + 1 /\ k \in 1 .. n
      BY <2>1, <3>3, <1>s, <1>3
    <3>4. QED
      BY <3>1, <3>2, <3>3
  <2>2. QED
    BY <2>1, <1>1, <1>s DEF Single
<1>8. \A w \in Elements(writes'[t]) : w.new = <<t, attempt[t], w.new[3]>> /\ w.new[3] \in 1 .. 2
  <2>1. \A w \in Elements(writes[t]) : w.new = <<t, attempt[t], w.new[3]>> /\ w.new[3] \in 1 .. 2
    BY <1>0 DEF WritesOK
  <2>2. \A w \in Elements(z) : w \in Elements(writes[t]) \/ w = e
    BY <1>e
  <2>3. QED
    BY <2>1, <2>2, <1>1
<1>10. /\ Elements(writes'[t]) = Elements(writes[t]) \cup {e}
       /\ \A i, k \in DOMAIN writes'[t] :
             writes'[t][i].obj = writes'[t][k].obj /\ writes'[t][i].new = writes'[t][k].new => i = k
  <2>1. DOMAIN writes'[t] = 1 .. n + 1
    BY <1>1, <1>s
  <2>2. QED
    BY <1>1, <1>6, <1>e, <2>1
<1>9. QED
  BY <1>2, <1>7, <1>8, <1>10 DEF EntryAdded

\* A lazy writer clones the version (Descriptor_rstm.h:1420-1450).
LEMMA CloneStep ==
  ASSUME Inv, NEW t \in Threads, CloneLazily(t)
  PROVE  Inv'
<1>0. LocalOK(t) /\ ModeOK(t) /\ WritesOK(t) /\ SnapOK(t) /\ ReadersOK(t)
  BY ThreadFacts
<1>1. pc[t] = "clone" /\ mode[t].isLazy
  BY <1>0 DEF CloneLazily, ModeOK
<1>o. PICK o \in Objects, v \in Versions : o = loc[t].obj /\ v = loc[t].newer
  BY <1>0, <1>1, Types DEF LocalOK, Locals
<1>2. PICK new \in Versions, e \in Entry :
           IsNewEntry(t, o, v, FALSE, new, e)
  BY <1>1, NewEntry
<1>n. /\ new = NewVersion(t, o) /\ new = <<t, attempt[t], new[3]>> /\ new[3] \in 1 .. 2
      /\ e = [obj |-> o, old |-> v, new |-> new, acquired |-> FALSE]
      /\ e.obj = o /\ e.old = v /\ e.new = new /\ e.acquired = FALSE
      /\ ~ \E w \in Elements(writes[t]) : w.obj = o /\ w.new = new
      /\ \A w \in Elements(writes[t]) : w.new[3] = 1
      /\ Single(t)
      /\ (\A w \in Elements(writes[t]) : w.obj # o) => new[3] = 1
  BY <1>2 DEF IsNewEntry
<1>3. /\ writes' = [writes EXCEPT ![t] = Append(@, e)]
      /\ Validating(t, invisReads[t] \o Pairs(writes'[t]), "opened")
      /\ UNCHANGED <<header, next, txState, mode, attempt, began, committed>>
      /\ UNCHANGED <<readers, visReads, invisReads, seen>>
  BY <1>o, <1>n DEF CloneLazily, Cloned, memory, self, history
<1>4. /\ writes' \in [Threads -> Seq(Entry)]
      /\ Elements(writes'[t]) = Elements(writes[t]) \cup {e}
      /\ \A u \in Threads \ {t} : writes'[u] = writes[u]
      /\ \A w \in Elements(writes'[t]) : w.new = <<t, attempt[t], w.new[3]>> /\ w.new[3] \in 1 .. 2
      /\ \A i, k \in DOMAIN writes'[t] :
              writes'[t][i].obj = writes'[t][k].obj /\ writes'[t][i].new = writes'[t][k].new => i = k
      /\ Single(t) /\ (\A w \in Elements(writes[t]) : w.obj # e.obj) => Single(t)'
  <2>1. EntryAdded(t, e)
    BY <1>n, <1>3, AppendEntry DEF IsNewEntry
  <2>2. QED
    BY <2>1 DEF EntryAdded
<1>t. PICK todo \in Seq(Pair) : todo = invisReads[t] \o Pairs(writes'[t])
  <2>1. invisReads[t] \in Seq(Pair)
    BY Types
  <2>0. PICK ws \in Seq(Entry) : ws = writes'[t]
    BY <1>4
  <2>2. PICK ps \in Seq(Pair) : ps = Pairs(ws)
    BY PairsSeq
  <2>3. invisReads[t] \o ps \in Seq(Pair)
    BY <2>1
  <2>4. QED
    BY <2>0, <2>2, <2>3
<1>5. PICK l \in Locals, label \in {"opened", "validate"} :
           /\ pc' = [pc EXCEPT ![t] = label] /\ loc' = [loc EXCEPT ![t] = l]
           /\ pc'[t] = label /\ loc'[t] = l
           /\ l.obj = loc[t].obj /\ l.kind = loc[t].kind /\ l.snap = loc[t].snap
           /\ l.newer = loc[t].newer
           /\ label = "validate" => l.then = "opened" /\ l.todo # <<>>
           /\ l.todo = todo
  <2>1. pc \in [Threads -> Labels] /\ loc \in [Threads -> Locals] /\ Validating(t, todo, "opened")
    BY <1>3, <1>t, Types
  <2>2. QED
    BY <2>1, ValidatingFacts
<1>6. label \in Labels \ {"idle"}
  BY DEF Labels
<1>7. LocalOK(t)'
  BY <1>0, <1>1, <1>3, <1>5 DEF LocalOK
<1>8. ModeOK(t)'
  BY <1>0, <1>3, <1>5 DEF ModeOK
<1>9. WritesOK(t)'
  <2>1. ~EndsCommit(t)' /\ pc'[t] \notin OpenLabels
    BY <1>5 DEF EndsCommit, OpenLabels
  <2>2. \A w \in Elements(writes[t]) : w.obj # o
    BY <1>0, <1>1, <1>o DEF WritesOK, OpenLabels
  <2>3. Single(t)' /\ \A w \in Elements(writes'[t]) : w.new[3] = 1
    BY <1>n, <1>4, <2>2
  <2>4. \A w \in Elements(writes'[t]) : w.acquired => w \in Elements(writes[t])
    BY <1>n, <1>4
  <2>5. txState'[t] = "ACTIVE" => \A w \in Elements(writes'[t]) : w.acquired => header'[w.obj] = Owned(w.new)
    BY <1>0, <1>3, <2>4 DEF WritesOK
  <2>6. mode'[t].isLazy
    BY <1>1, <1>3
  <2>7. /\ \A w \in Elements(writes'[t]) : w.new = <<t, attempt'[t], w.new[3]>> /\ w.new[3] \in 1 .. 2
        /\ ~ \E w \in Elements(writes'[t]) : w.new[3] = 2
    BY <1>3, <1>4, <2>3
  <2>8. QED
    BY <1>4, <2>1, <2>3, <2>5, <2>6, <2>7 DEF WritesOK
<1>10. SnapOK(t)'
  BY <1>5 DEF SnapOK
<1>11. ReadersOK(t)'
  BY <1>0, <1>3 DEF ReadersOK
<1>12. QED
  BY <1>1, <1>3, <1>4, <1>5, <1>6, <1>7, <1>8, <1>9, <1>10, <1>11, Types, QuietStep

\* An eager writer clones the version and acquires the object
\* (Descriptor_rstm.h:1428-1446). Its CAS succeeds only if the header still is the
\* snapshot, and so the version it cloned is the current one.
LEMMA AcquireStep ==
  ASSUME Inv, NEW t \in Threads, Acquire(t)
  PROVE  Inv'
<1>0. LocalOK(t) /\ ModeOK(t) /\ WritesOK(t) /\ SnapOK(t) /\ ReadersOK(t)
  BY ThreadFacts
<1>1. pc[t] = "acquire" /\ ~mode[t].isLazy
  BY <1>0 DEF Acquire, ModeOK
<1>o. PICK o \in Objects, v \in Versions, l \in Locals : o = loc[t].obj /\ v = loc[t].newer /\ l = loc[t]
  BY <1>0, <1>1, Types DEF LocalOK, Locals
<1>2. CASE ~Swaps(o, loc[t].snap)
  <2>1. /\ pc' = [pc EXCEPT ![t] = "contend"] /\ loc' = [loc EXCEPT ![t] = l]
        /\ UNCHANGED <<memory, self, lists, history>>
    BY <1>2, <1>o, Types DEF Acquire, GoTo, memory, lists
  <2>2. QED
    BY <1>1, <1>o, <2>1, BackStep
<1>3. CASE Swaps(o, loc[t].snap)
  <2>1. header[o] = loc[t].snap
    BY <1>3 DEF Swaps
  <2>2. PICK new \in Versions, e \in Entry :
           IsNewEntry(t, o, v, TRUE, new, e)
    BY <1>1, NewEntry
  <2>n. /\ new = NewVersion(t, o) /\ new = <<t, attempt[t], new[3]>> /\ new[3] \in 1 .. 2
        /\ e = [obj |-> o, old |-> v, new |-> new, acquired |-> TRUE]
        /\ e.obj = o /\ e.old = v /\ e.new = new /\ e.acquired = TRUE
        /\ ~ \E w \in Elements(writes[t]) : w.obj = o /\ w.new = new
        /\ \A w \in Elements(writes[t]) : w.new[3] = 1
        /\ Single(t)
        /\ (\A w \in Elements(writes[t]) : w.obj # o) => new[3] = 1
    BY <2>2 DEF IsNewEntry
  <2>3. /\ header' = [header EXCEPT ![o] = Owned(new)]
        /\ next' = [next EXCEPT ![o][new] = v]
        /\ writes' = [writes EXCEPT ![t] = Append(@, e)]
        /\ pc' = [pc EXCEPT ![t] = "snapReaders"]
        /\ UNCHANGED <<readers, txState, mode, attempt, loc, invisReads, visReads, seen, began, committed>>
    BY <1>3, <1>o, <2>n DEF Acquire, GoTo, Cloned, self, history
  <2>4. /\ writes' \in [Threads -> Seq(Entry)]
        /\ Elements(writes'[t]) = Elements(writes[t]) \cup {e}
        /\ \A u \in Threads \ {t} : writes'[u] = writes[u]
        /\ \A w \in Elements(writes'[t]) : w.new = <<t, attempt[t], w.new[3]>> /\ w.new[3] \in 1 .. 2
        /\ \A i, k \in DOMAIN writes'[t] :
                writes'[t][i].obj = writes'[t][k].obj /\ writes'[t][i].new = writes'[t][k].new => i = k
        /\ Single(t) /\ (\A w \in Elements(writes[t]) : w.obj # e.obj) => Single(t)'
    <3>1. EntryAdded(t, e)
      BY <2>n, <2>3, AppendEntry DEF IsNewEntry
    <3>2. QED
      BY <3>1 DEF EntryAdded
  <2>5. OwnerOf(new) = t /\ new[2] = attempt[t] /\ Owned(new) \in Header /\ Owned(new).ver = new
        /\ Owned(new).owned
    BY <2>n DEF OwnerOf, Owned, Header
  <2>6. /\ pc' \in [Threads -> Labels] /\ pc'[t] = "snapReaders"
        /\ \A u \in Threads \ {t} : pc'[u] = pc[u]
        /\ header' \in [Objects -> Header] /\ header'[o] = Owned(new)
        /\ \A p \in Objects \ {o} : header'[p] = header[p]
        /\ next' \in [Objects -> [Versions -> AnyVersion]] /\ next'[o][new] = v
        /\ \A p \in Objects \ {o} : next'[p] = next[p]
    BY <2>3, <2>5, Types DEF Labels, AnyVersion
  <2>7. ~Used(o, new)
    BY <1>1, <2>n, <2>5, Types DEF Used
  <2>8. header[o] # Owned(new)
    BY <2>5, <2>7, OwnedUsed
  <2>9. header[o].owned => txState[OwnerOf(header[o].ver)] # "ACTIVE"
    BY <1>0, <1>1, <1>o, <2>1 DEF SnapOK
  <2>10. txState[t] = "ACTIVE" => \A w \in Elements(writes[t]) : w.obj # o
    <3>1. ASSUME txState[t] = "ACTIVE", NEW w \in Elements(writes[t]), w.obj = o PROVE FALSE
      <4>1. header[o] = Owned(w.new) /\ OwnerOf(w.new) = t
        BY <3>1, <1>0, <1>1, EntryFacts DEF WritesOK
      <4>2. QED
        BY <3>1, <4>1, <2>9 DEF Owned
    <3>2. QED
      BY <3>1
  <2>11. Others(t)
    BY <2>3, <2>4, <2>6 DEF Others
  <2>12. Headers(t)
    <3>1. ASSUME NEW p \in Objects, NEW x \in Versions
          PROVE  /\ header'[p] = Owned(x) /\ header[p] # Owned(x) => ~Used(p, x)
                 /\ header'[p] = Owned(x) /\ header[p] = Owned(x) => next'[p][x] = next[p][x]
                 /\ header[p] = Owned(x) /\ OwnerOf(x) \in Threads \ {t} /\ txState[OwnerOf(x)] = "ACTIVE" =>
                      header'[p] = header[p]
      <4>1. CASE p = o
        <5>1. header'[p] = Owned(x) => x = new
          BY <4>1, <2>6 DEF Owned
        <5>2. header[p] = Owned(x) => txState[OwnerOf(x)] # "ACTIVE"
          BY <4>1, <2>9 DEF Owned
        <5>3. QED
          BY <4>1, <5>1, <5>2, <2>7, <2>8
      <4>2. CASE p # o
        BY <4>2, <2>6
      <4>3. QED
        BY <4>1, <4>2
    <3>2. QED
      BY <3>1, <2>3 DEF Headers
  <2>13. UsedStable
    <3>1. ASSUME NEW p \in Objects, NEW x \in Versions, OwnerOf(x) \in Threads, Used(p, x)
          PROVE  Used(p, x)'
      <4>1. pc[OwnerOf(x)] \in {"restore", "idle"} => pc'[OwnerOf(x)] = pc[OwnerOf(x)]
        BY <1>1, <2>6, <3>1
      <4>2. \A w \in Elements(writes[OwnerOf(x)]) : w \in Elements(writes'[OwnerOf(x)])
        BY <2>4, <3>1
      <4>3. QED
        BY <2>3, <3>1, <4>1, <4>2 DEF Used, OwnerOf
    <3>2. QED
      BY <3>1 DEF UsedStable
  <2>14. TypeInv'
    BY <2>3, <2>4, <2>6, Types DEF Inv, TypeInv, MemoryOK, ThreadOK, ListsOK, HistoryOK
  <2>15. ThreadInv(t)'
    <3>1. LocalOK(t)'
      BY <1>0, <1>1, <2>3, <2>6 DEF LocalOK
    <3>2. ModeOK(t)'
      BY <1>0, <2>3, <2>6 DEF ModeOK
    <3>3. WritesOK(t)'
      <4>1. EndsOpen(t)' /\ ~EndsCommit(t)' /\ pc'[t] \notin OpenLabels
        BY <2>6 DEF EndsOpen, EndsCommit, OpenLabels
      <4>2. txState[t] \in {"ACTIVE", "ABORTED"}
        BY <1>0, <1>1 DEF LocalOK
      <4>3. (\E w \in Elements(writes'[t]) : w.new[3] = 2) \/ ~Single(t)' => Killed(t)'
        <5>1. CASE txState[t] = "ACTIVE"
          BY <5>1, <2>10, <2>4, <2>n
        <5>2. CASE txState[t] = "ABORTED"
          BY <5>2, <2>3 DEF Killed
        <5>3. QED
          BY <5>1, <5>2, <4>2
      <4>4. txState[t] = "ACTIVE" => \A w \in Elements(writes'[t]) : w.acquired => header'[w.obj] = Owned(w.new)
        <5>1. ASSUME txState[t] = "ACTIVE", NEW w \in Elements(writes[t]), w.acquired
              PROVE  header'[w.obj] = Owned(w.new)
          <6>1. w.obj \in Objects /\ w.obj # o /\ header[w.obj] = Owned(w.new)
            BY <5>1, <2>10, <1>0, EntryFacts DEF WritesOK
          <6>2. QED
            BY <6>1, <2>6
        <5>2. header'[e.obj] = Owned(e.new)
          BY <2>n, <2>6
        <5>3. QED
          BY <5>1, <5>2, <2>4
      <4>5. \A w \in Elements(writes'[t]) : w.acquired
        BY <1>0, <1>1, <2>n, <2>4 DEF WritesOK
      <4>6. e \in Elements(writes'[t]) /\ e.obj = loc'[t].obj /\ e.old = loc'[t].newer
        BY <1>o, <2>n, <2>3, <2>4
      <4>7. QED
        BY <1>1, <2>3, <2>4, <4>1, <4>3, <4>4, <4>5, <4>6 DEF WritesOK
    <3>4. SnapOK(t)'
      BY <2>6 DEF SnapOK
    <3>5. ReadersOK(t)'
      BY <1>0, <2>3 DEF ReadersOK
    <3>6. QED
      BY <3>1, <3>2, <3>3, <3>4, <3>5 DEF ThreadInv
  <2>16. OwnerOK'
    <3>1. ASSUME NEW p \in Objects, header'[p].owned
          PROVE  \E u \in Threads : pc'[u] # "idle" /\ Owns(u, p, header[p].ver)'
      <4>1. CASE p = o
        <5>1. e \in Elements(writes'[t]) /\ e.obj = p /\ e.acquired /\ e.new = header'[p].ver
              /\ e.old = next'[p][header'[p].ver]
          BY <4>1, <2>n, <2>4, <2>5, <2>6
        <5>2. QED
          BY <5>1, <2>6 DEF Owns
      <4>2. CASE p # o
        <5>1. header'[p] = header[p] /\ next'[p] = next[p]
          BY <4>2, <2>6
        <5>2. PICK u \in Threads : pc[u] # "idle" /\ Owns(u, p, header[p].ver)
          BY <3>1, <5>1 DEF Inv, OwnerOK
        <5>3. pc'[u] # "idle" /\ \A w \in Elements(writes[u]) : w \in Elements(writes'[u])
          BY <5>2, <2>4, <2>6
        <5>4. QED
          BY <5>1, <5>2, <5>3 DEF Owns
      <4>3. QED
        BY <4>1, <4>2
    <3>2. QED
      BY <3>1 DEF OwnerOK
  <2>17. CommittedOK'
    BY <1>1, <2>3, <2>6 DEF Inv, CommittedOK
  <2>18. QED
    BY <2>11, <2>12, <2>13, <2>14, <2>15, <2>16, <2>17, StepInv
<1>4. QED
  BY <1>2, <1>3

-------------------------------------------------------------------------------
(* The statements that clean a header or kill a transaction.                 *)

\* A step that at most cleans headers of which the owner has ended.
LEMMA UnownStep ==
  ASSUME Inv, NEW t \in Threads, pc[t] # "idle",
         UNCHANGED <<readers, txState, mode, attempt, invisReads, visReads, seen, began, committed>>,
         NEW label \in Labels \ {"idle"}, pc[t] = "restore" => label = "restore",
         pc' = [pc EXCEPT ![t] = label],
         NEW l \in Locals, loc' = [loc EXCEPT ![t] = l],
         header' \in [Objects -> Header], next' \in [Objects -> [Versions -> AnyVersion]],
         \A p \in Objects :
           \/ header'[p] = header[p] /\ next'[p] = next[p]
           \/ /\ ~header'[p].owned
              /\ header[p].owned => txState[OwnerOf(header[p].ver)] # "ACTIVE",
         writes' \in [Threads -> Seq(Entry)],
         \A u \in Threads \ {t} : writes'[u] = writes[u],
         writes'[t] = writes[t] \/ pc[t] = "restore",
         LocalOK(t)', ModeOK(t)', WritesOK(t)', SnapOK(t)', OwnerOK'
  PROVE  Inv'
<1>b. pc \in [Threads -> Labels] /\ loc \in [Threads -> Locals]
  BY Types
<1>1. Others(t)
  BY <1>b DEF Others
<1>2. Headers(t)
  <2>1. \A v \in Versions : Owned(v).owned /\ Owned(v).ver = v
    BY DEF Owned
  <2>2. QED
    BY <2>1 DEF Headers
<1>3. UsedStable
  <2>1. ASSUME NEW o \in Objects, NEW v \in Versions, OwnerOf(v) \in Threads, Used(o, v)
        PROVE  Used(o, v)'
    <3>1. pc[OwnerOf(v)] \in {"restore", "idle"} => pc'[OwnerOf(v)] = pc[OwnerOf(v)]
      BY <1>b, <2>1
    <3>2. writes'[OwnerOf(v)] = writes[OwnerOf(v)] \/ pc[OwnerOf(v)] \in {"restore", "idle"}
      BY <2>1
    <3>3. QED
      BY <2>1, <3>1, <3>2 DEF Used, OwnerOf
  <2>2. QED
    BY <2>1 DEF UsedStable
<1>4. TypeInv'
  BY <1>b DEF Inv, TypeInv, MemoryOK, ThreadOK, ListsOK, HistoryOK
<1>5. ThreadInv(t)'
  BY DEF Inv, ThreadInv, ReadersOK
<1>6. CommittedOK'
  BY <1>b DEF Inv, CommittedOK
<1>7. QED
  BY <1>1, <1>2, <1>3, <1>4, <1>5, <1>6, StepInv

\* An assignment to an m_next.
IsUpdate(g, f, o, v, x) == g = [f EXCEPT ![o][v] = x]

\* What an assignment to an m_next changes, and what it leaves.
LEMMA NextUpdate ==
  ASSUME NEW f \in [Objects -> [Versions -> AnyVersion]], NEW o \in Objects, NEW v \in Versions,
         NEW x \in AnyVersion, NEW g, IsUpdate(g, f, o, v, x)
  PROVE  /\ g \in [Objects -> [Versions -> AnyVersion]]
         /\ g[o][v] = x
         /\ \A p \in Objects \ {o} : g[p] = f[p]
         /\ \A y \in Versions \ {v} : g[o][y] = f[o][y]
         /\ x = f[o][v] => g = f
<1>1. PICK h \in [Versions -> AnyVersion] : h = [f[o] EXCEPT ![v] = x]
  OBVIOUS
<1>2. g = [f EXCEPT ![o] = h]
  BY <1>1 DEF IsUpdate
<1>3. h[v] = x /\ \A y \in Versions \ {v} : h[y] = f[o][y]
  BY <1>1
<1>4. x = f[o][v] => h = f[o]
  BY <1>1
<1>5. QED
  BY <1>2, <1>3, <1>4

\* The CAS of cleanOnAbort or of cleanOnCommit (Descriptor_rstm.h:1007-1028). The
\* header is cleaned to the version that the state of its owner says.
LEMMA CleanStep ==
  ASSUME Inv, NEW t \in Threads, pc[t] \in {"cleanAbort", "cleanCommit"},
         NEW o \in Objects, NEW v \in Versions, o = loc[t].obj, v = loc[t].newer,
         header' = [header EXCEPT ![o] = IF Swaps(o, loc[t].snap) THEN Unowned(v) ELSE @],
         \/ next' = next
         \/ next' = [next EXCEPT ![o][v] = IF Swaps(o, loc[t].snap) THEN NullVersion ELSE @],
         GoTo(t, IF header'[o] = Unowned(v) THEN Use(t) ELSE "contend"),
         UNCHANGED <<readers, txState, self, loc, lists, history>>
  PROVE  Inv'
<1>0. LocalOK(t) /\ ModeOK(t) /\ WritesOK(t) /\ SnapOK(t) /\ ReadersOK(t)
  BY ThreadFacts
<1>l. PICK l \in Locals : l = loc[t]
  BY Types
<1>1. PICK label \in {"install", "insert", "clone", "contend"} :
        /\ pc' = [pc EXCEPT ![t] = label]
        /\ label = "clone" => mode[t].isLazy /\ l.kind = "RW"
        /\ label = "install" => mode[t].isVisible /\ l.kind = "RO"
        /\ label = "insert" => ~mode[t].isVisible /\ l.kind = "RO"
  <2>1. CleansFirst(t) /\ l.kind \in {"RO", "RW"}
    BY <1>0 DEF ModeOK, Locals
  <2>2. mode[t] \in [isVisible : BOOLEAN, isLazy : BOOLEAN]
    BY Types
  <2>3. PICK label \in {"install", "insert", "clone"} :
          /\ label = Use(t)
          /\ label = "clone" => mode[t].isLazy /\ l.kind = "RW"
          /\ label = "install" => mode[t].isVisible /\ l.kind = "RO"
          /\ label = "insert" => ~mode[t].isVisible /\ l.kind = "RO"
    BY <1>l, <2>1, <2>2 DEF Use, CleansFirst
  <2>4. CASE header'[o] = Unowned(v)
    BY <2>3, <2>4 DEF GoTo
  <2>5. CASE header'[o] # Unowned(v)
    BY <2>5 DEF GoTo
  <2>6. QED
    BY <2>4, <2>5
<1>2. /\ UNCHANGED <<readers, txState, mode, attempt, invisReads, visReads, seen, began, committed>>
      /\ writes' = writes /\ loc' = [loc EXCEPT ![t] = l] /\ loc' = loc
  BY <1>l, Types DEF self, lists, history
<1>b. pc'[t] = label /\ loc'[t] = l
  BY <1>1, <1>2, Types
<1>3. label \in Labels \ {"idle"}
  BY DEF Labels
<1>4. /\ header' \in [Objects -> Header] /\ next' \in [Objects -> [Versions -> AnyVersion]]
      /\ \A p \in Objects \ {o} : header'[p] = header[p] /\ next'[p] = next[p]
      /\ header[o] # loc[t].snap => header'[o] = header[o] /\ next'[o] = next[o]
      /\ header[o] = loc[t].snap => header'[o] = Unowned(v)
  <2>1. Unowned(v) \in Header /\ NullVersion \in AnyVersion
    BY DEF Unowned, Header, AnyVersion
  <2>3. CASE header[o] = loc[t].snap
    <3>1. header' = [header EXCEPT ![o] = Unowned(v)]
      BY <2>3 DEF Swaps
    <3>2. next' = next \/ IsUpdate(next', next, o, v, NullVersion)
      BY <2>3 DEF Swaps, IsUpdate
    <3>3. /\ next' \in [Objects -> [Versions -> AnyVersion]]
          /\ \A p \in Objects \ {o} : next'[p] = next[p]
      <4>1. next \in [Objects -> [Versions -> AnyVersion]]
        BY Types
      <4>2. CASE next' = next
        BY <4>1, <4>2
      <4>3. CASE IsUpdate(next', next, o, v, NullVersion)
        BY <2>1, <4>1, <4>3, NextUpdate
      <4>4. QED
        BY <3>2, <4>2, <4>3
    <3>4. /\ header' \in [Objects -> Header] /\ header'[o] = Unowned(v)
          /\ \A p \in Objects \ {o} : header'[p] = header[p]
      BY <2>1, <3>1, Types
    <3>5. QED
      BY <2>3, <3>3, <3>4
  <2>4. CASE header[o] # loc[t].snap
    <3>1. header' = [header EXCEPT ![o] = header[o]]
      BY <2>4 DEF Swaps
    <3>2. next' = next \/ IsUpdate(next', next, o, v, next[o][v])
      BY <2>4 DEF Swaps, IsUpdate
    <3>3. next' = next
      <4>1. next \in [Objects -> [Versions -> AnyVersion]] /\ next[o][v] \in AnyVersion
        BY Types
      <4>2. QED
        BY <3>2, <4>1, NextUpdate
    <3>4. QED
      BY <2>4, <3>1, <3>3, Types
  <2>5. QED
    BY <2>3, <2>4
<1>5. header[o] = loc[t].snap => header[o].owned /\ txState[OwnerOf(header[o].ver)] # "ACTIVE"
  BY <1>0 DEF LocalOK, SnapOK
<1>6. ~Unowned(v).owned
  BY DEF Unowned
<1>7. \A p \in Objects :
           \/ header'[p] = header[p] /\ next'[p] = next[p]
           \/ /\ ~header'[p].owned
              /\ header[p].owned => txState[OwnerOf(header[p].ver)] # "ACTIVE"
  BY <1>4, <1>5, <1>6
<1>8. LocalOK(t)'
  BY <1>0, <1>2, <1>b, <1>l DEF LocalOK
<1>9. ModeOK(t)'
  BY <1>0, <1>1, <1>2, <1>b DEF ModeOK
<1>10. WritesOK(t)'
  <2>1. ~EndsOpen(t) /\ ~EndsOpen(t)' /\ ~EndsCommit(t)' /\ pc[t] \in OpenLabels
    BY <1>b DEF EndsOpen, EndsCommit, OpenLabels
  <2>2. (Single(t)' <=> Single(t)) /\ (Killed(t)' <=> Killed(t))
    BY <1>2 DEF Single, Killed
  <2>3. ASSUME txState[t] = "ACTIVE", NEW w \in Elements(writes[t]), w.acquired
        PROVE  header'[w.obj] = Owned(w.new)
    <3>1. header[w.obj] = Owned(w.new) /\ w.obj \in Objects /\ OwnerOf(w.new) = t
      BY <1>0, <2>3, EntryFacts DEF WritesOK
    <3>2. Owned(w.new).ver = w.new
      BY DEF Owned
    <3>3. QED
      BY <3>1, <3>2, <2>3, <1>4, <1>5
  <2>4. QED
    BY <1>0, <1>2, <1>b, <1>l, <2>1, <2>2, <2>3 DEF WritesOK
<1>11. SnapOK(t)'
  BY <1>b DEF SnapOK
<1>12. OwnerOK'
  <2>1. ASSUME NEW p \in Objects, header'[p].owned
        PROVE  \E u \in Threads : pc'[u] # "idle" /\ Owns(u, p, header[p].ver)'
    <3>1. header'[p] = header[p] /\ next'[p] = next[p]
      BY <1>7, <2>1
    <3>2. PICK u \in Threads : pc[u] # "idle" /\ Owns(u, p, header[p].ver)
      BY <2>1, <3>1 DEF Inv, OwnerOK
    <3>3. pc'[u] # "idle"
      BY <1>1, <3>2, Types
    <3>4. QED
      BY <1>2, <3>1, <3>2, <3>3 DEF Owns
  <2>2. QED
    BY <2>1 DEF OwnerOK
<1>13. QED
  BY <1>1, <1>2, <1>3, <1>4, <1>7, <1>8, <1>9, <1>10, <1>11, <1>12, Types, UnownStep

\* Both of them.
LEMMA CleanSteps ==
  ASSUME Inv, NEW t \in Threads, CleanAbort(t) \/ CleanCommit(t)
  PROVE  Inv'
<1>1. pc[t] \in {"cleanAbort", "cleanCommit"}
  BY DEF CleanAbort, CleanCommit
<1>2. LocalOK(t)
  BY ThreadFacts
<1>o. PICK o \in Objects, v \in Versions : o = loc[t].obj /\ v = loc[t].newer
  BY <1>1, <1>2, Types DEF LocalOK, Locals
<1>3. CASE CleanAbort(t)
  <2>1. /\ header' = [header EXCEPT ![o] = IF Swaps(o, loc[t].snap) THEN Unowned(v) ELSE @]
        /\ next' = next
        /\ GoTo(t, IF header'[o] = Unowned(v) THEN Use(t) ELSE "contend")
        /\ UNCHANGED <<readers, txState, self, loc, lists, history>>
    BY <1>3, <1>o DEF CleanAbort
  <2>2. QED
    BY <1>1, <1>o, <2>1, CleanStep
<1>4. CASE CleanCommit(t)
  <2>1. /\ header' = [header EXCEPT ![o] = IF Swaps(o, loc[t].snap) THEN Unowned(v) ELSE @]
        /\ next' = [next EXCEPT ![o][v] = IF Swaps(o, loc[t].snap) THEN NullVersion ELSE @]
        /\ GoTo(t, IF header'[o] = Unowned(v) THEN Use(t) ELSE "contend")
        /\ UNCHANGED <<readers, txState, self, loc, lists, history>>
    BY <1>4, <1>o DEF CleanCommit
  <2>2. QED
    BY <1>1, <1>o, <2>1, CleanStep
<1>5. QED
  BY <1>3, <1>4

\* A step that kills a transaction, if it is active.
LEMMA KillStep ==
  ASSUME Inv, NEW t \in Threads, pc[t] \notin {"idle", "restore"},
         NEW r \in Threads, txState' = [txState EXCEPT ![r] = IF @ = "ACTIVE" THEN "ABORTED" ELSE @],
         UNCHANGED <<header, next, readers, self, lists, history>>,
         NEW label \in Labels \ {"idle", "restore"}, pc' = [pc EXCEPT ![t] = label],
         NEW l \in Locals, loc' = [loc EXCEPT ![t] = l],
         LocalOK(t)', ModeOK(t)', WritesOK(t)', SnapOK(t)'
  PROVE  Inv'
<1>a. /\ header' = header /\ next' = next /\ readers' = readers
      /\ mode' = mode /\ attempt' = attempt
      /\ invisReads' = invisReads /\ visReads' = visReads /\ writes' = writes
      /\ seen' = seen /\ began' = began /\ committed' = committed
  BY DEF self, lists, history
<1>b. pc \in [Threads -> Labels] /\ loc \in [Threads -> Locals]
  BY Types
<1>c. /\ txState' \in [Threads -> States]
      /\ \A u \in Threads : txState'[u] = txState[u] \/ (txState[u] = "ACTIVE" /\ txState'[u] = "ABORTED")
  BY Types DEF States
<1>1. Others(t)
  BY <1>a, <1>b, <1>c DEF Others
<1>2. Headers(t)
  BY <1>a, <1>c DEF Headers
<1>3. UsedStable
  <2>1. ASSUME NEW o \in Objects, NEW v \in Versions, OwnerOf(v) \in Threads, Used(o, v)
        PROVE  Used(o, v)'
    <3>1. pc[OwnerOf(v)] \in {"restore", "idle"} => pc'[OwnerOf(v)] = pc[OwnerOf(v)]
      BY <1>b, <2>1
    <3>2. QED
      BY <1>a, <2>1, <3>1 DEF Used, OwnerOf
  <2>2. QED
    BY <2>1 DEF UsedStable
<1>4. TypeInv'
  BY <1>a, <1>b, <1>c DEF Inv, TypeInv, MemoryOK, ThreadOK, ListsOK, HistoryOK
<1>5. ThreadInv(t)'
  BY <1>a DEF Inv, ThreadInv, ReadersOK
<1>6. OwnerOK'
  <2>1. ASSUME NEW o \in Objects, header[o].owned
        PROVE  \E u \in Threads : pc'[u] # "idle" /\ Owns(u, o, header[o].ver)'
    <3>1. PICK u \in Threads : pc[u] # "idle" /\ Owns(u, o, header[o].ver)
      BY <2>1 DEF Inv, OwnerOK
    <3>2. QED
      BY <1>a, <1>b, <3>1 DEF Owns
  <2>2. QED
    BY <1>a, <2>1 DEF OwnerOK
<1>7. CommittedOK'
  BY <1>a, <1>b DEF Inv, CommittedOK
<1>8. QED
  BY <1>1, <1>2, <1>3, <1>4, <1>5, <1>6, <1>7, StepInv

\* WritesOK after a step that may kill.
LEMMA KillWrites ==
  ASSUME Inv, NEW t \in Threads, pc[t] # "restore",
         UNCHANGED <<header, mode, attempt, writes>>,
         txState'[t] = txState[t] \/ (txState[t] = "ACTIVE" /\ txState'[t] = "ABORTED"),
         EndsOpen(t) => EndsOpen(t)' \/ mode[t].isLazy,
         mode[t].isLazy /\ pc'[t] \in OpenLabels => \A w \in Elements(writes[t]) : w.obj # loc'[t].obj,
         ~mode[t].isLazy /\ loc'[t].kind = "RW" /\ EndsOpen(t)' =>
           \E w \in Elements(writes[t]) : w.obj = loc'[t].obj /\ w.old = loc'[t].newer,
         EndsCommit(t)' => \A w \in Elements(writes[t]) : w.acquired
  PROVE  WritesOK(t)'
<1>1. Single(t)' <=> Single(t)
  BY DEF Single
<1>2. Killed(t) => Killed(t)'
  BY DEF Killed
<1>3. WritesOK(t)
  BY ThreadFacts
<1>4. QED
  BY <1>1, <1>2, <1>3 DEF WritesOK

\* The owner is killed by a CAS (Descriptor_rstm.h:1331-1354).
LEMMA KillOwnerStep ==
  ASSUME Inv, NEW t \in Threads, KillOwner(t)
  PROVE  Inv'
<1>0. LocalOK(t) /\ ModeOK(t) /\ WritesOK(t) /\ SnapOK(t) /\ ReadersOK(t)
  BY ThreadFacts
<1>1. pc[t] = "decide"
  BY DEF KillOwner
<1>p. loc[t] \in Locals /\ mode[t] \in [isVisible : BOOLEAN, isLazy : BOOLEAN]
  BY Types
<1>o. PICK o \in Objects, v \in Versions, r \in Threads, older \in Versions :
        /\ o = loc[t].obj /\ v = loc[t].snap.ver /\ loc[t].newer = v /\ loc[t].snap.owned
        /\ r = OwnerOf(v) /\ older = loc[t].older /\ loc[t].kind \in {"RO", "RW"}
  BY <1>0, <1>1, <1>p DEF Locals, LocalOK, Header
<1>2. CASE ~Kills(t)
  <2>1. PICK l \in Locals : l = loc[t]
    BY <1>p
  <2>2. /\ pc' = [pc EXCEPT ![t] = "contend"] /\ loc' = [loc EXCEPT ![t] = l]
        /\ UNCHANGED <<memory, self, lists, history>> /\ pc[t] \in OpenLabels
    BY <1>1, <1>2, <2>1, Types DEF KillOwner, GoTo, memory, OpenLabels
  <2>3. QED
    BY <2>1, <2>2, BackStep
<1>3. CASE Kills(t)
  <2>1. PICK l \in Locals : l = [loc[t] EXCEPT !.newer = older]
    BY <1>p DEF Locals, AnyVersion
  <2>2. l.obj = o /\ l.newer = older /\ l.kind = loc[t].kind /\ l.snap = loc[t].snap
    BY <1>p, <1>o, <2>1 DEF Locals
  <2>3. PICK label \in {"cleanAbort", "acquire"} :
          /\ pc' = [pc EXCEPT ![t] = label] /\ loc' = [loc EXCEPT ![t] = l]
          /\ label = "cleanAbort" => CleansFirst(t)
          /\ label = "acquire" => ~mode[t].isLazy /\ loc[t].kind = "RW"
    <3>1. /\ loc' = [loc EXCEPT ![t] = l]
          /\ pc' = [pc EXCEPT ![t] = IF CleansFirst(t) THEN "cleanAbort" ELSE "acquire"]
      BY <1>3, <1>o, <2>1 DEF KillOwner, ChooseOlder, GoTo
    <3>2. CASE CleansFirst(t)
      BY <3>1, <3>2
    <3>3. CASE ~CleansFirst(t)
      BY <3>1, <3>3, <1>o DEF CleansFirst
    <3>4. QED
      BY <3>2, <3>3
  <2>4. /\ txState' = [txState EXCEPT ![r] = IF @ = "ACTIVE" THEN "ABORTED" ELSE @]
        /\ UNCHANGED <<header, next, readers, self, lists, history>>
        /\ txState[r] = "ACTIVE"
    BY <1>3, <1>o DEF KillOwner, Kills
  <2>5. /\ txState'[r] = "ABORTED"
        /\ txState'[t] = txState[t] \/ (txState[t] = "ACTIVE" /\ txState'[t] = "ABORTED")
    BY <2>4, Types
  <2>a. /\ header' = header /\ next' = next /\ readers' = readers
        /\ mode' = mode /\ attempt' = attempt /\ visReads' = visReads /\ writes' = writes
    BY <2>4 DEF self, lists
  <2>b. pc'[t] = label /\ loc'[t] = l
    BY <2>3, Types
  <2>6. label \in Labels \ {"idle", "restore"}
    BY DEF Labels
  <2>7. LocalOK(t)'
    BY <1>0, <1>1, <1>o, <2>2, <2>5, <2>a, <2>b DEF LocalOK
  <2>8. ModeOK(t)'
    BY <1>0, <2>2, <2>3, <2>a, <2>b DEF ModeOK, CleansFirst
  <2>9. WritesOK(t)'
    <3>1. ~EndsOpen(t) /\ ~EndsOpen(t)' /\ ~EndsCommit(t)' /\ pc[t] \in OpenLabels
      BY <1>1, <2>b DEF EndsOpen, EndsCommit, OpenLabels
    <3>2. mode[t].isLazy => \A w \in Elements(writes[t]) : w.obj # o
      BY <3>1, <1>0, <1>o DEF WritesOK
    <3>3. QED
      BY <3>1, <3>2, <1>1, <2>2, <2>5, <2>a, <2>b, KillWrites
  <2>10. SnapOK(t)'
    <3>1. Used(o, v)
      BY <1>0, <1>1, <1>o DEF SnapOK
    <3>2. Used(o, v)'
      <4>1. pc[r] \in {"restore", "idle"} => pc'[r] = pc[r]
        BY <1>1, <2>3, Types
      <4>2. QED
        BY <3>1, <4>1, <1>o, <2>a DEF Used, OwnerOf
    <3>3. header[o] = loc[t].snap => older = next[o][v]
      BY <1>0, <1>1, <1>o DEF SnapOK
    <3>4. QED
      BY <1>o, <2>2, <2>5, <2>a, <2>b, <3>2, <3>3 DEF SnapOK
  <2>11. QED
    BY <1>1, <2>3, <2>4, <2>6, <2>7, <2>8, <2>9, <2>10, KillStep
<1>4. QED
  BY <1>2, <1>3

\* A visible reader is killed by a CAS (Descriptor_rstm.h:1074-1090).
LEMMA KillReaderStep ==
  ASSUME Inv, NEW t \in Threads, KillReader(t)
  PROVE  Inv'
<1>0. LocalOK(t) /\ ModeOK(t) /\ WritesOK(t) /\ SnapOK(t) /\ ReadersOK(t)
  BY ThreadFacts
<1>1. pc[t] = "killReaders" /\ loc[t] \in Locals /\ EndsOpen(t)
  BY Types DEF KillReader, EndsOpen
<1>r. PICK r \in Threads, victims \in SUBSET Threads :
        /\ txState' = [txState EXCEPT ![r] = IF @ = "ACTIVE" THEN "ABORTED" ELSE @]
        /\ KillingReaders(t, victims)
        /\ UNCHANGED <<header, next, readers, self, lists, history>>
  <2>1. loc[t].pending \in SUBSET Threads
    BY <1>1 DEF Locals
  <2>2. QED
    BY <2>1 DEF KillReader
<1>a. /\ header' = header /\ next' = next /\ readers' = readers
      /\ mode' = mode /\ attempt' = attempt /\ visReads' = visReads /\ writes' = writes
  BY <1>r DEF self, lists
<1>2. txState'[t] = txState[t] \/ (txState[t] = "ACTIVE" /\ txState'[t] = "ABORTED")
  BY <1>r, Types
<1>3. PICK l \in Locals, label \in {"killReaders", "acquireLazily", "opened", "validate"} :
        /\ pc' = [pc EXCEPT ![t] = label] /\ loc' = [loc EXCEPT ![t] = l]
        /\ pc'[t] = label /\ loc'[t] = l
        /\ label = "acquireLazily" => mode[t].isLazy /\ ~l.snap.owned
        /\ label \in {"opened", "validate"} => ~mode[t].isLazy
        /\ label # "acquireLazily" =>
             /\ l.obj = loc[t].obj /\ l.kind = loc[t].kind /\ l.snap = loc[t].snap
             /\ l.newer = loc[t].newer
        /\ label = "validate" => l.then = "opened" /\ l.todo # <<>>
  <2>1. CASE ~mode[t].isLazy /\ Validating(t, invisReads[t], "opened")
    <3>1. pc \in [Threads -> Labels] /\ loc \in [Threads -> Locals]
      BY Types
    <3>2. PICK todo \in Seq(Pair) : todo = invisReads[t]
      BY Types
    <3>3. PICK l \in Locals, label \in {"opened", "validate"} :
           /\ pc' = [pc EXCEPT ![t] = label] /\ loc' = [loc EXCEPT ![t] = l]
           /\ pc'[t] = label /\ loc'[t] = l
           /\ l.obj = loc[t].obj /\ l.kind = loc[t].kind /\ l.snap = loc[t].snap
           /\ l.newer = loc[t].newer
           /\ label = "validate" => l.then = "opened" /\ l.todo # <<>>
           /\ l.todo = todo
      BY <2>1, <3>1, <3>2, ValidatingFacts
    <3>4. QED
      BY <2>1, <3>3
  <2>2. CASE ~(~mode[t].isLazy /\ Validating(t, invisReads[t], "opened"))
    <3>1. PICK l \in Locals, label \in {"killReaders", "acquireLazily"} :
              /\ pc' = [pc EXCEPT ![t] = label] /\ loc' = [loc EXCEPT ![t] = l]
              /\ pc'[t] = label /\ loc'[t] = l
              /\ label = "acquireLazily" => mode[t].isLazy /\ victims = {} /\ ~l.snap.owned
              /\ label = "killReaders" =>
                   /\ l.obj = loc[t].obj /\ l.kind = loc[t].kind /\ l.snap = loc[t].snap
                   /\ l.newer = loc[t].newer /\ l.pending = victims
      BY <1>r, <2>2, KillingFacts
    <3>2. QED
      BY <3>1
  <2>3. QED
    BY <2>1, <2>2
<1>4. label \in Labels \ {"idle", "restore"}
  BY DEF Labels
<1>5. LocalOK(t)'
  BY <1>0, <1>1, <1>2, <1>3, <1>a DEF LocalOK
<1>6. ModeOK(t)'
  BY <1>0, <1>3, <1>a DEF ModeOK
<1>7. WritesOK(t)'
  <2>1. EndsOpen(t)' <=> label # "acquireLazily"
    BY <1>3 DEF EndsOpen
  <2>2. ~EndsCommit(t)' /\ pc'[t] \notin OpenLabels
    BY <1>3 DEF EndsCommit, OpenLabels
  <2>3. ~mode[t].isLazy /\ loc[t].kind = "RW" =>
           \E w \in Elements(writes[t]) : w.obj = loc[t].obj /\ w.old = loc[t].newer
    BY <1>0, <1>1 DEF WritesOK
  <2>4. QED
    BY <1>1, <1>2, <1>3, <1>a, <2>1, <2>2, <2>3, KillWrites
<1>8. SnapOK(t)'
  BY <1>3 DEF SnapOK
<1>9. QED
  BY <1>1, <1>3, <1>4, <1>r, <1>5, <1>6, <1>7, <1>8, KillStep

-------------------------------------------------------------------------------
(* Begin, commit and end.                                                    *)

\* beginTransaction (Descriptor_rstm.h:628-642). No version of the new attempt is
\* anywhere yet.
LEMMA BeginStep ==
  ASSUME Inv, NEW t \in Threads, Begin(t)
  PROVE  Inv'
<1>0. LocalOK(t) /\ ModeOK(t) /\ WritesOK(t) /\ SnapOK(t) /\ ReadersOK(t)
  BY ThreadFacts
<1>a. /\ pc[t] = "idle" /\ attempt[t] < MaxAttempts
      /\ header' = header /\ next' = next /\ readers' = readers /\ loc' = loc
      /\ mode' = mode /\ attempt' = [attempt EXCEPT ![t] = @ + 1]
      /\ invisReads' = invisReads /\ visReads' = visReads /\ writes' = writes
      /\ seen' = seen /\ began' = [began EXCEPT ![t] = {c.tx : c \in committed}]
      /\ committed' = committed
      /\ txState' = [txState EXCEPT ![t] = "ACTIVE"]
      /\ pc' = [pc EXCEPT ![t] = "work"]
  BY DEF Begin, GoTo, lists
<1>b. attempt[t] \in Nat /\ attempt'[t] = attempt[t] + 1 /\ txState'[t] = "ACTIVE" /\ pc'[t] = "work"
      /\ \A u \in Threads \ {t} : attempt'[u] = attempt[u] /\ txState'[u] = txState[u] /\ pc'[u] = pc[u]
      /\ attempt'[t] \in 0 .. MaxAttempts /\ attempt'[t] >= 1
  BY <1>a, Types, BoundAssumption
<1>c. writes[t] = <<>> /\ visReads[t] = {} /\ writes'[t] = <<>> /\ visReads'[t] = {}
  BY <1>0, <1>a DEF LocalOK
<1>d. Elements(writes[t]) = {} /\ Elements(writes'[t]) = {}
  BY <1>c DEF Elements
<1>1. Others(t)
  BY <1>a, <1>b DEF Others
<1>2. Headers(t)
  <2>1. ASSUME NEW o \in Objects, NEW v \in Versions, header[o] = Owned(v) PROVE OwnerOf(v) # t
    <3>1. header[o].owned /\ header[o].ver = v
      BY <2>1 DEF Owned
    <3>2. QED
      BY <3>1, <1>a, OwnedFacts
  <2>2. QED
    BY <1>a, <1>b, <2>1 DEF Headers
<1>3. UsedStable
  <2>1. ASSUME NEW o \in Objects, NEW v \in Versions, OwnerOf(v) \in Threads, Used(o, v)
        PROVE  Used(o, v)'
    <3>1. CASE OwnerOf(v) = t
      <4>1. v[2] \in Nat
        BY <2>1, VersionFacts, BoundAssumption
      <4>2. v[2] <= attempt[t]
        BY <1>b, <2>1, <3>1, <4>1 DEF Used
      <4>3. v[2] < attempt'[t]
        BY <1>b, <4>1, <4>2
      <4>4. QED
        BY <3>1, <4>3 DEF Used, OwnerOf
    <3>2. CASE OwnerOf(v) # t
      BY <1>a, <1>b, <2>1, <3>2 DEF Used, OwnerOf
    <3>3. QED
      BY <3>1, <3>2
  <2>2. QED
    BY <2>1 DEF UsedStable
<1>4. TypeInv'
  <2>1. {c.tx : c \in committed} \in SUBSET Versions
    BY DEF Inv, TypeInv, HistoryOK
  <2>2. began' \in [Threads -> SUBSET Versions]
    BY <1>a, <2>1 DEF Inv, TypeInv, HistoryOK
  <2>3. txState' \in [Threads -> States]
    BY <1>a, Types DEF States
  <2>4. pc' \in [Threads -> Labels] /\ attempt' \in [Threads -> 0 .. MaxAttempts]
    <3>1. "work" \in Labels
      BY DEF Labels
    <3>2. attempt[t] + 1 \in 0 .. MaxAttempts
      BY <1>a, <1>b, BoundAssumption
    <3>3. QED
      BY <1>a, <3>1, <3>2, Types
  <2>5. QED
    BY <1>a, <2>2, <2>3, <2>4, Types DEF Inv, TypeInv, MemoryOK, ThreadOK, ListsOK, HistoryOK
<1>5. ThreadInv(t)'
  <2>1. LocalOK(t)'
    BY <1>0, <1>a, <1>b DEF LocalOK
  <2>2. ModeOK(t)'
    BY <1>0, <1>a, <1>b DEF ModeOK
  <2>3. WritesOK(t)'
    <3>1. ~EndsOpen(t)' /\ ~EndsCommit(t)' /\ pc'[t] \notin OpenLabels
      BY <1>b DEF EndsOpen, EndsCommit, OpenLabels
    <3>2. Single(t)' /\ DOMAIN writes'[t] = {}
      BY <1>c DEF Single
    <3>3. QED
      BY <1>d, <3>1, <3>2 DEF WritesOK
  <2>4. SnapOK(t)'
    BY <1>b DEF SnapOK
  <2>5. ReadersOK(t)'
    BY <1>0, <1>a DEF ReadersOK
  <2>6. QED
    BY <2>1, <2>2, <2>3, <2>4, <2>5 DEF ThreadInv
<1>6. OwnerOK'
  <2>1. ASSUME NEW o \in Objects, header[o].owned
        PROVE  \E u \in Threads : pc'[u] # "idle" /\ Owns(u, o, header[o].ver)'
    <3>1. PICK u \in Threads : pc[u] # "idle" /\ Owns(u, o, header[o].ver)
      BY <2>1 DEF Inv, OwnerOK
    <3>2. QED
      BY <1>a, <1>b, <3>1 DEF Owns
  <2>2. QED
    BY <1>a, <2>1 DEF OwnerOK
<1>7. CommittedOK'
  <2>1. ASSUME NEW c \in committed
        PROVE  \E u \in Threads :
                 /\ c.tx = <<u, c.tx[2], 1>> /\ c.tx[2] \in Nat /\ c.tx[2] <= attempt'[u]
                 /\ c.tx[2] = attempt'[u] => pc'[u] \in {"restore", "idle"}
    <3>1. PICK u \in Threads :
                 /\ c.tx = <<u, c.tx[2], 1>> /\ c.tx[2] \in Nat /\ c.tx[2] <= attempt[u]
                 /\ c.tx[2] = attempt[u] => pc[u] \in {"restore", "idle"}
      BY DEF Inv, CommittedOK
    <3>2. CASE u = t
      BY <1>b, <3>1, <3>2
    <3>3. CASE u # t
      BY <1>b, <3>1, <3>3
    <3>4. QED
      BY <3>2, <3>3
  <2>2. QED
    BY <1>a, <2>1 DEF CommittedOK
<1>8. QED
  BY <1>1, <1>2, <1>3, <1>4, <1>5, <1>6, <1>7, StepInv

\* The end of cleanup (Descriptor_rstm.h:743-781). No header shows a version of
\* the attempt, so that OwnerOK does not need the thread any more.
LEMMA EndStep ==
  ASSUME Inv, NEW t \in Threads, EndTransaction(t)
  PROVE  Inv'
<1>0. LocalOK(t) /\ ModeOK(t) /\ WritesOK(t) /\ SnapOK(t) /\ ReadersOK(t)
  BY ThreadFacts
<1>a. /\ pc[t] = "restore" /\ writes[t] = <<>> /\ visReads[t] = {}
      /\ header' = header /\ next' = next /\ readers' = readers /\ txState' = txState /\ loc' = loc
      /\ mode' = mode /\ attempt' = attempt
      /\ invisReads' = [invisReads EXCEPT ![t] = <<>>] /\ visReads' = visReads /\ writes' = writes
      /\ seen' = [seen EXCEPT ![t] = {}] /\ began' = [began EXCEPT ![t] = {}]
      /\ committed' = committed
      /\ pc' = [pc EXCEPT ![t] = "idle"]
  BY DEF EndTransaction, GoTo, memory, self
<1>b. pc'[t] = "idle" /\ \A u \in Threads \ {t} : pc'[u] = pc[u]
  BY <1>a, Types
<1>d. Elements(writes[t]) = {}
  BY <1>a DEF Elements
<1>1. Others(t)
  BY <1>a, <1>b, Types DEF Others
<1>2. Headers(t)
  BY <1>a DEF Headers
<1>3. UsedStable
  <2>1. ASSUME NEW o \in Objects, NEW v \in Versions, OwnerOf(v) \in Threads, Used(o, v)
        PROVE  Used(o, v)'
    <3>1. pc[OwnerOf(v)] \in {"restore", "idle"} => pc'[OwnerOf(v)] \in {"restore", "idle"}
      BY <1>b, <2>1
    <3>2. QED
      BY <1>a, <2>1, <3>1 DEF Used, OwnerOf
  <2>2. QED
    BY <2>1 DEF UsedStable
<1>4. TypeInv'
  <2>1. invisReads' \in [Threads -> Seq(Pair)] /\ seen' \in [Threads -> SUBSET Pair]
    BY <1>a, Types
  <2>2. began' \in [Threads -> SUBSET Versions]
    BY <1>a DEF Inv, TypeInv, HistoryOK
  <2>3. pc' \in [Threads -> Labels]
    BY <1>a, Types DEF Labels
  <2>4. QED
    BY <1>a, <2>1, <2>2, <2>3 DEF Inv, TypeInv, MemoryOK, ThreadOK, ListsOK, HistoryOK
<1>5. ThreadInv(t)'
  <2>1. LocalOK(t)'
    BY <1>0, <1>a, <1>b DEF LocalOK
  <2>2. ModeOK(t)'
    BY <1>0, <1>a, <1>b DEF ModeOK
  <2>3. WritesOK(t)'
    <3>1. ~EndsOpen(t)' /\ ~EndsCommit(t)' /\ pc'[t] \notin OpenLabels
      BY <1>b DEF EndsOpen, EndsCommit, OpenLabels
    <3>2. Single(t)' /\ DOMAIN writes'[t] = {}
      BY <1>a DEF Single
    <3>3. QED
      BY <1>a, <1>d, <3>1, <3>2 DEF WritesOK
  <2>4. SnapOK(t)'
    BY <1>b DEF SnapOK
  <2>5. ReadersOK(t)'
    BY <1>0, <1>a DEF ReadersOK
  <2>6. QED
    BY <2>1, <2>2, <2>3, <2>4, <2>5 DEF ThreadInv
<1>6. OwnerOK'
  <2>1. ASSUME NEW o \in Objects, header[o].owned
        PROVE  \E u \in Threads : pc'[u] # "idle" /\ Owns(u, o, header[o].ver)'
    <3>1. PICK u \in Threads : pc[u] # "idle" /\ Owns(u, o, header[o].ver)
      BY <2>1 DEF Inv, OwnerOK
    <3>2. u # t
      BY <1>d, <3>1 DEF Owns
    <3>3. QED
      BY <1>a, <1>b, <3>1, <3>2 DEF Owns
  <2>2. QED
    BY <1>a, <2>1 DEF OwnerOK
<1>7. CommittedOK'
  BY <1>a, <1>b DEF Inv, CommittedOK
<1>8. QED
  BY <1>1, <1>2, <1>3, <1>4, <1>5, <1>6, <1>7, StepInv

\* The commit point (Descriptor_rstm.h:803-807).
LEMMA CommitCasStep ==
  ASSUME Inv, NEW t \in Threads, CommitCas(t)
  PROVE  Inv'
<1>0. LocalOK(t) /\ ModeOK(t) /\ WritesOK(t) /\ SnapOK(t) /\ ReadersOK(t)
  BY ThreadFacts
<1>a. /\ pc[t] = "cas"
      /\ header' = header /\ next' = next /\ readers' = readers /\ loc' = [loc EXCEPT ![t] = NoLocals]
      /\ mode' = mode /\ attempt' = attempt
      /\ invisReads' = invisReads /\ visReads' = visReads /\ writes' = writes
      /\ seen' = [seen EXCEPT ![t] = {}] /\ began' = began
      /\ pc' = [pc EXCEPT ![t] = "restore"]
  BY DEF CommitCas, GoTo, self, lists
<1>s. txState[t] \in {"ACTIVE", "ABORTED"} /\ attempt[t] >= 1 /\ attempt[t] \in 1 .. MaxAttempts
  BY <1>0, <1>a, Types, BoundAssumption DEF LocalOK
<1>t. /\ txState' \in [Threads -> States]
      /\ \A u \in Threads \ {t} : txState'[u] = txState[u]
      /\ txState[t] = "ACTIVE" => txState'[t] = "COMMITTED"
      /\ txState[t] # "ACTIVE" => txState'[t] = txState[t]
      /\ \A c \in committed' : c \in committed \/ c.tx = Tx(t)
  <2>1. CASE Commits(t)
    <3>1. PICK c : /\ c = [tx |-> Tx(t), reads |-> seen[t], after |-> began[t],
                            writes |-> {<<w.obj, w.old>> : w \in Elements(writes[t])}]
                   /\ committed' = committed \cup {c}
      BY <2>1 DEF CommitCas
    <3>2. c.tx = Tx(t)
      BY <3>1
    <3>3. txState' = [txState EXCEPT ![t] = "COMMITTED"]
      BY <2>1 DEF CommitCas
    <3>4. QED
      BY <2>1, <3>1, <3>2, <3>3, Types DEF Commits, States
  <2>2. CASE ~Commits(t)
    BY <2>2, Types DEF CommitCas, Commits
  <2>3. QED
    BY <2>1, <2>2
<1>b. pc'[t] = "restore" /\ loc'[t] = NoLocals /\ \A u \in Threads \ {t} : pc'[u] = pc[u]
  BY <1>a, Types
<1>1. Others(t)
  BY <1>a, <1>b, <1>t, Types DEF Others
<1>2. Headers(t)
  BY <1>a, <1>t DEF Headers
<1>3. UsedStable
  <2>1. ASSUME NEW o \in Objects, NEW v \in Versions, OwnerOf(v) \in Threads, Used(o, v)
        PROVE  Used(o, v)'
    <3>1. pc[OwnerOf(v)] \in {"restore", "idle"} => pc'[OwnerOf(v)] \in {"restore", "idle"}
      BY <1>b, <2>1
    <3>2. QED
      BY <1>a, <2>1, <3>1 DEF Used, OwnerOf
  <2>2. QED
    BY <2>1 DEF UsedStable
<1>4. TypeInv'
  <2>1. seen' \in [Threads -> SUBSET Pair] /\ loc' \in [Threads -> Locals]
    BY <1>a, Types, NoLocalsType
  <2>2. \A c \in committed' : c.tx \in Versions
    <3>1. Tx(t) \in Versions
      <4>1. 1 \in 1 .. 2
        OBVIOUS
      <4>2. QED
        BY <4>1, <1>s, VersionFacts DEF Tx
    <3>2. QED
      BY <3>1, <1>t DEF Inv, TypeInv, HistoryOK
  <2>3. pc' \in [Threads -> Labels]
    BY <1>a, Types DEF Labels
  <2>4. QED
    BY <1>a, <1>t, <2>1, <2>2, <2>3 DEF Inv, TypeInv, MemoryOK, ThreadOK, ListsOK, HistoryOK
<1>5. ThreadInv(t)'
  <2>1. LocalOK(t)'
    BY <1>a, <1>b, <1>s, <1>t, NoLocalsType DEF LocalOK, Unowned
  <2>2. ModeOK(t)'
    BY <1>0, <1>a, <1>b DEF ModeOK
  <2>3. WritesOK(t)'
    <3>1. ~EndsOpen(t)' /\ ~EndsCommit(t)' /\ pc'[t] \notin OpenLabels /\ ~EndsOpen(t)
      BY <1>a, <1>b DEF EndsOpen, EndsCommit, OpenLabels
    <3>2. Single(t)' <=> Single(t)
      BY <1>a DEF Single
    <3>4. txState'[t] # "ACTIVE"
      BY <1>s, <1>t
    <3>5. QED
      BY <1>0, <1>a, <3>1, <3>2, <3>4 DEF WritesOK
  <2>4. SnapOK(t)'
    BY <1>b DEF SnapOK
  <2>5. ReadersOK(t)'
    BY <1>0, <1>a DEF ReadersOK
  <2>6. QED
    BY <2>1, <2>2, <2>3, <2>4, <2>5 DEF ThreadInv
<1>6. OwnerOK'
  <2>1. ASSUME NEW o \in Objects, header[o].owned
        PROVE  \E u \in Threads : pc'[u] # "idle" /\ Owns(u, o, header[o].ver)'
    <3>1. PICK u \in Threads : pc[u] # "idle" /\ Owns(u, o, header[o].ver)
      BY <2>1 DEF Inv, OwnerOK
    <3>3. QED
      BY <1>a, <1>b, <3>1 DEF Owns
  <2>2. QED
    BY <1>a, <2>1 DEF OwnerOK
<1>7. CommittedOK'
  <2>1. ASSUME NEW c \in committed'
        PROVE  \E u \in Threads :
                 /\ c.tx = <<u, c.tx[2], 1>> /\ c.tx[2] \in Nat /\ c.tx[2] <= attempt[u]
                 /\ c.tx[2] = attempt[u] => pc'[u] \in {"restore", "idle"}
    <3>1. CASE c \in committed
      BY <1>b, <3>1 DEF Inv, CommittedOK
    <3>2. CASE c.tx = Tx(t)
      BY <1>b, <1>s, <3>2 DEF Tx
    <3>3. QED
      BY <2>1, <1>t, <3>1, <3>2
  <2>2. QED
    BY <1>a, <2>1 DEF CommittedOK
<1>8. QED
  BY <1>1, <1>2, <1>3, <1>4, <1>5, <1>6, <1>7, StepInv

\* cleanupEagerWrites and cleanupLazyWrites, one header at a time
\* (Descriptor_rstm.h:899-942).
LEMMA RestoreStep ==
  ASSUME Inv, NEW t \in Threads, RestoreHeader(t)
  PROVE  Inv'
<1>0. LocalOK(t) /\ ModeOK(t) /\ WritesOK(t) /\ SnapOK(t) /\ ReadersOK(t)
  BY ThreadFacts
<1>1. pc[t] = "restore" /\ writes[t] # <<>> /\ txState[t] # "ACTIVE" /\ attempt[t] >= 1
  BY <1>0 DEF RestoreHeader, LocalOK
<1>l. PICK l \in Locals : l = loc[t]
  BY Types
<1>r. PICK s \in Seq(Entry) : s = writes[t] /\ s # <<>>
  BY <1>1, Types
<1>q. PICK n \in Nat, z \in Seq(Entry), w \in Entry : n = Len(s) /\ z = Tail(s) /\ w = Head(s)
  BY <1>r, ElementsTail
<1>s. /\ s = writes[t] /\ n >= 1 /\ z = Tail(s) /\ w = Head(s)
      /\ DOMAIN s = 1 .. n /\ DOMAIN z = 1 .. n - 1
      /\ \A i \in 1 .. n - 1 : z[i] = s[i + 1]
      /\ Elements(s) = {w} \cup Elements(z)
  BY <1>r, <1>q, ElementsTail
<1>e. Elements(writes[t]) = {w} \cup Elements(z)
  BY <1>s
<1>w. w.obj \in Objects /\ w.old \in Versions /\ w.new \in Versions /\ OwnerOf(w.new) = t
  BY <1>e, EntryFacts
<1>k. PICK keeps \in Versions : keeps = IF txState[t] = "COMMITTED" THEN w.new ELSE w.old
  BY <1>w
<1>2. /\ header' = [header EXCEPT ![w.obj] = IF Restores(t, w) THEN Unowned(keeps) ELSE @]
      /\ next' = [next EXCEPT ![w.obj][w.new] =
                        IF Restores(t, w) /\ txState[t] = "COMMITTED" THEN NullVersion ELSE @]
      /\ writes' = [writes EXCEPT ![t] = z]
      /\ UNCHANGED <<readers, txState, mode, attempt, invisReads, visReads, seen, began, committed>>
      /\ pc' = [pc EXCEPT ![t] = "restore"] /\ loc' = [loc EXCEPT ![t] = l]
      /\ pc' = pc /\ loc' = loc
  BY <1>1, <1>k, <1>l, <1>s, Types DEF RestoreHeader, self, history
<1>b. /\ pc'[t] = "restore" /\ loc'[t] = l /\ writes'[t] = z
      /\ \A u \in Threads \ {t} : writes'[u] = writes[u]
      /\ writes' \in [Threads -> Seq(Entry)]
  BY <1>1, <1>2, <1>l, Types
<1>3. "restore" \in Labels \ {"idle"}
  BY DEF Labels
<1>n. /\ next' \in [Objects -> [Versions -> AnyVersion]]
      /\ \A p \in Objects \ {w.obj} : next'[p] = next[p]
      /\ ~Restores(t, w) => next' = next
  <2>1. PICK x \in AnyVersion : x = IF Restores(t, w) /\ txState[t] = "COMMITTED" THEN NullVersion ELSE next[w.obj][w.new]
    BY <1>w, Types DEF AnyVersion
  <2>2. IsUpdate(next', next, w.obj, w.new, x)
    BY <1>2, <2>1 DEF IsUpdate
  <2>3. next \in [Objects -> [Versions -> AnyVersion]]
    BY Types
  <2>4. /\ next' \in [Objects -> [Versions -> AnyVersion]]
        /\ \A p \in Objects \ {w.obj} : next'[p] = next[p]
        /\ x = next[w.obj][w.new] => next' = next
    BY <2>2, <2>3, <1>w, NextUpdate
  <2>5. QED
    BY <2>1, <2>4
<1>h. /\ header' \in [Objects -> Header]
      /\ \A p \in Objects \ {w.obj} : header'[p] = header[p]
      /\ Restores(t, w) => header'[w.obj] = Unowned(keeps)
      /\ ~Restores(t, w) => header'[w.obj] = header[w.obj]
  <2>1. Unowned(keeps) \in Header
    BY DEF Unowned, Header
  <2>2. CASE Restores(t, w)
    BY <1>2, <1>w, <2>1, <2>2, Types
  <2>3. CASE ~Restores(t, w)
    BY <1>2, <1>w, <2>3, Types
  <2>4. QED
    BY <2>2, <2>3
<1>4. \A p \in Objects :
           \/ header'[p] = header[p] /\ next'[p] = next[p]
           \/ /\ ~header'[p].owned
              /\ header[p].owned => txState[OwnerOf(header[p].ver)] # "ACTIVE"
  <2>1. CASE Restores(t, w)
    <3>1. header[w.obj] = Owned(w.new) /\ Owned(w.new).ver = w.new /\ ~Unowned(keeps).owned
      BY <2>1 DEF Restores, Swaps, Owned, Unowned
    <3>2. QED
      BY <2>1, <3>1, <1>h, <1>n, <1>w, <1>1
  <2>2. CASE ~Restores(t, w)
    BY <2>2, <1>h, <1>n
  <2>3. QED
    BY <2>1, <2>2
<1>5. LocalOK(t)'
  BY <1>0, <1>1, <1>2, <1>b, <1>l DEF LocalOK
<1>6. ModeOK(t)'
  BY <1>0, <1>2, <1>b, <1>l DEF ModeOK
<1>7. WritesOK(t)'
  <2>1. ~EndsOpen(t)' /\ ~EndsCommit(t)' /\ pc'[t] \notin OpenLabels /\ ~EndsOpen(t)
    BY <1>1, <1>b DEF EndsOpen, EndsCommit, OpenLabels
  <2>2. \A i \in 1 .. n - 1 : i + 1 \in 1 .. n /\ z[i] = s[i + 1]
    BY <1>s
  <2>3. Single(t) => Single(t)'
    <3>1. ASSUME Single(t), NEW i \in 1 .. n - 1, NEW k \in 1 .. n - 1, z[i].obj = z[k].obj
          PROVE i = k
      <4>0. \A x, y \in 1 .. n : s[x].obj = s[y].obj => x = y
        BY <3>1, <1>s DEF Single
      <4>2. i + 1 \in 1 .. n /\ k + 1 \in 1 .. n /\ z[i] = s[i + 1] /\ z[k] = s[k + 1]
        BY <2>2
      <4>1. i + 1 = k + 1
        BY <4>2, <3>1, <4>0
      <4>3. QED
        BY <4>1
    <3>2. QED
      BY <3>1, <1>b, <1>s DEF Single
  <2>4. \A i, k \in DOMAIN z : z[i].obj = z[k].obj /\ z[i].new = z[k].new => i = k
    <3>1. ASSUME NEW i \in 1 .. n - 1, NEW k \in 1 .. n - 1, z[i].obj = z[k].obj, z[i].new = z[k].new
          PROVE i = k
      <4>0. \A x, y \in 1 .. n : s[x].obj = s[y].obj /\ s[x].new = s[y].new => x = y
        BY <1>s, <1>0 DEF WritesOK
      <4>2. i + 1 \in 1 .. n /\ k + 1 \in 1 .. n /\ z[i] = s[i + 1] /\ z[k] = s[k + 1]
        BY <2>2
      <4>1. i + 1 = k + 1
        BY <4>2, <3>1, <4>0
      <4>3. QED
        BY <4>1
    <3>2. QED
      BY <3>1, <1>s
  <2>5. \A x \in Elements(z) : x \in Elements(writes[t])
    BY <1>e
  <2>6. Killed(t)' <=> Killed(t)
    BY <1>2 DEF Killed
  <2>7. QED
    BY <1>0, <1>1, <1>2, <1>b, <2>1, <2>3, <2>4, <2>5, <2>6 DEF WritesOK
<1>8. SnapOK(t)'
  BY <1>b DEF SnapOK
<1>9. OwnerOK'
  <2>1. ASSUME NEW p \in Objects, header'[p].owned
        PROVE  \E u \in Threads : pc'[u] # "idle" /\ Owns(u, p, header[p].ver)'
    <3>1. header'[p] = header[p] /\ next'[p] = next[p]
      BY <1>4, <2>1
    <3>2. PICK u \in Threads : pc[u] # "idle" /\ Owns(u, p, header[p].ver)
      BY <2>1, <3>1 DEF Inv, OwnerOK
    <3>3. PICK x \in Elements(writes[u]) : x.obj = p /\ x.acquired /\ x.new = header[p].ver /\ x.old = next[p][header[p].ver]
      BY <3>2 DEF Owns
    <3>4. x \in Elements(writes'[u])
      <4>1. CASE u = t /\ x = w
        <5>1. header[p] = Owned(w.new)
          <6>1. header[p] \in Header
            BY Types
          <6>2. QED
            BY <6>1, <4>1, <3>1, <3>3, <2>1 DEF Header, Owned
        <5>2. Restores(t, w)
          BY <5>1, <4>1, <3>3 DEF Restores, Swaps
        <5>3. QED
          BY <5>2, <4>1, <3>3, <1>h, <2>1 DEF Unowned
      <4>2. CASE u = t /\ x # w
        BY <4>2, <3>3, <1>e, <1>b
      <4>3. CASE u # t
        BY <4>3, <3>3, <1>b
      <4>4. QED
        BY <4>1, <4>2, <4>3
    <3>5. QED
      BY <3>1, <3>2, <3>3, <3>4, <1>2 DEF Owns
  <2>2. QED
    BY <2>1 DEF OwnerOK
<1>10. /\ UNCHANGED <<readers, txState, mode, attempt, invisReads, visReads, seen, began, committed>>
       /\ pc' = [pc EXCEPT ![t] = "restore"] /\ loc' = [loc EXCEPT ![t] = l]
  BY <1>2
<1>11. /\ header' \in [Objects -> Header] /\ next' \in [Objects -> [Versions -> AnyVersion]]
       /\ writes' \in [Threads -> Seq(Entry)] /\ \A u \in Threads \ {t} : writes'[u] = writes[u]
  BY <1>b, <1>h, <1>n
<1>12. pc[t] # "idle" /\ pc[t] = "restore"
  BY <1>1
<1>13. QED
  BY <1>12, <1>3, <1>4, <1>5, <1>6, <1>7, <1>8, <1>9, <1>10, <1>11, UnownStep

\* An entry of writes when its object has been acquired.
IsAcquisition(z, s, i) == z = [s EXCEPT ![i].acquired = TRUE]

\* What holds of the list once entry i says acquired.
LEMMA SetAcquired ==
  ASSUME NEW s \in Seq(Entry), NEW i \in DOMAIN s, NEW z, IsAcquisition(z, s, i)
  PROVE  /\ z \in Seq(Entry) /\ DOMAIN z = DOMAIN s
         /\ \A k \in DOMAIN s : /\ z[k].obj = s[k].obj /\ z[k].old = s[k].old /\ z[k].new = s[k].new
                                /\ k # i => z[k] = s[k]
         /\ z[i].acquired
<1>1. PICK n \in Nat : DOMAIN s = 1 .. n /\ s \in [1 .. n -> Entry]
  OBVIOUS
<1>2. s[i] \in Entry
  BY <1>1
<1>3. PICK e \in Entry : e = [s[i] EXCEPT !.acquired = TRUE]
  BY <1>2 DEF Entry
<1>4. e.obj = s[i].obj /\ e.old = s[i].old /\ e.new = s[i].new /\ e.acquired
  BY <1>2, <1>3 DEF Entry
<1>5. z = [s EXCEPT ![i] = e]
  BY <1>3 DEF IsAcquisition
<1>6. z \in [1 .. n -> Entry]
  BY <1>1, <1>5
<1>7. z \in Seq(Entry) /\ DOMAIN z = DOMAIN s
  BY <1>1, <1>6
<1>8. z[i] = e /\ \A k \in DOMAIN s : k # i => z[k] = s[k]
  BY <1>1, <1>5
<1>9. QED
  BY <1>4, <1>7, <1>8

\* acquireLazily, one object (Descriptor_rstm.h:879-895). Its CAS succeeds only
\* if the header is the version that was cloned, which nobody owns.
LEMMA AcquireLazilyStep ==
  ASSUME Inv, NEW t \in Threads, AcquireLazily(t)
  PROVE  Inv'
<1>0. LocalOK(t) /\ ModeOK(t) /\ WritesOK(t) /\ SnapOK(t) /\ ReadersOK(t)
  BY ThreadFacts
<1>1. pc[t] = "acquireLazily" /\ mode[t].isLazy
  BY <1>0 DEF AcquireLazily, ModeOK
<1>s. PICK s \in Seq(Entry) : s = writes[t]
  BY Types
<1>l. PICK left : left = {i \in DOMAIN s : ~s[i].acquired}
  OBVIOUS
<1>i. PICK i : i = CHOOSE k \in left : \A m \in left : k <= m
  OBVIOUS
<1>2. CASE left = {}
  <2>1. PICK l \in Locals : l = loc[t]
    BY Types
  <2>2. /\ pc' = [pc EXCEPT ![t] = "verify"] /\ loc' = [loc EXCEPT ![t] = l]
        /\ UNCHANGED <<memory, self, lists, history>>
    BY <1>2, <1>l, <1>s, <2>1, Types DEF AcquireLazily, GoTo
  <2>a. /\ header' = header /\ next' = next /\ readers' = readers /\ txState' = txState
        /\ mode' = mode /\ attempt' = attempt /\ visReads' = visReads /\ writes' = writes
    BY <2>2 DEF memory, self, lists
  <2>b. loc'[t] = l /\ pc'[t] = "verify"
    BY <2>2, Types
  <2>3. LocalOK(t)'
    BY <1>0, <1>1, <2>1, <2>a, <2>b DEF LocalOK
  <2>4. ModeOK(t)'
    BY <1>0, <2>a, <2>b DEF ModeOK
  <2>5. WritesOK(t)'
    <3>1. ~EndsOpen(t)' /\ ~EndsOpen(t) /\ pc'[t] \notin OpenLabels
      BY <1>1, <2>b DEF EndsOpen, OpenLabels
    <3>2. \A w \in Elements(writes[t]) : w.acquired
      BY <1>2, <1>l, <1>s DEF Elements
    <3>3. QED
      BY <3>1, <3>2, <1>1, <2>2, LocalWrites
  <2>6. SnapOK(t)'
    BY <2>b DEF SnapOK
  <2>7. "verify" \in Labels \ {"idle"}
    BY DEF Labels
  <2>8. QED
    BY <1>1, <2>2, <2>3, <2>4, <2>5, <2>6, <2>7, LocalStep
<1>3. CASE left # {}
  <2>i. i \in left
    <3>1. left \subseteq Nat
      BY <1>l
    <3>2. \E k \in left : \A m \in left : k <= m
      BY <1>3, <3>1, NatLeast
    <3>3. QED
      BY <1>i, <3>2
  <2>j. i \in DOMAIN s /\ ~s[i].acquired /\ s[i] \in Entry
    BY <2>i, <1>l, <1>s
  <2>w. PICK w \in Entry : w = s[i]
    BY <2>j
  <2>e. w \in Elements(writes[t]) /\ ~w.acquired
    BY <2>j, <2>w, <1>s DEF Elements
  <2>o. PICK o \in Objects, old \in Versions, new \in Versions :
          /\ o = w.obj /\ old = w.old /\ new = w.new
          /\ new = <<t, attempt[t], w.new[3]>> /\ OwnerOf(new) = t /\ new[2] = attempt[t]
    <3>1. /\ w.obj \in Objects /\ w.old \in Versions /\ w.new \in Versions
          /\ w.new = <<t, attempt[t], w.new[3]>> /\ OwnerOf(w.new) = t /\ w.new[2] = attempt[t]
      BY <2>e, EntryFacts
    <3>2. QED
      BY <3>1
  <2>1. CASE ~Swaps(w.obj, Unowned(w.old))
    <3>1. Abort(t)
      BY <1>3, <1>l, <1>i, <1>s, <2>w, <2>1 DEF AcquireLazily
    <3>2. QED
      BY <1>1, <3>1, AbortStep
  <2>2. CASE Swaps(w.obj, Unowned(w.old))
    <3>p. loc[t] \in Locals
      BY Types
    <3>l. PICK l \in Locals : l = [loc[t] EXCEPT !.obj = o]
      BY <3>p DEF Locals
    <3>m. l.obj = o /\ l.snap = loc[t].snap /\ l.kind = loc[t].kind /\ l.newer = loc[t].newer
      BY <3>p, <3>l DEF Locals
    <3>z. PICK z : IsAcquisition(z, s, i)
      BY DEF IsAcquisition
    <3>1. /\ header' = [header EXCEPT ![o] = Owned(new)]
          /\ next' = [next EXCEPT ![o][new] = old]
          /\ writes' = [writes EXCEPT ![t] = z]
          /\ loc' = [loc EXCEPT ![t] = l]
          /\ pc' = [pc EXCEPT ![t] = "snapReaders"]
          /\ UNCHANGED <<readers, txState, mode, attempt, invisReads, visReads, seen, began, committed>>
      <4>1. /\ header' = [header EXCEPT ![w.obj] = Owned(w.new)]
            /\ next' = [next EXCEPT ![w.obj][w.new] = w.old]
            /\ writes' = [writes EXCEPT ![t][i].acquired = TRUE]
            /\ loc' = [loc EXCEPT ![t].obj = w.obj]
            /\ GoTo(t, "snapReaders")
            /\ UNCHANGED <<readers, txState, self, invisReads, visReads, history>>
        BY <1>3, <1>l, <1>i, <1>s, <2>w, <2>2 DEF AcquireLazily
      <4>2. writes' = [writes EXCEPT ![t] = z]
        BY <4>1, <3>z, <1>s DEF IsAcquisition
      <4>3. QED
        BY <4>1, <4>2, <2>o, <3>l DEF GoTo, self, history
    <3>2. /\ z \in Seq(Entry) /\ DOMAIN z = DOMAIN s
          /\ \A k \in DOMAIN s : /\ z[k].obj = s[k].obj /\ z[k].old = s[k].old /\ z[k].new = s[k].new
                                 /\ k # i => z[k] = s[k]
          /\ z[i].acquired
      BY <2>j, <3>z, SetAcquired
    <3>3. /\ writes'[t] = z /\ writes' \in [Threads -> Seq(Entry)]
          /\ \A u \in Threads \ {t} : writes'[u] = writes[u]
      BY <3>1, <3>2, Types
    <3>4. \A x \in Elements(writes[t]) : \E y \in Elements(z) :
             y.obj = x.obj /\ y.old = x.old /\ y.new = x.new /\ (x.acquired => y.acquired)
      BY <3>2, <1>s DEF Elements
    <3>5. \A y \in Elements(z) :
             \/ y \in Elements(writes[t])
             \/ y.obj = o /\ y.old = old /\ y.new = new
      <4>1. ASSUME NEW y \in Elements(z)
            PROVE  y \in Elements(writes[t]) \/ (y.obj = o /\ y.old = old /\ y.new = new)
        <5>1. PICK k \in DOMAIN s : y = z[k]
          BY <3>2 DEF Elements
        <5>2. CASE k = i
          BY <5>1, <5>2, <3>2, <2>w, <2>o
        <5>3. CASE k # i
          BY <5>1, <5>3, <3>2, <1>s DEF Elements
        <5>4. QED
          BY <5>2, <5>3
      <4>2. QED
        BY <4>1
    <3>6. \E y \in Elements(z) : y.obj = o /\ y.old = old /\ y.new = new /\ y.acquired
      BY <3>2, <2>j, <2>w, <2>o DEF Elements
    <3>7. Owned(new) \in Header /\ Owned(new).ver = new /\ Owned(new).owned
      BY DEF Owned, Header
    <3>8. /\ pc' \in [Threads -> Labels] /\ pc'[t] = "snapReaders" /\ loc'[t] = l
          /\ \A u \in Threads \ {t} : pc'[u] = pc[u] /\ loc'[u] = loc[u]
          /\ loc' \in [Threads -> Locals]
      BY <3>1, Types DEF Labels
    <3>9. /\ header' \in [Objects -> Header] /\ header'[o] = Owned(new)
          /\ \A p \in Objects \ {o} : header'[p] = header[p]
      BY <3>1, <3>7, Types
    <3>10. /\ next' \in [Objects -> [Versions -> AnyVersion]] /\ next'[o][new] = old
           /\ \A p \in Objects \ {o} : next'[p] = next[p]
      <4>1. IsUpdate(next', next, o, new, old)
        BY <3>1 DEF IsUpdate
      <4>2. next \in [Objects -> [Versions -> AnyVersion]] /\ old \in AnyVersion
        BY Types DEF AnyVersion
      <4>3. QED
        <5>1. PICK x \in AnyVersion : x = old
          BY <4>2
        <5>2. IsUpdate(next', next, o, new, x)
          BY <4>1, <5>1
        <5>a. next \in [Objects -> [Versions -> AnyVersion]]
          BY <4>2
        <5>3. next' \in [Objects -> [Versions -> AnyVersion]]
          BY <5>a, <5>2, NextUpdate
        <5>5. next'[o][new] = x
          BY <5>a, <5>2, NextUpdate
        <5>6. \A p \in Objects \ {o} : next'[p] = next[p]
          BY <5>a, <5>2, NextUpdate
        <5>4. QED
          BY <5>1, <5>3, <5>5, <5>6
    <3>11. header[o] = Unowned(old) /\ ~header[o].owned
      BY <2>2, <2>o DEF Swaps, Unowned
    <3>12. ~Used(o, new)
      <4>1. ASSUME NEW x \in Elements(writes[t]), x.obj = o, x.new = new, x.acquired PROVE FALSE
        <5>1. PICK k \in DOMAIN s : x = s[k]
          BY <1>s DEF Elements
        <5>2. k = i
          <6>1. \A a, b \in DOMAIN s : s[a].obj = s[b].obj /\ s[a].new = s[b].new => a = b
            BY <1>0, <1>s DEF WritesOK
          <6>2. QED
            BY <4>1, <5>1, <6>1, <2>j, <2>w, <2>o
        <5>3. QED
          BY <4>1, <5>1, <5>2, <2>j
      <4>2. attempt[t] \in Nat
        BY Types, BoundAssumption
      <4>3. ~(new[2] < attempt[t])
        BY <4>2, <2>o
      <4>4. QED
        BY <4>1, <4>3, <2>o, <1>1 DEF Used
    <3>13. Others(t)
      BY <3>1, <3>3, <3>8 DEF Others
    <3>14. Headers(t)
      <4>1. ASSUME NEW p \in Objects, NEW x \in Versions
            PROVE  /\ header'[p] = Owned(x) /\ header[p] # Owned(x) => ~Used(p, x)
                   /\ header'[p] = Owned(x) /\ header[p] = Owned(x) => next'[p][x] = next[p][x]
                   /\ header[p] = Owned(x) => header'[p] = header[p]
        <5>1. CASE p = o
          <6>1. header'[p] = Owned(x) => x = new
            BY <5>1, <3>9 DEF Owned
          <6>2. header[p] # Owned(x)
            BY <5>1, <3>11 DEF Owned
          <6>3. QED
            BY <5>1, <6>1, <6>2, <3>12
        <5>2. CASE p # o
          BY <5>2, <3>9, <3>10
        <5>3. QED
          BY <5>1, <5>2
      <4>2. QED
        BY <4>1, <3>1 DEF Headers
    <3>15. UsedStable
      <4>1. ASSUME NEW p \in Objects, NEW x \in Versions, OwnerOf(x) \in Threads, Used(p, x)
            PROVE  Used(p, x)'
        <5>1. pc[OwnerOf(x)] \in {"restore", "idle"} => pc'[OwnerOf(x)] = pc[OwnerOf(x)]
          BY <1>1, <3>8, <4>1
        <5>2. \A y \in Elements(writes[OwnerOf(x)]) : \E q \in Elements(writes'[OwnerOf(x)]) :
                q.obj = y.obj /\ q.new = y.new /\ (y.acquired => q.acquired)
          BY <3>3, <3>4, <4>1
        <5>3. QED
          BY <3>1, <4>1, <5>1, <5>2 DEF Used, OwnerOf
      <4>2. QED
        BY <4>1 DEF UsedStable
    <3>16. TypeInv'
      BY <3>1, <3>3, <3>8, <3>9, <3>10, Types DEF Inv, TypeInv, MemoryOK, ThreadOK, ListsOK, HistoryOK
    <3>17. LocalOK(t)'
      BY <1>0, <1>1, <3>1, <3>8, <3>m DEF LocalOK
    <3>18. ModeOK(t)'
      BY <1>0, <3>1, <3>8 DEF ModeOK
    <3>19. WritesOK(t)'
      <4>1. ~EndsCommit(t)' /\ pc'[t] \notin OpenLabels /\ mode'[t].isLazy
        BY <1>1, <3>1, <3>8 DEF EndsCommit, OpenLabels
      <4>2. \A y \in Elements(z) : y.new = <<t, attempt[t], y.new[3]>> /\ y.new[3] \in 1 .. 2
        BY <3>5, <2>e, <2>o, <1>0 DEF WritesOK
      <4>3. \A a, b \in DOMAIN z : z[a].obj = z[b].obj /\ z[a].new = z[b].new => a = b
        BY <3>2, <1>0, <1>s DEF WritesOK
      <4>4. ~(\E x \in Elements(writes[t]) : x.new[3] = 2) /\ Single(t)
        BY <1>0, <1>1 DEF WritesOK
      <4>5. ~ \E y \in Elements(z) : y.new[3] = 2
        BY <4>4, <3>5, <2>e, <2>o
      <4>6. Single(t)'
        BY <4>4, <3>2, <3>3, <1>s DEF Single
      <4>7. txState[t] = "ACTIVE" => \A y \in Elements(z) : y.acquired => header'[y.obj] = Owned(y.new)
        <5>1. ASSUME txState[t] = "ACTIVE", NEW y \in Elements(z), y.acquired
              PROVE  header'[y.obj] = Owned(y.new)
          <6>1. CASE y \in Elements(writes[t])
            <7>1. header[y.obj] = Owned(y.new) /\ y.obj \in Objects
              BY <5>1, <6>1, <1>0, EntryFacts DEF WritesOK
            <7>2. y.obj # o
              BY <7>1, <3>11 DEF Owned
            <7>3. QED
              BY <7>1, <7>2, <3>9
          <6>2. CASE y.obj = o /\ y.new = new
            BY <6>2, <3>9
          <6>3. QED
            BY <6>1, <6>2, <3>5
        <5>2. QED
          BY <5>1
      <4>8. QED
        BY <4>1, <4>2, <4>3, <4>5, <4>6, <4>7, <3>1, <3>3 DEF WritesOK
    <3>20. SnapOK(t)'
      BY <3>8 DEF SnapOK
    <3>21. ReadersOK(t)'
      BY <1>0, <3>1 DEF ReadersOK
    <3>22. OwnerOK'
      <4>1. ASSUME NEW p \in Objects, header'[p].owned
            PROVE  \E u \in Threads : pc'[u] # "idle" /\ Owns(u, p, header[p].ver)'
        <5>1. CASE p = o
          <6>1. PICK y \in Elements(writes'[t]) : y.obj = o /\ y.old = old /\ y.new = new /\ y.acquired
            BY <3>3, <3>6
          <6>2. header'[p].ver = new /\ next'[p][new] = old
            BY <5>1, <3>7, <3>9, <3>10
          <6>3. Owns(t, p, header[p].ver)'
            BY <5>1, <6>1, <6>2 DEF Owns
          <6>4. QED
            BY <6>3, <3>8
        <5>2. CASE p # o
          <6>1. header'[p] = header[p] /\ next'[p] = next[p]
            BY <5>2, <3>9, <3>10
          <6>2. PICK u \in Threads : pc[u] # "idle" /\ Owns(u, p, header[p].ver)
            BY <4>1, <6>1 DEF Inv, OwnerOK
          <6>3. PICK x \in Elements(writes[u]) : x.obj = p /\ x.acquired /\ x.new = header[p].ver /\ x.old = next[p][header[p].ver]
            BY <6>2 DEF Owns
          <6>4. \E y \in Elements(writes'[u]) :
                  y.obj = x.obj /\ y.old = x.old /\ y.new = x.new /\ y.acquired
            BY <6>3, <3>3, <3>4
          <6>5. pc'[u] # "idle"
            BY <6>2, <3>8
          <6>6. QED
            BY <6>1, <6>3, <6>4, <6>5 DEF Owns
        <5>3. QED
          BY <5>1, <5>2
      <4>2. QED
        BY <4>1 DEF OwnerOK
    <3>23. CommittedOK'
      BY <1>1, <3>1, <3>8 DEF Inv, CommittedOK
    <3>24. ThreadInv(t)'
      BY <3>17, <3>18, <3>19, <3>20, <3>21 DEF ThreadInv
    <3>25. QED
      BY <3>13, <3>14, <3>15, <3>16, <3>22, <3>23, <3>24, StepInv
  <2>3. QED
    BY <2>1, <2>2
<1>4. QED
  BY <1>2, <1>3

-------------------------------------------------------------------------------
(* The theorems.                                                             *)

\* The invariant holds initially (Descriptor_rstm.h:695-741).
LEMMA InvInit ==
  ASSUME Init
  PROVE  Inv
<1>1. /\ header = [o \in Objects |-> Unowned(Initial)]
      /\ next = [o \in Objects |-> [v \in Versions |-> NullVersion]]
      /\ readers = [o \in Objects |-> {}]
      /\ txState = [t \in Threads |-> "COMMITTED"]
      /\ pc = [t \in Threads |-> "idle"]
      /\ attempt = [t \in Threads |-> 0]
      /\ loc = [t \in Threads |-> NoLocals]
      /\ invisReads = [t \in Threads |-> <<>>]
      /\ visReads = [t \in Threads |-> {}]
      /\ writes = [t \in Threads |-> <<>>]
      /\ seen = [t \in Threads |-> {}]
      /\ began = [t \in Threads |-> {}]
      /\ committed = {}
  BY DEF Init
<1>2. mode \in [Threads -> [isVisible : BOOLEAN, isLazy : BOOLEAN]]
  BY DEF Init
<1>3. MemoryOK
  <2>1. Unowned(Initial) \in Header /\ NullVersion \in AnyVersion
    BY VersionFacts DEF Unowned, Header, AnyVersion
  <2>2. QED
    BY <1>1, <2>1 DEF MemoryOK, States
<1>4. ThreadOK
  BY <1>1, <1>2, NoLocalsType, BoundAssumption DEF ThreadOK, Labels
<1>5. ListsOK /\ HistoryOK
  BY <1>1 DEF ListsOK, HistoryOK
<1>6. ASSUME NEW t \in Threads PROVE ThreadInv(t)
  <2>1. /\ pc[t] = "idle" /\ txState[t] = "COMMITTED" /\ loc[t] = NoLocals /\ writes[t] = <<>>
        /\ visReads[t] = {} /\ ~loc[t].snap.owned
    BY <1>1, NoLocalsType DEF Unowned
  <2>2. Elements(writes[t]) = {} /\ Single(t) /\ DOMAIN writes[t] = {}
    BY <2>1 DEF Elements, Single
  <2>3. LocalOK(t)
    BY <2>1 DEF LocalOK
  <2>4. ModeOK(t)
    BY <2>1 DEF ModeOK
  <2>5. WritesOK(t)
    BY <2>1, <2>2 DEF WritesOK, EndsOpen, EndsCommit, OpenLabels
  <2>6. SnapOK(t)
    BY <2>1 DEF SnapOK
  <2>7. ReadersOK(t)
    BY <1>1 DEF ReadersOK
  <2>8. QED
    BY <2>3, <2>4, <2>5, <2>6, <2>7 DEF ThreadInv
<1>7. OwnerOK
  BY <1>1 DEF OwnerOK, Unowned
<1>8. CommittedOK
  BY <1>1 DEF CommittedOK
<1>9. QED
  BY <1>3, <1>4, <1>5, <1>6, <1>7, <1>8 DEF Inv, TypeInv

\* A stuttering step preserves the invariant.
LEMMA InvStutter ==
  ASSUME Inv, UNCHANGED vars
  PROVE  Inv'
<1>1. /\ header' = header /\ next' = next /\ readers' = readers /\ txState' = txState /\ pc' = pc
      /\ mode' = mode /\ attempt' = attempt /\ loc' = loc
      /\ invisReads' = invisReads /\ visReads' = visReads /\ writes' = writes
      /\ seen' = seen /\ began' = began /\ committed' = committed
  BY DEF vars, memory, self, lists, history
<1>2. TypeInv'
  BY <1>1 DEF Inv, TypeInv, MemoryOK, ThreadOK, ListsOK, HistoryOK
<1>3. ASSUME NEW t \in Threads PROVE ThreadInv(t)'
  <2>1. LocalOK(t) /\ ModeOK(t) /\ WritesOK(t) /\ SnapOK(t) /\ ReadersOK(t)
    BY ThreadFacts
  <2>2. LocalOK(t)' /\ ReadersOK(t)'
    BY <1>1, <2>1 DEF LocalOK, ReadersOK
  <2>3. ModeOK(t)'
    BY <1>1, <2>1 DEF ModeOK, CleansFirst
  <2>4. WritesOK(t)'
    BY <1>1, <2>1 DEF WritesOK, Single, Killed, EndsOpen, EndsCommit
  <2>5. SnapOK(t)'
    BY <1>1, <2>1 DEF SnapOK, Used
  <2>6. QED
    BY <2>2, <2>3, <2>4, <2>5 DEF ThreadInv
<1>4. OwnerOK' /\ CommittedOK'
  BY <1>1 DEF Inv, OwnerOK, CommittedOK, Owns
<1>5. QED
  BY <1>2, <1>3, <1>4 DEF Inv

\* Every statement of a thread preserves the invariant.
LEMMA InvStep ==
  ASSUME Inv, NEW t \in Threads, Thread(t)
  PROVE  Inv'
<1>1. CASE Begin(t)
  BY <1>1, BeginStep
<1>2. CASE \E o \in Objects, kind \in {"RO", "RW"} : Open(t, o, kind)
  BY <1>2, OpenStep
<1>3. CASE Contend(t) \/ Load(t) \/ Look(t) \/ Recheck(t) \/ GiveWay(t) \/ KillOwner(t)
  BY <1>3, ContendStep, LoadStep, LookStep, RecheckStep, GiveWayStep, KillOwnerStep
<1>4. CASE CleanAbort(t) \/ CleanCommit(t) \/ InstallVisibleReader(t) \/ CheckHeader(t) \/ InsertInvisRead(t)
  BY <1>4, CleanSteps, InstallStep, CheckHeaderStep, InsertStep
<1>5. CASE Acquire(t) \/ YieldToReaders(t) \/ CloneLazily(t) \/ SnapReaders(t) \/ KillReader(t)
  BY <1>5, AcquireStep, YieldStep, CloneStep, SnapReadersStep, KillReaderStep
<1>6. CASE Validate(t) \/ Opened(t) \/ Commit(t) \/ AcquireLazily(t) \/ VerifyInvisReads(t) \/ CommitCas(t)
  BY <1>6, ValidateStep, OpenedStep, CommitStep, AcquireLazilyStep, VerifyStep, CommitCasStep
<1>7. CASE RestoreHeader(t) \/ RemoveVisibleReader(t) \/ EndTransaction(t)
  BY <1>7, RestoreStep, RemoveStep, EndStep
<1>8. QED
  BY <1>1, <1>2, <1>3, <1>4, <1>5, <1>6, <1>7 DEF Thread

\* The inductive invariant, which the theorems below are consequences of.
THEOREM InvHolds == Spec => []Inv
<1>1. Init => Inv
  BY InvInit
<1>2. Inv /\ [Next]_vars => Inv'
  BY InvStutter, InvStep DEF Next
<1>3. QED
  BY <1>1, <1>2, PTL DEF Spec

\* The invariant says more of the types than TypeOK.
LEMMA InvTypeOK ==
  ASSUME Inv
  PROVE  TypeOK
<1>1. /\ header \in [Objects -> Header]
      /\ next \in [Objects -> [Versions -> Versions \cup {NullVersion}]]
      /\ readers \in [Objects -> SUBSET Threads]
      /\ txState \in [Threads -> {"ACTIVE", "ABORTED", "COMMITTED"}]
      /\ pc \in [Threads -> Labels]
      /\ mode \in [Threads -> [isVisible : BOOLEAN, isLazy : BOOLEAN]]
      /\ attempt \in [Threads -> 0 .. MaxAttempts]
      /\ visReads \in [Threads -> SUBSET Objects]
  BY Types DEF AnyVersion, States
<1>2. began \in [Threads -> SUBSET Versions]
  BY DEF Inv, TypeInv, HistoryOK
<1>3. ASSUME NEW t \in Threads, NEW w \in Elements(writes[t])
      PROVE  w \in [obj : Objects, old : Versions, new : Versions, acquired : BOOLEAN]
  BY EntryFacts DEF Entry
<1>4. \A w \in UNION {Elements(writes[t]) : t \in Threads} :
         w \in [obj : Objects, old : Versions, new : Versions, acquired : BOOLEAN]
  BY <1>3
<1>5. QED
  BY <1>1, <1>2, <1>4 DEF TypeOK

\* Type correctness: every word of an object header is a version and a bit, and
\* every descriptor, list and label is one of its type (Descriptor_rstm.h:60-146).
THEOREM TypeCorrect == Spec => []TypeOK
<1>1. Inv => TypeOK
  BY InvTypeOK
<1>2. QED
  BY <1>1, InvHolds, PTL

\* For any number of threads, objects and attempts: a transaction that meets an
\* owned header finds there the transaction that made the version, still listing
\* it, so that the tx_state it reads decides between this version and the older
\* one, and never a later transaction of the same descriptor
\* (Descriptor_rstm.h:743-781, 1128-1143).
THEOREM HeaderLeadsToItsOwner == Spec => []OwnerIsItsTransaction
<1>1. Inv => OwnerIsItsTransaction
  <2>1. ASSUME Inv, NEW o \in Objects, header[o].owned
        PROVE  \E t \in Threads :
                 /\ pc[t] # "idle"
                 /\ \E w \in Elements(writes[t]) :
                       /\ w.obj = o /\ w.acquired
                       /\ w.new = header[o].ver /\ w.old = next[o][header[o].ver]
    <3>1. PICK t \in Threads : pc[t] # "idle" /\ Owns(t, o, header[o].ver)
      BY <2>1 DEF Inv, OwnerOK
    <3>2. QED
      BY <3>1 DEF Owns
  <2>2. QED
    BY <2>1 DEF OwnerIsItsTransaction
<1>2. QED
  BY <1>1, InvHolds, PTL

\* The asserts at the uses of an older version hold: m_next of a version is not
\* read as NULL from a header that then is still owned, although cleanOnCommit and
\* the cleanup of the owner clear it without a lock (Descriptor_rstm.h:1007-1019,
\* 1200, 1379).
THEOREM OlderVersionIsNotCleared == Spec => []OlderVersionIsThere
<1>1. Inv => OlderVersionIsThere
  <2>1. ASSUME Inv, NEW t \in Threads,
               pc[t] \in {"cleanAbort", "acquire", "clone", "install", "insert"}
        PROVE  loc[t].newer # NullVersion
    BY <2>1, ThreadFacts, VersionFacts DEF LocalOK
  <2>2. QED
    BY <2>1 DEF OlderVersionIsThere
<1>2. QED
  BY <1>1, InvHolds, PTL

\* A thread between transactions is in no bitmap of readers, so that a writer
\* never kills a transaction for what an earlier one of the thread read
\* (Descriptor_rstm.h:1030-1067, 743-781).
THEOREM ReadersAreRemoved == Spec => []NoReaderLeftBehind
<1>1. Inv => NoReaderLeftBehind
  <2>1. ASSUME Inv, NEW t \in Threads, NEW o \in Objects, t \in readers[o]
        PROVE  o \in visReads[t] /\ pc[t] # "idle"
    BY <2>1, ThreadFacts DEF LocalOK, ReadersOK
  <2>2. QED
    BY <2>1 DEF NoReaderLeftBehind
<1>2. QED
  BY <1>1, InvHolds, PTL
===============================================================================
