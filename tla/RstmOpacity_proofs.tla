-------------------------- MODULE RstmOpacity_proofs --------------------------
(*****************************************************************************)
(* Three more theorems about Rstm, for every number of threads, objects and  *)
(* attempts, on top of the inductive invariant of Rstm_proofs: it implements *)
(* TxMemory, visible reads are protected, and the transactions are opaque.   *)
(*                                                                           *)
(* The first two follow how each statement changes the contents of the       *)
(* objects, Current: only the CAS of tx_state that commits a transaction     *)
(* does. The third rests on a serial order, that of numbers drawn from a     *)
(* clock: a committed transaction has its place where it began its last      *)
(* validation, when it already owned all that it writes; a live one where it *)
(* chose the version of the last open that it validated. Ranked says that    *)
(* the numbers exist.                                                        *)
(*****************************************************************************)
EXTENDS Rstm_proofs

-------------------------------------------------------------------------------
(* The contents of the objects.                                              *)

\* The contents of no object change, and no transaction commits.
Kept == /\ \A o \in Objects : Current(o)' = Current(o)
        /\ committed' = committed

\* The contents of an object whose header, m_next and owner stay are the same.
LEMMA CurrentFrame ==
  ASSUME NEW o \in Objects, header'[o] = header[o],
         header[o].owned =>
           /\ next'[o][header[o].ver] = next[o][header[o].ver]
           /\ txState'[OwnerOf(header[o].ver)] = "COMMITTED"
                <=> txState[OwnerOf(header[o].ver)] = "COMMITTED"
  PROVE  Current(o)' = Current(o)
  BY DEF Current

\* A step that leaves the shared memory alone.
LEMMA QuietKept ==
  ASSUME UNCHANGED memory, UNCHANGED committed
  PROVE  Kept
<1>1. header' = header /\ next' = next /\ txState' = txState
  BY DEF memory
<1>2. QED
  BY <1>1 DEF Kept, Current

\* A step that aborts a transaction that has not committed: the contents of what
\* it owns were the older version, and still are.
LEMMA StateKept ==
  ASSUME Inv, NEW r \in Threads, txState[r] # "COMMITTED", txState' = [txState EXCEPT ![r] = "ABORTED"],
         header' = header, next' = next, committed' = committed
  PROVE  Kept
<1>1. \A u : txState'[u] = "COMMITTED" <=> txState[u] = "COMMITTED"
  <2>1. txState \in [Threads -> States]
    BY Types
  <2>2. ASSUME NEW u PROVE txState'[u] = "COMMITTED" <=> txState[u] = "COMMITTED"
    <3>1. CASE u = r
      BY <2>1, <3>1
    <3>2. CASE u # r
      BY <2>1, <3>2
    <3>3. QED
      BY <3>1, <3>2
  <2>3. QED
    BY <2>2
<1>2. QED
  BY <1>1 DEF Kept, Current

\* abort (Descriptor_rstm.h:580-597).
LEMMA AbortKept ==
  ASSUME Inv, NEW t \in Threads, pc[t] \notin {"idle", "restore"}, Abort(t)
  PROVE  Kept
<1>1. txState[t] # "COMMITTED"
  BY ThreadFacts DEF LocalOK
<1>2. QED
  BY <1>1, StateKept DEF Abort

\* beginTransaction reuses the descriptor, and no header leads to it
\* (Descriptor_rstm.h:628-642).
LEMMA BeginKept ==
  ASSUME Inv, NEW t \in Threads, Begin(t)
  PROVE  Kept
<1>1. /\ pc[t] = "idle" /\ header' = header /\ next' = next /\ committed' = committed
      /\ txState' = [txState EXCEPT ![t] = "ACTIVE"]
  BY DEF Begin
<1>2. ASSUME NEW o \in Objects
      PROVE  Current(o)' = Current(o)
  <2>1. header[o].owned => OwnerOf(header[o].ver) # t
    BY <1>1, OwnedFacts
  <2>2. txState \in [Threads -> States]
    BY Types
  <2>3. \A u : u # t => txState'[u] = txState[u]
    BY <1>1, <2>2
  <2>4. QED
    BY <1>1, <2>1, <2>3, CurrentFrame
<1>3. QED
  BY <1>1, <1>2 DEF Kept

\* The owner is killed by a CAS, which fails if it has committed
\* (Descriptor_rstm.h:1331-1354).
LEMMA KillOwnerKept ==
  ASSUME Inv, NEW t \in Threads, KillOwner(t)
  PROVE  Kept
<1>1. /\ pc[t] = "decide" /\ header' = header /\ next' = next /\ committed' = committed
  BY DEF KillOwner, history
<1>2. OwnerOf(loc[t].newer) \in Threads
  BY <1>1, ThreadFacts DEF LocalOK
<1>3. CASE Kills(t)
  <2>1. txState' = [txState EXCEPT ![OwnerOf(loc[t].newer)] = "ABORTED"]
    BY <1>3 DEF KillOwner
  <2>2. txState[OwnerOf(loc[t].newer)] # "COMMITTED"
    BY <1>3 DEF Kills
  <2>3. QED
    BY <1>1, <1>2, <2>1, <2>2, StateKept
<1>4. CASE ~Kills(t)
  <2>1. UNCHANGED memory
    BY <1>4 DEF KillOwner, memory
  <2>2. QED
    BY <1>1, <2>1, QuietKept
<1>5. QED
  BY <1>3, <1>4

\* A visible reader is killed by a CAS (Descriptor_rstm.h:1074-1090).
LEMMA KillReaderKept ==
  ASSUME Inv, NEW t \in Threads, KillReader(t)
  PROVE  Kept
<1>1. PICK r \in loc[t].pending :
        txState' = [txState EXCEPT ![r] = IF @ = "ACTIVE" THEN "ABORTED" ELSE @]
  BY DEF KillReader
<1>2. header' = header /\ next' = next /\ readers' = readers /\ committed' = committed
  BY DEF KillReader, history
<1>3. r \in Threads /\ txState \in [Threads -> States]
  BY Types DEF Locals
<1>4. CASE txState[r] = "ACTIVE"
  <2>1. txState' = [txState EXCEPT ![r] = "ABORTED"]
    BY <1>1, <1>4
  <2>2. QED
    BY <1>2, <1>3, <1>4, <2>1, StateKept
<1>5. CASE txState[r] # "ACTIVE"
  <2>1. txState' = txState
    BY <1>1, <1>3, <1>5
  <2>2. UNCHANGED memory
    BY <1>2, <2>1 DEF memory
  <2>3. QED
    BY <1>2, <2>2, QuietKept
<1>6. QED
  BY <1>4, <1>5

\* A step that changes the header and an m_next of object o leaves the others.
LEMMA OtherObjects ==
  ASSUME Inv, NEW o \in Objects, NEW v \in Versions, NEW h, NEW x,
         header' = [header EXCEPT ![o] = h],
         next' = next \/ IsUpdate(next', next, o, v, x),
         txState' = txState, NEW p \in Objects, p # o
  PROVE  Current(p)' = Current(p)
<1>1. header \in [Objects -> Header] /\ next \in [Objects -> [Versions -> AnyVersion]]
  BY Types
<1>2. header'[p] = header[p]
  BY <1>1
<1>3. next'[p] = next[p]
  BY <1>1 DEF IsUpdate
<1>4. QED
  BY <1>2, <1>3, CurrentFrame

\* Such a step leaves all contents if it leaves those of its object.
LEMMA HeaderKept ==
  ASSUME Inv, NEW o \in Objects, NEW v \in Versions, NEW h, NEW x,
         header' = [header EXCEPT ![o] = h],
         next' = next \/ IsUpdate(next', next, o, v, x),
         txState' = txState, committed' = committed,
         Current(o)' = Current(o)
  PROVE  Kept
<1>1. \A p \in Objects \ {o} : Current(p)' = Current(p)
  BY OtherObjects
<1>2. QED
  BY <1>1 DEF Kept

\* A header is cleaned to the version that is current
\* (Descriptor_rstm.h:1007-1028).
LEMMA CleanKept ==
  ASSUME Inv, NEW t \in Threads, CleanAbort(t) \/ CleanCommit(t)
  PROVE  Kept
<1>1. pc[t] \in {"cleanAbort", "cleanCommit"}
  BY DEF CleanAbort, CleanCommit
<1>2. LocalOK(t) /\ SnapOK(t)
  BY ThreadFacts
<1>o. PICK o \in Objects, v \in Versions : o = loc[t].obj /\ v = loc[t].newer
  BY <1>1, <1>2, Types DEF LocalOK, Locals
<1>p. /\ txState' = txState /\ committed' = committed
      /\ header' = [header EXCEPT ![o] = IF Swaps(o, loc[t].snap) THEN Unowned(v) ELSE @]
      /\ \/ next' = next
         \/ next' = [next EXCEPT ![o][v] = IF Swaps(o, loc[t].snap) THEN NullVersion ELSE @]
  BY <1>o DEF CleanAbort, CleanCommit, history
<1>t. header \in [Objects -> Header] /\ next \in [Objects -> [Versions -> AnyVersion]]
  BY Types
<1>3. CASE header[o] = loc[t].snap
  <2>1. header' = [header EXCEPT ![o] = Unowned(v)] /\ NullVersion \in AnyVersion
    BY <1>3, <1>p DEF Swaps, AnyVersion
  <2>2. next' = next \/ IsUpdate(next', next, o, v, NullVersion)
    BY <1>3, <1>p DEF Swaps, IsUpdate
  <2>3. Current(o) = v
    BY <1>1, <1>2, <1>3, <1>o DEF LocalOK, SnapOK, Current
  <2>4. Current(o)' = v
    BY <1>t, <2>1 DEF Current, Unowned
  <2>5. QED
    BY <1>p, <2>1, <2>2, <2>3, <2>4, HeaderKept
<1>4. CASE header[o] # loc[t].snap
  <2>1. header' = [header EXCEPT ![o] = header[o]]
    BY <1>4, <1>p DEF Swaps
  <2>2. header' = header
    BY <2>1, <1>t
  <2>3. PICK x \in AnyVersion : x = next[o][v]
    BY <1>t
  <2>4. next' = next \/ IsUpdate(next', next, o, v, x)
    BY <1>4, <1>p, <2>3 DEF Swaps, IsUpdate
  <2>5. next' = next
    BY <1>t, <2>3, <2>4, NextUpdate
  <2>6. QED
    BY <1>p, <2>2, <2>5 DEF Kept, Current
<1>5. QED
  BY <1>3, <1>4

\* The version that an eager writer clones is current when its CAS succeeds
\* (Descriptor_rstm.h:1428-1446).
LEMMA AcquireKept ==
  ASSUME Inv, NEW t \in Threads, Acquire(t)
  PROVE  Kept
<1>1. pc[t] = "acquire"
  BY DEF Acquire
<1>2. LocalOK(t) /\ SnapOK(t)
  BY ThreadFacts
<1>o. PICK o \in Objects, v \in Versions : o = loc[t].obj /\ v = loc[t].newer
  BY <1>1, <1>2, Types DEF LocalOK, Locals
<1>p. txState' = txState /\ committed' = committed
  BY DEF Acquire, history
<1>3. CASE Swaps(o, loc[t].snap)
  <2>1. header[o] = loc[t].snap
    BY <1>3 DEF Swaps
  <2>2. PICK new \in Versions, e \in Entry : IsNewEntry(t, o, v, TRUE, new, e)
    BY <1>1, NewEntry
  <2>3. new = NewVersion(t, o) /\ OwnerOf(new) = t
    BY <2>2 DEF IsNewEntry, OwnerOf
  <2>4. header' = [header EXCEPT ![o] = Owned(new)] /\ next' = [next EXCEPT ![o][new] = v]
    BY <1>3, <1>o, <2>3 DEF Acquire, Cloned
  <2>5. IsUpdate(next', next, o, new, v) /\ v \in AnyVersion
    BY <2>4 DEF IsUpdate, AnyVersion
  <2>6. Current(o) = v
    BY <1>1, <1>2, <1>o, <2>1 DEF LocalOK, SnapOK, Current
  <2>7. txState[t] # "COMMITTED"
    BY <1>1, <1>2 DEF LocalOK
  <2>8. header'[o] = Owned(new)
    BY <2>4, Types
  <2>9. next'[o][new] = v
    <3>1. next \in [Objects -> [Versions -> AnyVersion]]
      BY Types
    <3>2. QED
      BY <2>5, <3>1, NextUpdate
  <2>10. Current(o)' = v
    BY <1>p, <2>3, <2>7, <2>8, <2>9 DEF Current, Owned
  <2>11. QED
    BY <1>p, <2>4, <2>5, <2>6, <2>10, HeaderKept
<1>4. CASE ~Swaps(o, loc[t].snap)
  <2>1. UNCHANGED memory
    BY <1>4, <1>o DEF Acquire, memory
  <2>2. QED
    BY <1>p, <2>1, QuietKept
<1>5. QED
  BY <1>3, <1>4

\* So is the version that a lazy writer cloned long before
\* (Descriptor_rstm.h:879-895).
LEMMA AcquireLazilyKept ==
  ASSUME Inv, NEW t \in Threads, AcquireLazily(t)
  PROVE  Kept
<1>1. pc[t] = "acquireLazily"
  BY DEF AcquireLazily
<1>2. LocalOK(t)
  BY ThreadFacts
<1>s. PICK s \in Seq(Entry) : s = writes[t]
  BY Types
<1>l. PICK left : left = {i \in DOMAIN s : ~s[i].acquired}
  OBVIOUS
<1>i. PICK i : i = CHOOSE k \in left : \A m \in left : k <= m
  OBVIOUS
<1>3. CASE left = {}
  <2>1. UNCHANGED memory /\ UNCHANGED history
    BY <1>3, <1>l, <1>s DEF AcquireLazily
  <2>2. QED
    BY <2>1, QuietKept DEF history
<1>4. CASE left # {}
  <2>i. i \in left
    <3>1. left \subseteq Nat
      BY <1>l
    <3>2. \E k \in left : \A m \in left : k <= m
      BY <1>4, <3>1, NatLeast
    <3>3. QED
      BY <1>i, <3>2
  <2>w. PICK w \in Entry : w = s[i] /\ w \in Elements(writes[t])
    BY <2>i, <1>l, <1>s DEF Elements
  <2>o. PICK o \in Objects, old \in Versions, new \in Versions :
          /\ o = w.obj /\ old = w.old /\ new = w.new /\ OwnerOf(new) = t
    BY <2>w, EntryFacts
  <2>1. CASE ~Swaps(w.obj, Unowned(w.old))
    <3>1. Abort(t)
      BY <1>4, <1>l, <1>i, <1>s, <2>w, <2>1 DEF AcquireLazily
    <3>2. QED
      BY <1>1, <3>1, AbortKept
  <2>2. CASE Swaps(w.obj, Unowned(w.old))
    <3>1. /\ header' = [header EXCEPT ![w.obj] = Owned(w.new)]
          /\ next' = [next EXCEPT ![w.obj][w.new] = w.old]
          /\ UNCHANGED <<txState, history>>
      BY <1>4, <1>l, <1>i, <1>s, <2>w, <2>2 DEF AcquireLazily
    <3>2. /\ header' = [header EXCEPT ![o] = Owned(new)] /\ IsUpdate(next', next, o, new, old)
          /\ txState' = txState /\ committed' = committed /\ old \in AnyVersion
      BY <2>o, <3>1 DEF IsUpdate, history, AnyVersion
    <3>3. Current(o) = old
      BY <2>2, <2>o DEF Swaps, Current, Unowned
    <3>4. txState[t] # "COMMITTED"
      BY <1>1, <1>2 DEF LocalOK
    <3>5. header'[o] = Owned(new)
      BY <3>2, Types
    <3>6. next'[o][new] = old
      <4>1. next \in [Objects -> [Versions -> AnyVersion]]
        BY Types
      <4>2. QED
        BY <3>2, <4>1, NextUpdate
    <3>7. Current(o)' = old
      BY <2>o, <3>2, <3>4, <3>5, <3>6 DEF Current, Owned
    <3>8. QED
      BY <3>2, <3>3, <3>7, HeaderKept
  <2>3. QED
    BY <2>1, <2>2
<1>5. QED
  BY <1>3, <1>4

\* An owned header whose version thread t made leads to an entry of t, the one
\* entry that has this version.
LEMMA OwnEntry ==
  ASSUME Inv, NEW t \in Threads, NEW w \in Elements(writes[t]), header[w.obj] = Owned(w.new)
  PROVE  next[w.obj][w.new] = w.old
<1>1. w.obj \in Objects /\ OwnerOf(w.new) = t
  BY EntryFacts
<1>2. header[w.obj].owned /\ header[w.obj].ver = w.new
  BY DEF Owned
<1>3. PICK x \in Elements(writes[t]) : x.obj = w.obj /\ x.new = w.new /\ x.old = next[w.obj][w.new]
  BY <1>1, <1>2, OwnedFacts
<1>4. PICK i \in DOMAIN writes[t], k \in DOMAIN writes[t] : w = writes[t][i] /\ x = writes[t][k]
  BY DEF Elements
<1>5. i = k
  BY <1>3, <1>4, ThreadFacts DEF WritesOK
<1>6. QED
  BY <1>3, <1>4, <1>5

\* A header is restored to the version that is current
\* (Descriptor_rstm.h:899-942).
LEMMA RestoreKept ==
  ASSUME Inv, NEW t \in Threads, RestoreHeader(t)
  PROVE  Kept
<1>r. PICK w \in Elements(writes[t]) : w = Head(writes[t])
  <2>1. PICK s \in Seq(Entry) : s = writes[t] /\ s # <<>>
    BY Types DEF RestoreHeader
  <2>2. QED
    BY <2>1, ElementsTail
<1>w. w.obj \in Objects /\ w.old \in Versions /\ w.new \in Versions /\ OwnerOf(w.new) = t
  BY EntryFacts
<1>k. PICK keeps \in Versions : keeps = IF txState[t] = "COMMITTED" THEN w.new ELSE w.old
  BY <1>w
<1>1. /\ header' = [header EXCEPT ![w.obj] = IF Restores(t, w) THEN Unowned(keeps) ELSE @]
      /\ next' = [next EXCEPT ![w.obj][w.new] =
                        IF Restores(t, w) /\ txState[t] = "COMMITTED" THEN NullVersion ELSE @]
      /\ txState' = txState /\ committed' = committed
  BY <1>r, <1>k DEF RestoreHeader, history
<1>x. PICK x \in AnyVersion :
        x = IF Restores(t, w) /\ txState[t] = "COMMITTED" THEN NullVersion ELSE next[w.obj][w.new]
  BY <1>w, Types DEF AnyVersion
<1>2. IsUpdate(next', next, w.obj, w.new, x)
  BY <1>1, <1>x DEF IsUpdate
<1>3. next'[w.obj][w.new] = x /\ (x = next[w.obj][w.new] => next' = next)
  <2>1. next \in [Objects -> [Versions -> AnyVersion]]
    BY Types
  <2>2. QED
    BY <1>w, <1>2, <2>1, NextUpdate
<1>4. CASE Restores(t, w)
  <2>1. header[w.obj] = Owned(w.new)
    BY <1>4 DEF Restores, Swaps
  <2>2. header' = [header EXCEPT ![w.obj] = Unowned(keeps)]
    BY <1>1, <1>4
  <2>3. Current(w.obj) = keeps
    <3>1. next[w.obj][w.new] = w.old
      BY <2>1, OwnEntry
    <3>2. QED
      BY <1>k, <1>w, <2>1, <3>1 DEF Current, Owned
  <2>4. Current(w.obj)' = keeps
    BY <1>w, <2>2, Types DEF Current, Unowned
  <2>5. QED
    BY <1>1, <1>2, <1>w, <2>2, <2>3, <2>4, HeaderKept
<1>5. CASE ~Restores(t, w)
  <2>1. header' = header
    BY <1>1, <1>5, <1>w, Types
  <2>2. next' = next
    BY <1>3, <1>x, <1>5
  <2>3. QED
    BY <1>1, <2>1, <2>2 DEF Kept, Current
<1>6. QED
  BY <1>4, <1>5

-------------------------------------------------------------------------------
(* Rstm implements TxMemory.                                                 *)

\* The contents of all objects, and the transactions that have committed.
Mem == [o \in Objects |-> Current(o)]
Log == {[tx |-> c.tx, writes |-> c.writes] : c \in committed}

\* The commit of a transaction by its CAS of tx_state.
CommitsNow(t) ==
  /\ pc[t] = "cas" /\ Commits(t)
  /\ txState' = [txState EXCEPT ![t] = "COMMITTED"]
  /\ committed' = committed \cup
       {[tx |-> Tx(t), reads |-> seen[t], after |-> began[t],
         writes |-> {<<w.obj, w.old>> : w \in Elements(writes[t])}]}
  /\ header' = header /\ next' = next

\* No statement but that CAS changes the contents of an object.
LEMMA ThreadKept ==
  ASSUME Inv, NEW t \in Threads, Thread(t)
  PROVE  Kept \/ CommitsNow(t)
<1> USE QuietKept DEF memory, lists, history
<1>1. CASE Begin(t) \/ KillOwner(t) \/ KillReader(t)
  BY <1>1, BeginKept, KillOwnerKept, KillReaderKept
<1>2. CASE \E o \in Objects, kind \in {"RO", "RW"} : Open(t, o, kind)
  BY <1>2, AbortKept DEF Open
<1>3. CASE Contend(t)
  BY <1>3, AbortKept DEF Contend
<1>4. CASE Load(t) \/ Look(t) \/ Recheck(t) \/ GiveWay(t) \/ Commit(t)
  BY <1>4 DEF Load, Look, Recheck, GiveWay, Commit
<1>5. CASE CleanAbort(t) \/ CleanCommit(t) \/ Acquire(t) \/ AcquireLazily(t) \/ RestoreHeader(t)
  BY <1>5, CleanKept, AcquireKept, AcquireLazilyKept, RestoreKept
<1>6. CASE InstallVisibleReader(t) \/ RemoveVisibleReader(t)
  <2>1. header' = header /\ next' = next /\ txState' = txState /\ committed' = committed
    BY <1>6 DEF InstallVisibleReader, RemoveVisibleReader
  <2>2. QED
    BY <2>1 DEF Kept, Current
<1>7. CASE CheckHeader(t) \/ Validate(t) \/ Opened(t)
  BY <1>7, AbortKept DEF CheckHeader, Validate, Opened
<1>8. CASE InsertInvisRead(t) \/ CloneLazily(t) \/ SnapReaders(t) \/ VerifyInvisReads(t)
  BY <1>8 DEF InsertInvisRead, CloneLazily, SnapReaders, VerifyInvisReads
<1>9. CASE YieldToReaders(t)
  BY <1>9, AbortKept DEF YieldToReaders
<1>10. CASE EndTransaction(t)
  BY <1>10 DEF EndTransaction
<1>11. CASE CommitCas(t)
  <2>1. CASE Commits(t)
    BY <1>11, <2>1 DEF CommitCas, CommitsNow
  <2>2. CASE ~Commits(t)
    <3>1. header' = header /\ next' = next /\ txState' = txState /\ committed' = committed
      BY <1>11, <2>2 DEF CommitCas
    <3>2. QED
      BY <3>1 DEF Kept, Current
  <2>3. QED
    BY <2>1, <2>2
<1>12. QED
  BY <1>1, <1>2, <1>3, <1>4, <1>5, <1>6, <1>7, <1>8, <1>9, <1>10, <1>11 DEF Thread

\* What a transaction that commits has written: it owns each object once, by a
\* version that is the first it made of it, and that was cloned from the version
\* that is current.
LEMMA Written ==
  ASSUME Inv, NEW t \in Threads, pc[t] = "cas", Commits(t)
  PROVE  /\ \A w \in Elements(writes[t]) :
              /\ w.obj \in Objects /\ w.new = Tx(t)
              /\ header[w.obj] = Owned(w.new) /\ Current(w.obj) = w.old
         /\ \A o \in Objects : header[o].owned /\ OwnerOf(header[o].ver) = t =>
              \E w \in Elements(writes[t]) : w.obj = o
         /\ Tx(t) \in Versions
         /\ \A c \in committed : c.tx # Tx(t)
<1>1. LocalOK(t) /\ WritesOK(t)
  BY ThreadFacts
<1>2. txState[t] = "ACTIVE" /\ ~Killed(t) /\ EndsCommit(t)
  BY DEF Commits, Killed, EndsCommit
<1>3. ASSUME NEW w \in Elements(writes[t])
      PROVE  /\ w.obj \in Objects /\ w.new = Tx(t)
             /\ header[w.obj] = Owned(w.new) /\ Current(w.obj) = w.old
  <2>1. w.obj \in Objects /\ w.new = <<t, attempt[t], w.new[3]>> /\ w.new[3] \in 1 .. 2
        /\ OwnerOf(w.new) = t
    BY EntryFacts
  <2>2. w.new[3] # 2
    BY <1>1, <1>2 DEF WritesOK
  <2>3. w.new = Tx(t)
    BY <2>1, <2>2 DEF Tx
  <2>4. header[w.obj] = Owned(w.new)
    BY <1>1, <1>2 DEF WritesOK
  <2>5. next[w.obj][w.new] = w.old
    BY <2>4, OwnEntry
  <2>6. Current(w.obj) = w.old
    BY <1>2, <2>1, <2>4, <2>5 DEF Current, Owned
  <2>7. QED
    BY <2>1, <2>3, <2>4, <2>6
<1>4. ASSUME NEW o \in Objects, header[o].owned, OwnerOf(header[o].ver) = t
      PROVE  \E w \in Elements(writes[t]) : w.obj = o
  BY <1>4, OwnedFacts
<1>5. Tx(t) \in Versions
  <2>1. attempt[t] \in 1 .. MaxAttempts
    BY <1>1, Types, BoundAssumption DEF LocalOK
  <2>2. QED
    BY <2>1 DEF Tx, Versions
<1>6. ASSUME NEW c \in committed PROVE c.tx # Tx(t)
  <2>1. PICK u \in Threads :
          /\ c.tx = <<u, c.tx[2], 1>>
          /\ c.tx[2] = attempt[u] => pc[u] \in {"restore", "idle"}
    BY DEF Inv, CommittedOK
  <2>2. c.tx = Tx(t) => u = t /\ c.tx[2] = attempt[t]
    BY <2>1 DEF Tx
  <2>3. QED
    BY <2>1, <2>2
<1>7. QED
  BY <1>3, <1>4, <1>5, <1>6

\* The CAS is a commit of TxMemory.
LEMMA CommitIsAtomic ==
  ASSUME Inv, NEW t \in Threads, CommitsNow(t),
         NEW written, written = {w.obj : w \in Elements(writes[t])}
  PROVE  Memory!Commit(Tx(t), written)
<1>1. /\ pc[t] = "cas" /\ Commits(t) /\ header' = header /\ next' = next
      /\ txState' = [txState EXCEPT ![t] = "COMMITTED"]
      /\ committed' = committed \cup
           {[tx |-> Tx(t), reads |-> seen[t], after |-> began[t],
             writes |-> {<<w.obj, w.old>> : w \in Elements(writes[t])}]}
  BY DEF CommitsNow
<1>2. txState \in [Threads -> States]
  BY Types
<1>s. \A o : o \in written <=> \E w \in Elements(writes[t]) : w.obj = o
  OBVIOUS
<1>3. \A o \in written : o \in Objects /\ header[o] = Owned(Tx(t))
  BY <1>1, <1>s, Written
<1>4. {<<w.obj, w.old>> : w \in Elements(writes[t])} = {<<o, Current(o)>> : o \in written}
  <2>1. \A w \in Elements(writes[t]) : w.obj \in written /\ Current(w.obj) = w.old
    BY <1>1, <1>s, Written
  <2>2. \A o \in written : \E w \in Elements(writes[t]) : w.obj = o /\ w.old = Current(o)
    BY <1>s, <2>1
  <2>3. QED
    BY <2>1, <2>2
<1>5. ASSUME NEW o \in Objects
      PROVE  Current(o)' = IF o \in written THEN Tx(t) ELSE Current(o)
  <2>1. CASE o \in written
    <3>1. header'[o] = Owned(Tx(t)) /\ OwnerOf(Tx(t)) = t /\ txState'[t] = "COMMITTED"
      BY <1>1, <1>2, <1>3, <2>1 DEF OwnerOf, Tx
    <3>2. QED
      BY <2>1, <3>1 DEF Current, Owned
  <2>2. CASE o \notin written
    <3>1. header[o].owned => OwnerOf(header[o].ver) # t
      BY <1>1, <1>s, <2>2, Written
    <3>2. header[o].owned => txState'[OwnerOf(header[o].ver)] = txState[OwnerOf(header[o].ver)]
      BY <1>1, <1>2, <3>1
    <3>3. QED
      BY <1>1, <2>2, <3>2, CurrentFrame
  <2>3. QED
    BY <2>1, <2>2
<1>6. Mem' = [o \in Objects |-> IF o \in written THEN Tx(t) ELSE Mem[o]]
  BY <1>5 DEF Mem
<1>7. Log' = Log \cup {[tx |-> Tx(t), writes |-> {<<o, Mem[o]>> : o \in written}]}
  <2>1. {<<o, Mem[o]>> : o \in written} = {<<o, Current(o)>> : o \in written}
    BY <1>3 DEF Mem
  <2>2. PICK c0 : c0 = [tx |-> Tx(t), reads |-> seen[t], after |-> began[t],
                        writes |-> {<<w.obj, w.old>> : w \in Elements(writes[t])}]
    OBVIOUS
  <2>3. c0.tx = Tx(t) /\ c0.writes = {<<o, Mem[o]>> : o \in written}
    BY <1>4, <2>1, <2>2
  <2>4. committed' = committed \cup {c0}
    BY <1>1, <2>2
  <2>5. QED
    BY <2>3, <2>4 DEF Log
<1>8. \A entry \in Log : entry.tx # Tx(t)
  BY <1>1, Written DEF Log
<1>9. QED
  BY <1>6, <1>7, <1>8 DEF Memory!Commit, Mem, Log

\* For any number of threads, objects and attempts, Rstm implements TxMemory: the
\* CAS of tx_state replaces all objects that a transaction wrote at once, each by
\* a version made from the one it replaces, so that no update is lost; and no
\* other step of anybody - acquiring, killing, cleaning up after others,
\* restoring - changes the contents of an object (Descriptor_rstm.h:743-807,
\* 897-1028, 1267-1457).
THEOREM TransactionsAreAtomic == Spec => ImplementsTxMemory
<1>1. Init => Memory!Init
  <2>1. ASSUME Init, NEW o \in Objects PROVE Current(o) = Initial
    BY <2>1 DEF Init, Current, Unowned
  <2>2. ASSUME Init PROVE Log = {}
    BY <2>2 DEF Init, Log
  <2>3. QED
    BY <2>1, <2>2 DEF Memory!Init, Log
<1>2. Inv /\ [Next]_vars => [Memory!Next]_<<Mem, Log>>
  <2>1. ASSUME Inv, NEW t \in Threads, Kept PROVE UNCHANGED <<Mem, Log>>
    BY <2>1 DEF Kept, Mem, Log
  <2>2. ASSUME Inv, NEW t \in Threads, CommitsNow(t) PROVE Memory!Next
    <3>w. PICK written : written = {w.obj : w \in Elements(writes[t])}
      OBVIOUS
    <3>1. Memory!Commit(Tx(t), written)
      BY <2>2, <3>w, CommitIsAtomic
    <3>2. Tx(t) \in Versions /\ written \in SUBSET Objects
      BY <2>2, <3>w, Written DEF CommitsNow
    <3>3. QED
      BY <3>1, <3>2 DEF Memory!Next
  <2>3. ASSUME UNCHANGED vars PROVE UNCHANGED <<Mem, Log>>
    BY <2>3 DEF vars, memory, history, Mem, Log, Current
  <2>4. QED
    BY <2>1, <2>2, <2>3, ThreadKept DEF Next
<1>3. QED
  BY <1>1, <1>2, InvHolds, PTL DEF Spec, ImplementsTxMemory, Memory!Spec, Mem, Log

-------------------------------------------------------------------------------
(* Visible reads: what a thread relies on.                                   *)

\* Version v of object o is still what thread t read: nobody has acquired the
\* object since, or t has, or another has who has yet to kill t. In all of these,
\* v is current, which makes it stable.
Protected(t, o, v) ==
  LET h == header[o]
      w == OwnerOf(h.ver)
  IN  \/ h = Unowned(v)
      \/ /\ h.owned /\ next[o][h.ver] = v
         /\ \/ w = t
            \/ loc[w].obj = o /\ pc[w] = "snapReaders"
            \/ loc[w].obj = o /\ pc[w] = "killReaders" /\ t \in loc[w].pending

\* The open has validated what it read, or is about to.
EndsRead(t) == pc[t] = "opened" \/ (pc[t] = "validate" /\ loc[t].then = "opened")

\* Thread t relies on version v of object o, of which it is a visible reader.
Held(t, o, v) ==
  /\ o \in visReads[t]
  /\ \/ <<o, v>> \in seen[t]
     \/ /\ o = loc[t].obj /\ v = loc[t].newer
        /\ pc[t] = "clone" \/ (EndsRead(t) /\ (loc[t].kind = "RO" \/ mode[t].isLazy))

\* What an active transaction relies on is protected.
HeldOK(t) ==
  txState[t] = "ACTIVE" => \A o \in Objects, v \in Versions : Held(t, o, v) => Protected(t, o, v)

\* The lists of a visible reader agree with what its opens returned.
SeenOK(t) ==
  LET l == loc[t]
      entries == Elements(writes[t])
  IN
  /\ pc[t] = "idle" => seen[t] = {}
  /\ mode[t].isVisible /\ pc[t] \notin {"idle", "restore"} =>
       \A o \in visReads[t] :
         \/ \E v \in Versions : <<o, v>> \in seen[t]
         \/ o = l.obj /\ l.kind = "RO" /\ (pc[t] = "check" \/ EndsRead(t))
  /\ mode[t].isVisible /\ l.kind = "RO" /\ (pc[t] = "check" \/ EndsRead(t)) => l.obj \in visReads[t]
  /\ ~mode[t].isLazy /\ pc[t] \in {"snapReaders", "killReaders"} => l.kind = "RW"
  /\ mode[t].isLazy /\ pc[t] = "install" => \A w \in entries : w.obj # l.obj
  /\ mode[t].isLazy /\ l.kind = "RW" /\ EndsRead(t) =>
       \E w \in entries : w.obj = l.obj /\ w.old = l.newer
  /\ mode[t].isVisible /\ pc[t] \notin {"idle", "restore"} =>
       \A o \in Objects, v \in Versions : <<o, v>> \in seen[t] =>
         \/ o \in visReads[t]
         \/ \E w \in entries : w.obj = o /\ w.old = v

-------------------------------------------------------------------------------
(* A step of another thread.                                                 *)

\* A change of the value of thread u alone.
Alone(g, f, u) == \A t \in Threads \ {u} : g[t] = f[t]

\* No step of a thread changes the control, the locals or the lists of another.
LEMMA OwnState ==
  ASSUME Inv, NEW u \in Threads, Thread(u)
  PROVE  /\ Alone(pc', pc, u) /\ Alone(loc', loc, u) /\ Alone(seen', seen, u)
         /\ Alone(visReads', visReads, u) /\ Alone(writes', writes, u)
         /\ mode' = mode
<1>t. /\ pc \in [Threads -> Labels] /\ loc \in [Threads -> Locals] /\ seen \in [Threads -> SUBSET Pair]
      /\ visReads \in [Threads -> SUBSET Objects] /\ writes \in [Threads -> Seq(Entry)]
  BY Types
<1> USE <1>t DEF Alone, GoTo, Abort, Validating, ChooseOlder, memory, self, lists, history
<1>1. CASE Begin(u) \/ KillOwner(u)
  BY <1>1 DEF Begin, KillOwner
<1>2. CASE \E o \in Objects, kind \in {"RO", "RW"} : Open(u, o, kind)
  BY <1>2 DEF Open
<1>3. CASE Contend(u) \/ Load(u) \/ Look(u) \/ GiveWay(u)
  BY <1>3 DEF Contend, Load, Look, GiveWay
<1>a. CASE Commit(u)
  BY <1>a DEF Commit
<1>b. CASE Recheck(u)
  <2>0. loc[u].state \in {"ACTIVE", "ABORTED", "COMMITTED"}
    BY Types DEF Locals, States
  <2>1. /\ \E label : pc' = [pc EXCEPT ![u] = label]
        /\ loc' = loc \/ \E l : loc' = [loc EXCEPT ![u] = l]
        /\ UNCHANGED <<self, lists, history>>
    BY <1>b, <2>0 DEF Recheck
  <2>2. QED
    BY <2>1
<1>4. CASE CleanAbort(u) \/ CleanCommit(u) \/ RestoreHeader(u)
  BY <1>4 DEF CleanAbort, CleanCommit, RestoreHeader
<1>5. CASE Acquire(u) \/ YieldToReaders(u)
  BY <1>5 DEF Acquire, YieldToReaders
<1>6. CASE AcquireLazily(u)
  BY <1>6 DEF AcquireLazily
<1>7. CASE InstallVisibleReader(u) \/ RemoveVisibleReader(u) \/ CheckHeader(u) \/ Validate(u) \/ Opened(u)
  BY <1>7 DEF InstallVisibleReader, RemoveVisibleReader, CheckHeader, Validate, Opened
<1>8. CASE InsertInvisRead(u) \/ CloneLazily(u) \/ VerifyInvisReads(u) \/ EndTransaction(u) \/ CommitCas(u)
  BY <1>8 DEF InsertInvisRead, CloneLazily, VerifyInvisReads, EndTransaction, CommitCas
<1>9. CASE SnapReaders(u) \/ KillReader(u)
  BY <1>9 DEF SnapReaders, KillReader, KillingReaders
<1>10. QED
  BY <1>1, <1>2, <1>3, <1>4, <1>5, <1>6, <1>7, <1>8, <1>9, <1>a, <1>b DEF Thread

\* What a step of thread u does to the header of object o: nothing, it cleans it,
\* or it acquires the object and goes on to its readers.
HeaderChanged(u, o) ==
  \/ header'[o] = header[o]
  \/ \E v : header'[o] = Unowned(v)
  \/ /\ \E v : header'[o] = Owned(v) /\ OwnerOf(v) = u
     /\ pc'[u] = "snapReaders" /\ loc'[u].obj = o

\* Every step does one of these.
LEMMA HeaderChange ==
  ASSUME Inv, NEW u \in Threads, Thread(u), NEW o \in Objects
  PROVE  HeaderChanged(u, o)
<1>t. header \in [Objects -> Header] /\ pc \in [Threads -> Labels] /\ loc \in [Threads -> Locals]
  BY Types
<1>1. CASE Acquire(u)
  <2>1. CASE Swaps(loc[u].obj, loc[u].snap)
    <3>n. PICK k : NewVersion(u, loc[u].obj) = <<u, attempt[u], k>>
      BY DEF NewVersion
    <3>1. PICK new : new = NewVersion(u, loc[u].obj) /\ OwnerOf(new) = u
      BY <3>n DEF OwnerOf
    <3>2. header' = [header EXCEPT ![loc[u].obj] = Owned(new)] /\ pc'[u] = "snapReaders" /\ loc' = loc
      BY <1>1, <1>t, <2>1, <3>1 DEF Acquire, GoTo
    <3>3. header'[o] = header[o] \/ (o = loc[u].obj /\ header'[o] = Owned(new))
      BY <1>t, <3>2
    <3>4. QED
      BY <3>1, <3>2, <3>3 DEF HeaderChanged
  <2>2. CASE ~Swaps(loc[u].obj, loc[u].snap)
    BY <1>1, <2>2 DEF Acquire, HeaderChanged
  <2>3. QED
    BY <2>1, <2>2
<1>2. CASE AcquireLazily(u)
  <2>s. PICK s \in Seq(Entry) : s = writes[u]
    BY Types
  <2>l. PICK left : left = {i \in DOMAIN s : ~s[i].acquired}
    OBVIOUS
  <2>i. PICK i : i = CHOOSE k \in left : \A m \in left : k <= m
    OBVIOUS
  <2>1. CASE left = {}
    BY <1>2, <2>l, <2>s, <2>1 DEF AcquireLazily, memory, HeaderChanged
  <2>2. CASE left # {}
    <3>i. i \in left
      <4>1. left \subseteq Nat
        BY <2>l
      <4>2. \E k \in left : \A m \in left : k <= m
        BY <2>2, <4>1, NatLeast
      <4>3. QED
        BY <2>i, <4>2
    <3>w. PICK w \in Entry : w = s[i] /\ w \in Elements(writes[u])
      BY <3>i, <2>l, <2>s DEF Elements
    <3>1. CASE ~Swaps(w.obj, Unowned(w.old))
      <4>1. Abort(u)
        BY <1>2, <2>l, <2>i, <2>s, <2>2, <3>w, <3>1 DEF AcquireLazily
      <4>2. QED
        BY <4>1 DEF Abort, HeaderChanged
    <3>2. CASE Swaps(w.obj, Unowned(w.old))
      <4>1. /\ header' = [header EXCEPT ![w.obj] = Owned(w.new)]
            /\ loc' = [loc EXCEPT ![u].obj = w.obj] /\ GoTo(u, "snapReaders")
        BY <1>2, <2>l, <2>i, <2>s, <2>2, <3>w, <3>2 DEF AcquireLazily
      <4>2. header'[o] = header[o] \/ (o = w.obj /\ header'[o] = Owned(w.new))
        BY <1>t, <4>1
      <4>3. loc'[u].obj = w.obj /\ pc'[u] = "snapReaders"
        BY <1>t, <4>1 DEF GoTo, Locals
      <4>4. OwnerOf(w.new) = u
        BY <3>w, EntryFacts
      <4>5. QED
        BY <4>2, <4>3, <4>4 DEF HeaderChanged
    <3>3. QED
      BY <3>1, <3>2
  <2>3. QED
    BY <2>1, <2>2
<1>3. CASE CleanAbort(u) \/ CleanCommit(u)
  <2>1. PICK p, v : header' = [header EXCEPT ![p] = v] /\ (v = header[p] \/ \E x : v = Unowned(x))
    BY <1>3, <1>t DEF CleanAbort, CleanCommit
  <2>2. header'[o] = header[o] \/ header'[o] = v
    BY <1>t, <2>1
  <2>3. QED
    BY <1>t, <2>1, <2>2 DEF HeaderChanged
<1>4. CASE RestoreHeader(u)
  <2>1. PICK p, v : header' = [header EXCEPT ![p] = v] /\ (v = header[p] \/ \E x : v = Unowned(x))
    BY <1>4, <1>t DEF RestoreHeader
  <2>2. header'[o] = header[o] \/ header'[o] = v
    BY <1>t, <2>1
  <2>3. QED
    BY <1>t, <2>1, <2>2 DEF HeaderChanged
<1>5. ASSUME header' = header PROVE HeaderChanged(u, o)
  BY <1>5 DEF HeaderChanged
<1> USE <1>5 DEF memory, Abort
<1>6. CASE Begin(u) \/ KillOwner(u) \/ KillReader(u) \/ Contend(u) \/ Load(u) \/ Look(u) \/ Recheck(u) \/ GiveWay(u)
  BY <1>6 DEF Begin, KillOwner, KillReader, Contend, Load, Look, Recheck, GiveWay
<1>7. CASE \E p \in Objects, kind \in {"RO", "RW"} : Open(u, p, kind)
  BY <1>7 DEF Open
<1>8. CASE Commit(u) \/ YieldToReaders(u) \/ InstallVisibleReader(u) \/ RemoveVisibleReader(u) \/ CheckHeader(u)
  BY <1>8 DEF Commit, YieldToReaders, InstallVisibleReader, RemoveVisibleReader, CheckHeader
<1>9. CASE Validate(u) \/ Opened(u) \/ InsertInvisRead(u) \/ CloneLazily(u) \/ VerifyInvisReads(u)
  BY <1>9 DEF Validate, Opened, InsertInvisRead, CloneLazily, VerifyInvisReads
<1>10. CASE EndTransaction(u) \/ CommitCas(u) \/ SnapReaders(u)
  BY <1>10 DEF EndTransaction, CommitCas, SnapReaders
<1>11. QED
  BY <1>1, <1>2, <1>3, <1>4, <1>6, <1>7, <1>8, <1>9, <1>10 DEF Thread

\* A change of tx_state that makes no transaction active.
StateChanged ==
  \/ txState' = txState
  \/ \E r : txState' = [txState EXCEPT ![r] = "ABORTED"]
  \/ \E r : txState' = [txState EXCEPT ![r] = "COMMITTED"]
  \/ \E r : txState' = [txState EXCEPT ![r] = IF @ = "ACTIVE" THEN "ABORTED" ELSE @]

\* Only the step of thread t that begins a transaction makes it active.
LEMMA StateChange ==
  ASSUME Inv, NEW u \in Threads, Thread(u), NEW t \in Threads, txState'[t] = "ACTIVE"
  PROVE  txState[t] = "ACTIVE" \/ (u = t /\ pc[t] = "idle")
<1>t. txState \in [Threads -> States]
  BY Types
<1>a. txState' = txState => StateChanged
  BY DEF StateChanged
<1>b. Abort(u) => StateChanged
  BY DEF Abort, StateChanged
<1> USE <1>a, <1>b DEF memory
<1>1. CASE Begin(u)
  BY <1>1, <1>t DEF Begin
<1>2. ASSUME ~Begin(u) PROVE StateChanged
  <2>2. CASE KillOwner(u) \/ KillReader(u)
    BY <2>2 DEF KillOwner, KillReader, StateChanged
  <2>3. CASE Contend(u) \/ Load(u) \/ Look(u) \/ Recheck(u) \/ GiveWay(u)
    BY <2>3 DEF Contend, Load, Look, Recheck, GiveWay
  <2>4. CASE \E p \in Objects, kind \in {"RO", "RW"} : Open(u, p, kind)
    BY <2>4 DEF Open
  <2>6. CASE Commit(u) \/ YieldToReaders(u) \/ InstallVisibleReader(u) \/ RemoveVisibleReader(u) \/ CheckHeader(u)
    BY <2>6 DEF Commit, YieldToReaders, InstallVisibleReader, RemoveVisibleReader, CheckHeader
  <2>7. CASE Validate(u) \/ Opened(u) \/ InsertInvisRead(u) \/ CloneLazily(u) \/ VerifyInvisReads(u)
    BY <2>7 DEF Validate, Opened, InsertInvisRead, CloneLazily, VerifyInvisReads
  <2>8. CASE EndTransaction(u) \/ SnapReaders(u) \/ Acquire(u) \/ AcquireLazily(u)
    BY <2>8 DEF EndTransaction, SnapReaders, Acquire, AcquireLazily
  <2>9. CASE CommitCas(u)
    BY <2>9 DEF CommitCas, StateChanged
  <2>10. CASE CleanAbort(u) \/ CleanCommit(u) \/ RestoreHeader(u)
    BY <2>10 DEF CleanAbort, CleanCommit, RestoreHeader
  <2>11. QED
    BY <1>2, <2>2, <2>3, <2>4, <2>6, <2>7, <2>8, <2>9, <2>10 DEF Thread
<1>3. StateChanged => txState[t] = "ACTIVE"
  BY <1>t DEF StateChanged
<1>4. QED
  BY <1>1, <1>2, <1>3

\* An owner that goes through the readers of its object kills each in turn
\* (Descriptor_rstm.h:1069-1090).
LEMMA ReadersStep ==
  ASSUME Inv, NEW w \in Threads, Thread(w), NEW t \in Threads \ {w}, NEW o \in Objects, o = loc[w].obj,
         t \in readers[o], pc[w] = "snapReaders" \/ (pc[w] = "killReaders" /\ t \in loc[w].pending)
  PROVE  \/ txState'[t] # "ACTIVE"
         \/ loc'[w].obj = o /\ pc'[w] = "killReaders" /\ t \in loc'[w].pending
<1>t. pc \in [Threads -> Labels] /\ loc \in [Threads -> Locals] /\ txState \in [Threads -> States]
  BY Types
<1>1. ASSUME NEW victims, t \in victims, KillingReaders(w, victims)
      PROVE  loc'[w].obj = o /\ pc'[w] = "killReaders" /\ t \in loc'[w].pending
  <2>1. loc' = [loc EXCEPT ![w].pending = victims] /\ GoTo(w, "killReaders")
    BY <1>1 DEF KillingReaders
  <2>2. QED
    BY <1>1, <1>t, <2>1 DEF GoTo, Locals
<1>2. SnapReaders(w) \/ KillReader(w)
  BY DEF Thread, Begin, Open, Contend, Load, Look, Recheck, GiveWay, KillOwner, CleanAbort, CleanCommit,
         InstallVisibleReader, CheckHeader, InsertInvisRead, Acquire, YieldToReaders, CloneLazily,
         Validate, Opened, Commit, AcquireLazily, VerifyInvisReads, CommitCas, RestoreHeader,
         RemoveVisibleReader, EndTransaction
<1>3. CASE SnapReaders(w)
  BY <1>1, <1>3 DEF SnapReaders, Victims
<1>4. CASE KillReader(w)
  <2>1. t \in loc[w].pending
    BY <1>4 DEF KillReader
  <2>2. PICK r \in loc[w].pending :
          /\ txState' = [txState EXCEPT ![r] = IF @ = "ACTIVE" THEN "ABORTED" ELSE @]
          /\ KillingReaders(w, loc[w].pending \ {r})
    BY <1>4 DEF KillReader
  <2>3. CASE r = t
    BY <1>t, <2>2, <2>3
  <2>4. CASE r # t
    BY <1>1, <2>1, <2>2, <2>4
  <2>5. QED
    BY <2>3, <2>4
<1>5. QED
  BY <1>2, <1>3, <1>4

\* What an active transaction has read stays protected under every step. No step
\* but a commit changes the contents of the object, and the owner cannot commit
\* before it has killed the readers.
LEMMA ProtectedStable ==
  ASSUME Inv, Inv', NEW u \in Threads, Thread(u), NEW t \in Threads, NEW o \in Objects, NEW v \in Versions,
         Protected(t, o, v), t \in readers[o], txState[t] = "ACTIVE", txState'[t] = "ACTIVE"
  PROVE  Protected(t, o, v)'
<1>t. header \in [Objects -> Header] /\ header' \in [Objects -> Header]
  BY Types DEF Inv, TypeInv, MemoryOK
<1>a. ASSUME NEW w \in Threads, pc'[w] \in {"snapReaders", "killReaders"}
      PROVE  txState'[w] # "COMMITTED"
  BY <1>a DEF Inv, ThreadInv, LocalOK
<1>b. ASSUME NEW w \in Threads, pc[w] \in {"snapReaders", "killReaders"}
      PROVE  txState[w] # "COMMITTED"
  BY <1>b, ThreadFacts DEF LocalOK
<1>w. PICK w : w = OwnerOf(header[o].ver) /\ (header[o].owned => w \in Threads)
  BY OwnedUsed
<1>1. Current(o) = v
  BY <1>b, <1>w DEF Protected, Current, Unowned
<1>2. Current(o)' = v
  <2>1. CASE Kept
    BY <1>1, <2>1 DEF Kept
  <2>2. CASE CommitsNow(u)
    <3>1. u # t /\ txState' = [txState EXCEPT ![u] = "COMMITTED"] /\ pc[u] = "cas" /\ header' = header /\ next' = next
      BY <2>2, Types DEF CommitsNow
    <3>2. header[o].owned => w # u
      BY <3>1, <1>w DEF Protected, Unowned
    <3>3. header[o].owned => txState'[w] = txState[w]
      BY <1>w, <3>1, <3>2, Types
    <3>4. QED
      BY <1>1, <1>w, <3>1, <3>3, CurrentFrame
  <2>3. QED
    BY <2>1, <2>2, ThreadKept
<1>3. HeaderChanged(u, o)
  BY HeaderChange
<1>4. CASE \E x : header'[o] = Unowned(x)
  <2>1. PICK x : header'[o] = Unowned(x)
    BY <1>4
  <2>2. x = v
    BY <1>2, <2>1 DEF Current, Unowned
  <2>3. QED
    BY <2>1, <2>2 DEF Protected
<1>5. CASE (\E x : header'[o] = Owned(x) /\ OwnerOf(x) = u) /\ pc'[u] = "snapReaders" /\ loc'[u].obj = o
  <2>1. PICK x : header'[o] = Owned(x) /\ OwnerOf(x) = u
    BY <1>5
  <2>2. next'[o][x] = v
    BY <1>2, <1>5, <1>a, <2>1 DEF Current, Owned
  <2>3. QED
    BY <1>5, <2>1, <2>2 DEF Protected, Owned
<1>6. CASE header'[o] = header[o]
  <2>1. CASE header[o] = Unowned(v)
    BY <1>6, <2>1 DEF Protected
  <2>2. CASE header[o] # Unowned(v)
    <3>1. header[o].owned /\ w \in Threads
      BY <1>w, <2>2 DEF Protected
    <3>2. CASE w = t
      <4>1. next'[o][header[o].ver] = v
        BY <1>2, <1>6, <1>w, <3>1, <3>2 DEF Current
      <4>2. QED
        BY <1>6, <1>w, <3>1, <3>2, <4>1 DEF Protected
    <3>3. CASE w # t
      <4>1. loc[w].obj = o /\ (pc[w] = "snapReaders" \/ (pc[w] = "killReaders" /\ t \in loc[w].pending))
        BY <1>w, <2>2, <3>3 DEF Protected
      <4>2. loc'[w].obj = o /\ (pc'[w] = "snapReaders" \/ (pc'[w] = "killReaders" /\ t \in loc'[w].pending))
        <5>1. CASE w = u
          BY <3>1, <3>3, <4>1, <5>1, ReadersStep
        <5>2. CASE w # u
          BY <3>1, <4>1, <5>2, OwnState DEF Alone
        <5>3. QED
          BY <5>1, <5>2
      <4>3. next'[o][header[o].ver] = v
        BY <1>2, <1>6, <1>w, <1>a, <3>1, <4>2 DEF Current
      <4>4. QED
        BY <1>6, <1>w, <3>1, <4>2, <4>3 DEF Protected
    <3>4. QED
      BY <3>2, <3>3
  <2>3. QED
    BY <2>1, <2>2
<1>7. QED
  BY <1>3, <1>4, <1>5, <1>6 DEF HeaderChanged

\* What thread t relies on for its visible reads.
ReadOK(t) == HeldOK(t) /\ SeenOK(t)

\* The step of another thread leaves what t relies on.
LEMMA OtherReads ==
  ASSUME Inv, Inv', NEW u \in Threads, Thread(u), NEW t \in Threads \ {u}, ReadOK(t)
  PROVE  ReadOK(t)'
<1>1. /\ pc'[t] = pc[t] /\ loc'[t] = loc[t] /\ seen'[t] = seen[t] /\ visReads'[t] = visReads[t]
      /\ writes'[t] = writes[t] /\ mode' = mode
  BY OwnState DEF Alone
<1>2. SeenOK(t)'
  BY <1>1 DEF ReadOK, SeenOK, EndsRead
<1>3. ASSUME txState'[t] = "ACTIVE", NEW o \in Objects, NEW v \in Versions, Held(t, o, v)'
      PROVE  Protected(t, o, v)'
  <2>1. txState[t] = "ACTIVE"
    BY <1>3, StateChange
  <2>2. Held(t, o, v)
    BY <1>1, <1>3 DEF Held, EndsRead
  <2>3. Protected(t, o, v)
    BY <2>1, <2>2 DEF ReadOK, HeldOK
  <2>4. t \in readers[o]
    BY <2>2, ThreadFacts DEF Held, ReadersOK
  <2>5. QED
    BY <1>3, <2>1, <2>3, <2>4, ProtectedStable
<1>4. HeldOK(t)'
  BY <1>3 DEF HeldOK
<1>5. QED
  BY <1>2, <1>4 DEF ReadOK

-------------------------------------------------------------------------------
(* A step of the thread itself.                                              *)

\* A step of t protects what t relies on, if it relied on it before.
LEMMA HeldStep ==
  ASSUME Inv, Inv', NEW t \in Threads, Thread(t), ReadOK(t), pc[t] # "idle",
         \A o \in Objects, v \in Versions :
           txState[t] = "ACTIVE" /\ Held(t, o, v)' => Held(t, o, v) \/ Protected(t, o, v)'
  PROVE  HeldOK(t)'
<1>1. ASSUME txState'[t] = "ACTIVE", NEW o \in Objects, NEW v \in Versions, Held(t, o, v)'
      PROVE  Protected(t, o, v)'
  <2>1. txState[t] = "ACTIVE"
    BY <1>1, StateChange
  <2>2. CASE Held(t, o, v)
    <3>1. Protected(t, o, v)
      BY <2>1, <2>2 DEF ReadOK, HeldOK
    <3>2. t \in readers[o]
      BY <2>2, ThreadFacts DEF Held, ReadersOK
    <3>3. QED
      BY <1>1, <2>1, <3>1, <3>2, ProtectedStable
  <2>3. QED
    BY <1>1, <2>1, <2>2
<1>2. QED
  BY <1>1 DEF HeldOK

\* The statements at which a thread relies only on what its earlier opens returned.
PlainLabels == {"work", "load", "look", "recheck", "decide", "contend", "cleanAbort", "cleanCommit",
                "acquire", "insert", "snapReaders", "killReaders", "acquireLazily", "verify", "cas"}

IsPlain(t) == pc[t] \in PlainLabels \/ (pc[t] = "validate" /\ loc[t].then = "cas")

\* The lists of thread t stay, but that writes may grow.
ListsGrow(t) ==
  /\ seen'[t] = seen[t] /\ visReads'[t] = visReads[t] /\ mode' = mode
  /\ \A w \in Elements(writes[t]) : \E x \in Elements(writes'[t]) : x.obj = w.obj /\ x.old = w.old

\* A step to one of these statements.
LEMMA PlainStep ==
  ASSUME Inv, Inv', NEW t \in Threads, Thread(t), ReadOK(t),
         pc[t] \notin {"idle", "restore", "check"}, ~EndsRead(t), IsPlain(t)', ListsGrow(t),
         ~mode[t].isLazy /\ pc'[t] \in {"snapReaders", "killReaders"} => loc'[t].kind = "RW"
  PROVE  ReadOK(t)'
<1>1. /\ pc'[t] \notin {"idle", "restore", "check", "install", "clone"} /\ ~EndsRead(t)'
  BY DEF IsPlain, PlainLabels, EndsRead
<1>2. HeldOK(t)'
  <2>1. ASSUME NEW o \in Objects, NEW v \in Versions, Held(t, o, v)' PROVE Held(t, o, v)
    BY <1>1, <2>1 DEF Held, ListsGrow
  <2>2. QED
    BY <2>1, HeldStep
<1>3. SeenOK(t)'
  <2> USE DEF ReadOK, ListsGrow
  <2>1. ASSUME mode[t].isVisible, NEW o \in visReads[t] PROVE \E v \in Versions : <<o, v>> \in seen[t]
    BY <2>1 DEF SeenOK
  <2>2. ASSUME mode[t].isVisible, NEW o \in Objects, NEW v \in Versions, <<o, v>> \in seen[t], o \notin visReads[t]
        PROVE  \E w \in Elements(writes'[t]) : w.obj = o /\ w.old = v
    <3>1. PICK w \in Elements(writes[t]) : w.obj = o /\ w.old = v
      BY <2>2 DEF SeenOK
    <3>2. QED
      BY <3>1
  <2>3. QED
    BY <1>1, <2>1, <2>2 DEF SeenOK
<1>4. QED
  BY <1>2, <1>3 DEF ReadOK

\* A thread that restores or has ended relies on nothing.
LEMMA EndedReads ==
  ASSUME Inv', NEW t \in Threads, pc'[t] = "restore" \/ (pc'[t] = "idle" /\ seen'[t] = {})
  PROVE  ReadOK(t)'
<1>1. txState'[t] # "ACTIVE"
  BY DEF Inv, ThreadInv, LocalOK
<1>2. QED
  BY <1>1 DEF ReadOK, HeldOK, SeenOK, EndsRead

\* abort (Descriptor_rstm.h:580-597).
LEMMA AbortReads ==
  ASSUME Inv, Inv', NEW t \in Threads, Abort(t)
  PROVE  ReadOK(t)'
<1>1. pc'[t] = "restore"
  BY Types DEF Abort, GoTo
<1>2. QED
  BY <1>1, EndedReads

\* beginTransaction (Descriptor_rstm.h:628-642).
LEMMA BeginReads ==
  ASSUME Inv, Inv', NEW t \in Threads, ReadOK(t), Begin(t)
  PROVE  ReadOK(t)'
<1>1. /\ pc[t] = "idle" /\ pc'[t] = "work"
      /\ visReads' = visReads /\ seen' = seen /\ mode' = mode
  BY Types DEF Begin, GoTo, lists
<1>2. visReads[t] = {} /\ seen[t] = {}
  BY <1>1, ThreadFacts DEF LocalOK, ReadOK, SeenOK
<1>3. QED
  BY <1>1, <1>2 DEF ReadOK, HeldOK, Held, SeenOK, EndsRead

\* The lists may also stay.
LEMMA GrowsWhole ==
  ASSUME NEW t \in Threads, seen' = seen, visReads' = visReads, mode' = mode, writes' = writes
  PROVE  ListsGrow(t)
  BY DEF ListsGrow

\* The statements that only move on.
LEMMA PlainActions ==
  ASSUME Inv, Inv', NEW t \in Threads, Thread(t), ReadOK(t),
         \/ \E o \in Objects, kind \in {"RO", "RW"} : Open(t, o, kind)
         \/ Contend(t) \/ Look(t) \/ Recheck(t) \/ GiveWay(t) \/ KillOwner(t) \/ YieldToReaders(t)
         \/ Commit(t)
  PROVE  ReadOK(t)'
<1>t. pc \in [Threads -> Labels] /\ loc \in [Threads -> Locals]
  BY Types
<1>1. ASSUME pc[t] \notin {"idle", "restore", "check"}, ~EndsRead(t),
             NEW label \in PlainLabels \ {"snapReaders", "killReaders"}, pc' = [pc EXCEPT ![t] = label],
             seen' = seen, visReads' = visReads, mode' = mode, writes' = writes
      PROVE  ReadOK(t)'
  <2>1. pc'[t] = label
    BY <1>t, <1>1
  <2>2. IsPlain(t)'
    BY <2>1 DEF IsPlain
  <2>3. QED
    BY <1>1, <2>1, <2>2, GrowsWhole, PlainStep
<1>2. CASE Abort(t)
  BY <1>2, AbortReads
<1> USE DEF EndsRead, PlainLabels, GoTo, memory, self, lists, history
<1>3. CASE ~Abort(t) /\ \E o \in Objects, kind \in {"RO", "RW"} : Open(t, o, kind)
  BY <1>1, <1>3 DEF Open
<1>4. CASE ~Abort(t) /\ (Contend(t) \/ Look(t) \/ GiveWay(t))
  BY <1>1, <1>4 DEF Contend, Look, GiveWay
<1>5. CASE Recheck(t)
  <2>1. loc[t].state \in {"ACTIVE", "ABORTED", "COMMITTED"}
    BY <1>t DEF Locals, States
  <2>2. /\ pc[t] = "recheck" /\ seen' = seen /\ visReads' = visReads /\ mode' = mode /\ writes' = writes
        /\ \E label \in PlainLabels \ {"snapReaders", "killReaders"} : pc' = [pc EXCEPT ![t] = label]
    BY <1>5, <2>1 DEF Recheck, ChooseOlder
  <2>3. QED
    BY <1>1, <2>2
<1>6. CASE KillOwner(t)
  BY <1>1, <1>6 DEF KillOwner, ChooseOlder
<1>7. CASE ~Abort(t) /\ YieldToReaders(t)
  BY <1>1, <1>7 DEF YieldToReaders
<1>8. CASE Commit(t)
  <2>1. CASE txState[t] # "ACTIVE"
    <3>1. pc'[t] = "restore"
      BY <1>8, <1>t, <2>1 DEF Commit
    <3>2. QED
      BY <3>1, EndedReads
  <2>2. CASE txState[t] = "ACTIVE"
    BY <1>1, <1>8, <2>2 DEF Commit
  <2>3. QED
    BY <2>1, <2>2
<1>9. QED
  BY <1>2, <1>3, <1>4, <1>5, <1>6, <1>7, <1>8

\* The use of the version that an open has chosen: it is current now, and thus
\* the version that the thread relies on, if there is one.
LEMMA UseReads ==
  ASSUME Inv, Inv', NEW t \in Threads, Thread(t), ReadOK(t),
         pc[t] \in {"load", "cleanAbort", "cleanCommit"},
         pc'[t] \in {"install", "insert", "clone", "acquire"},
         pc'[t] = "clone" => loc[t].kind = "RW",
         header'[loc[t].obj] = Unowned(loc'[t].newer), loc'[t].obj = loc[t].obj,
         seen' = seen, visReads' = visReads, mode' = mode, writes' = writes
  PROVE  ReadOK(t)'
<1>0. ~EndsRead(t) /\ ~EndsRead(t)'
  BY DEF EndsRead
<1>1. HeldOK(t)'
  <2>1. ASSUME txState'[t] = "ACTIVE", txState[t] = "ACTIVE",
               NEW o \in Objects, NEW v \in Versions, Held(t, o, v)', ~Held(t, o, v)
        PROVE  Protected(t, o, v)'
    <3>1. o = loc[t].obj /\ v = loc'[t].newer /\ pc'[t] = "clone" /\ o \in visReads[t]
      BY <1>0, <2>1 DEF Held
    <3>2. mode[t].isVisible
      BY <3>1, ThreadFacts DEF ModeOK
    <3>3. PICK x \in Versions : <<o, x>> \in seen[t]
      BY <1>0, <3>1, <3>2 DEF ReadOK, SeenOK
    <3>4. Held(t, o, x)
      BY <3>1, <3>3 DEF Held
    <3>5. Protected(t, o, x) /\ t \in readers[o]
      BY <2>1, <3>1, <3>4, ThreadFacts DEF ReadOK, HeldOK, ReadersOK
    <3>6. Protected(t, o, x)'
      BY <2>1, <3>5, ProtectedStable
    <3>7. QED
      BY <3>1, <3>6 DEF Protected, Unowned
  <2>2. QED
    BY <2>1, HeldStep DEF HeldOK
<1>2. SeenOK(t)'
  <2> USE DEF ReadOK
  <2>1. ASSUME mode[t].isVisible, NEW o \in visReads[t] PROVE \E v \in Versions : <<o, v>> \in seen[t]
    BY <1>0, <2>1 DEF SeenOK
  <2>2. ASSUME mode[t].isLazy PROVE \A w \in Elements(writes[t]) : w.obj # loc[t].obj
    BY <2>2, ThreadFacts DEF WritesOK, OpenLabels
  <2>3. ASSUME mode[t].isVisible, NEW o \in Objects, NEW v \in Versions, <<o, v>> \in seen[t], o \notin visReads[t]
        PROVE  \E w \in Elements(writes[t]) : w.obj = o /\ w.old = v
    BY <2>3 DEF SeenOK
  <2>4. QED
    BY <1>0, <2>1, <2>2, <2>3 DEF SeenOK
<1>3. QED
  BY <1>1, <1>2 DEF ReadOK

\* The load of the header (Descriptor_rstm.h:1128-1134).
LEMMA LoadReads ==
  ASSUME Inv, Inv', NEW t \in Threads, Thread(t), ReadOK(t), Load(t)
  PROVE  ReadOK(t)'
<1>t. pc \in [Threads -> Labels] /\ loc \in [Threads -> Locals] /\ loc[t] \in Locals
      /\ header \in [Objects -> Header] /\ loc[t].obj \in Objects /\ loc[t].kind \in {"RO", "RW"}
      /\ mode[t] \in [isVisible : BOOLEAN, isLazy : BOOLEAN]
  BY Types DEF Locals
<1>1. /\ pc[t] = "load" /\ pc'[t] = IF header[loc[t].obj].owned THEN "look" ELSE Use(t)
      /\ loc' = [loc EXCEPT ![t].snap = header[loc[t].obj], ![t].newer = header[loc[t].obj].ver]
      /\ UNCHANGED <<memory, self, lists, history>>
  BY <1>t DEF Load, GoTo
<1>2. /\ seen' = seen /\ visReads' = visReads /\ mode' = mode /\ writes' = writes /\ header' = header
  BY <1>1 DEF memory, self, lists, history
<1>3. loc'[t].obj = loc[t].obj /\ loc'[t].newer = header[loc[t].obj].ver
  BY <1>t, <1>1 DEF Locals
<1>4. CASE header[loc[t].obj].owned
  <2>1. IsPlain(t)' /\ ~EndsRead(t) /\ pc'[t] = "look"
    BY <1>1, <1>4 DEF IsPlain, PlainLabels, EndsRead
  <2>2. QED
    BY <1>1, <1>2, <2>1, GrowsWhole, PlainStep
<1>5. CASE ~header[loc[t].obj].owned
  <2>1. header[loc[t].obj] = Unowned(loc'[t].newer)
    BY <1>t, <1>3, <1>5 DEF Header, Unowned
  <2>2. pc'[t] \in {"install", "insert", "clone", "acquire"} /\ (pc'[t] = "clone" => loc[t].kind = "RW")
    BY <1>t, <1>1, <1>5 DEF Use
  <2>3. QED
    BY <1>1, <1>2, <1>3, <2>1, <2>2, UseReads
<1>6. QED
  BY <1>4, <1>5

\* The CAS of cleanOnAbort or of cleanOnCommit (Descriptor_rstm.h:1007-1028).
LEMMA CleanReads ==
  ASSUME Inv, Inv', NEW t \in Threads, Thread(t), ReadOK(t), CleanAbort(t) \/ CleanCommit(t)
  PROVE  ReadOK(t)'
<1>t. pc \in [Threads -> Labels] /\ loc[t].kind \in {"RO", "RW"}
      /\ mode[t] \in [isVisible : BOOLEAN, isLazy : BOOLEAN]
  BY Types DEF Locals
<1>1. /\ pc[t] \in {"cleanAbort", "cleanCommit"}
      /\ pc'[t] = IF header'[loc[t].obj] = Unowned(loc[t].newer) THEN Use(t) ELSE "contend"
      /\ seen' = seen /\ visReads' = visReads /\ mode' = mode /\ writes' = writes /\ loc' = loc
  BY <1>t DEF CleanAbort, CleanCommit, GoTo, self, lists, history
<1>2. CASE header'[loc[t].obj] = Unowned(loc[t].newer)
  <2>1. pc'[t] \in {"install", "insert", "clone", "acquire"} /\ (pc'[t] = "clone" => loc[t].kind = "RW")
    BY <1>t, <1>1, <1>2 DEF Use
  <2>2. QED
    BY <1>1, <1>2, <2>1, UseReads
<1>3. CASE header'[loc[t].obj] # Unowned(loc[t].newer)
  <2>1. IsPlain(t)' /\ ~EndsRead(t) /\ pc'[t] = "contend"
    BY <1>1, <1>3 DEF IsPlain, PlainLabels, EndsRead
  <2>2. QED
    BY <1>1, <2>1, GrowsWhole, PlainStep
<1>4. QED
  BY <1>2, <1>3

\* The CAS of the bitmap of readers (Descriptor_rstm.h:1056-1067). What the
\* transaction already read of this object, it had then opened for writing.
LEMMA InstallReads ==
  ASSUME Inv, Inv', NEW t \in Threads, Thread(t), ReadOK(t), InstallVisibleReader(t)
  PROVE  ReadOK(t)'
<1>t. pc \in [Threads -> Labels] /\ visReads \in [Threads -> SUBSET Objects] /\ loc[t].obj \in Objects
  BY Types DEF Locals
<1>1. /\ pc[t] = "install" /\ pc'[t] = "check" /\ visReads'[t] = visReads[t] \cup {loc[t].obj}
      /\ header' = header /\ next' = next /\ loc' = loc /\ mode' = mode /\ writes' = writes /\ seen' = seen
  BY <1>t DEF InstallVisibleReader, GoTo, self, history
<1>2. ~EndsRead(t) /\ ~EndsRead(t)' /\ mode[t].isVisible /\ loc[t].kind = "RO"
  BY <1>1, ThreadFacts DEF EndsRead, ModeOK
<1>3. HeldOK(t)'
  <2>1. ASSUME txState[t] = "ACTIVE", NEW o \in Objects, NEW v \in Versions, Held(t, o, v)', ~Held(t, o, v)
        PROVE  Protected(t, o, v)'
    <3>1. <<o, v>> \in seen[t] /\ o = loc[t].obj /\ o \notin visReads[t]
      BY <1>1, <1>2, <2>1 DEF Held
    <3>2. PICK w \in Elements(writes[t]) : w.obj = o /\ w.old = v
      BY <1>1, <1>2, <3>1 DEF ReadOK, SeenOK
    <3>3. ~mode[t].isLazy
      BY <1>1, <3>1, <3>2 DEF ReadOK, SeenOK
    <3>4. header[o] = Owned(w.new)
      BY <2>1, <3>2, <3>3, ThreadFacts DEF WritesOK
    <3>5. next[o][w.new] = v /\ OwnerOf(w.new) = t
      BY <3>2, <3>4, OwnEntry, EntryFacts
    <3>6. QED
      BY <1>1, <3>4, <3>5 DEF Protected, Owned
  <2>2. QED
    BY <1>1, <2>1, HeldStep
<1>4. SeenOK(t)'
  <2> USE DEF ReadOK
  <2>1. ASSUME NEW o \in visReads[t] PROVE \E v \in Versions : <<o, v>> \in seen[t]
    BY <1>1, <1>2, <2>1 DEF SeenOK
  <2>2. ASSUME NEW o \in Objects, NEW v \in Versions, <<o, v>> \in seen[t], o \notin visReads[t]
        PROVE  \E w \in Elements(writes[t]) : w.obj = o /\ w.old = v
    BY <1>1, <1>2, <2>2 DEF SeenOK
  <2>3. QED
    BY <1>1, <1>2, <2>1, <2>2 DEF SeenOK
<1>5. QED
  BY <1>3, <1>4 DEF ReadOK

\* What Validating does to the control and the locals.
LEMMA ValidatingMoves ==
  ASSUME Inv, NEW t \in Threads, NEW todo, NEW goal \in {"opened", "cas"}, Validating(t, todo, goal)
  PROVE  /\ pc'[t] = goal \/ (pc'[t] = "validate" /\ loc'[t].then = goal)
         /\ loc'[t].obj = loc[t].obj /\ loc'[t].kind = loc[t].kind /\ loc'[t].newer = loc[t].newer
<1>t. pc \in [Threads -> Labels] /\ loc \in [Threads -> Locals] /\ loc[t] \in Locals
  BY Types
<1>1. PICK l : l = [loc[t] EXCEPT !.todo = todo, !.pending = {}, !.then = IF todo = <<>> THEN "work" ELSE goal]
  OBVIOUS
<1>2. loc'[t] = l
  BY <1>t, <1>1 DEF Validating
<1>3. /\ l.obj = loc[t].obj /\ l.kind = loc[t].kind /\ l.newer = loc[t].newer
      /\ l.then = IF todo = <<>> THEN "work" ELSE goal
  BY <1>t, <1>1 DEF Locals
<1>4. pc'[t] = IF todo = <<>> THEN goal ELSE "validate"
  BY <1>t DEF Validating, GoTo
<1>5. QED
  BY <1>2, <1>3, <1>4

\* A visible reader checks the header after it is in the bitmap, and not before:
\* from here on, a writer finds it there (Descriptor_rstm.h:1222-1237).
LEMMA CheckReads ==
  ASSUME Inv, Inv', NEW t \in Threads, Thread(t), ReadOK(t), CheckHeader(t)
  PROVE  ReadOK(t)'
<1>0. pc[t] = "check"
  BY DEF CheckHeader
<1>1. CASE ~IsInTime(t)
  BY <1>1, AbortReads DEF CheckHeader
<1>2. CASE IsInTime(t)
  <2>1. Validating(t, LazyPairs(t), "opened") /\ UNCHANGED <<memory, self, lists, history>>
    BY <1>2 DEF CheckHeader
  <2>2. /\ EndsRead(t)' /\ pc'[t] \in {"opened", "validate"}
        /\ loc'[t].obj = loc[t].obj /\ loc'[t].kind = loc[t].kind /\ loc'[t].newer = loc[t].newer
    BY <2>1, ValidatingMoves DEF EndsRead
  <2>3. /\ header' = header /\ mode' = mode /\ seen' = seen /\ visReads' = visReads /\ writes' = writes
    BY <2>1 DEF memory, self, lists, history
  <2>4. mode[t].isVisible /\ loc[t].kind = "RO" /\ header[loc[t].obj] = Unowned(loc[t].newer)
    BY <1>0, <1>2, ThreadFacts DEF ModeOK, IsInTime
  <2>5. HeldOK(t)'
    <3>1. ASSUME NEW o \in Objects, NEW v \in Versions, Held(t, o, v)', ~Held(t, o, v)
          PROVE  Protected(t, o, v)'
      <4>1. o = loc[t].obj /\ v = loc[t].newer
        BY <2>2, <2>3, <3>1 DEF Held
      <4>2. QED
        BY <2>3, <2>4, <4>1 DEF Protected
    <3>2. QED
      BY <1>0, <3>1, HeldStep
  <2>6. SeenOK(t)'
    <3> USE DEF ReadOK
    <3>1. ASSUME NEW o \in visReads[t] PROVE o = loc[t].obj \/ \E v \in Versions : <<o, v>> \in seen[t]
      BY <1>0, <2>4, <3>1 DEF SeenOK
    <3>2. loc[t].obj \in visReads[t]
      BY <1>0, <2>4 DEF SeenOK
    <3>3. ASSUME NEW o \in Objects, NEW v \in Versions, <<o, v>> \in seen[t], o \notin visReads[t]
          PROVE  \E w \in Elements(writes[t]) : w.obj = o /\ w.old = v
      BY <1>0, <2>4, <3>3 DEF SeenOK
    <3>4. QED
      BY <2>2, <2>3, <2>4, <3>1, <3>2, <3>3 DEF SeenOK
  <2>7. QED
    BY <2>5, <2>6 DEF ReadOK
<1>3. QED
  BY <1>1, <1>2

\* addValidateInvisRead, of a thread that reads invisibly
\* (Descriptor_rstm.h:840-860).
LEMMA InsertReads ==
  ASSUME Inv, Inv', NEW t \in Threads, Thread(t), ReadOK(t), InsertInvisRead(t)
  PROVE  ReadOK(t)'
<1>1. pc[t] = "insert" /\ ~mode[t].isVisible /\ visReads[t] = {} /\ loc[t].kind = "RO"
  BY ThreadFacts DEF InsertInvisRead, ModeOK
<1>2. /\ \E todo : Validating(t, todo, "opened")
      /\ mode' = mode /\ visReads' = visReads
  BY DEF InsertInvisRead, self
<1>3. pc'[t] \in {"opened", "validate"} /\ loc'[t].kind = "RO"
  BY <1>1, <1>2, ValidatingMoves
<1>4. QED
  BY <1>1, <1>2, <1>3 DEF ReadOK, HeldOK, SeenOK, Held

\* A lazy writer clones the version (Descriptor_rstm.h:1420-1450).
LEMMA CloneReads ==
  ASSUME Inv, Inv', NEW t \in Threads, Thread(t), ReadOK(t), CloneLazily(t)
  PROVE  ReadOK(t)'
<1>0. pc[t] = "clone" /\ mode[t].isLazy /\ loc[t].kind = "RW" /\ ~EndsRead(t)
  BY ThreadFacts DEF CloneLazily, ModeOK, EndsRead
<1>o. PICK o \in Objects, v \in Versions : o = loc[t].obj /\ v = loc[t].newer
  BY <1>0, ThreadFacts, Types DEF LocalOK, Locals
<1>e. PICK new \in Versions, e \in Entry : IsNewEntry(t, o, v, FALSE, new, e)
  BY <1>0, NewEntry
<1>n. /\ new = NewVersion(t, o) /\ new = <<t, attempt[t], new[3]>> /\ new[3] \in 1 .. 2
      /\ e = [obj |-> o, old |-> v, new |-> new, acquired |-> FALSE]
      /\ e.obj = o /\ e.old = v /\ e.new = new
      /\ ~ \E w \in Elements(writes[t]) : w.obj = o /\ w.new = new
  BY <1>e DEF IsNewEntry
<1>1. /\ writes' = [writes EXCEPT ![t] = Append(@, e)]
      /\ Validating(t, invisReads[t] \o Pairs(writes'[t]), "opened")
      /\ attempt' = attempt /\ mode' = mode /\ seen' = seen /\ visReads' = visReads
  BY <1>o, <1>n DEF CloneLazily, Cloned, self, history
<1>2. Elements(writes'[t]) = Elements(writes[t]) \cup {e}
  <2>1. EntryAdded(t, e)
    BY <1>n, <1>1, AppendEntry
  <2>2. QED
    BY <2>1 DEF EntryAdded
<1>3. /\ EndsRead(t)' /\ pc'[t] \in {"opened", "validate"}
      /\ loc'[t].obj = o /\ loc'[t].kind = "RW" /\ loc'[t].newer = v
  BY <1>0, <1>o, <1>1, ValidatingMoves DEF EndsRead
<1>4. HeldOK(t)'
  <2>1. \A p \in Objects, x \in Versions : Held(t, p, x)' => Held(t, p, x)
    BY <1>0, <1>o, <1>1, <1>3 DEF Held
  <2>2. QED
    BY <1>0, <2>1, HeldStep
<1>5. SeenOK(t)'
  <2> USE DEF ReadOK
  <2>1. ASSUME mode[t].isVisible, NEW p \in visReads[t] PROVE \E x \in Versions : <<p, x>> \in seen[t]
    BY <1>0, <2>1 DEF SeenOK
  <2>2. ASSUME mode[t].isVisible, NEW p \in Objects, NEW x \in Versions, <<p, x>> \in seen[t], p \notin visReads[t]
        PROVE  \E w \in Elements(writes'[t]) : w.obj = p /\ w.old = x
    BY <1>0, <1>2, <2>2 DEF SeenOK
  <2>3. \E w \in Elements(writes'[t]) : w.obj = o /\ w.old = v
    BY <1>2, <1>n
  <2>4. QED
    BY <1>1, <1>3, <2>1, <2>2, <2>3 DEF SeenOK
<1>6. QED
  BY <1>4, <1>5 DEF ReadOK

\* An eager writer acquires the object (Descriptor_rstm.h:1428-1446).
LEMMA AcquireReads ==
  ASSUME Inv, Inv', NEW t \in Threads, Thread(t), ReadOK(t), Acquire(t)
  PROVE  ReadOK(t)'
<1>t. pc \in [Threads -> Labels]
  BY Types
<1>0. pc[t] = "acquire" /\ ~mode[t].isLazy /\ loc[t].kind = "RW" /\ ~EndsRead(t)
  BY ThreadFacts DEF Acquire, ModeOK, EndsRead
<1>1. mode' = mode /\ seen' = seen /\ visReads' = visReads /\ loc' = loc
  BY DEF Acquire, self, history
<1>2. CASE ~Swaps(loc[t].obj, loc[t].snap)
  <2>1. writes' = writes /\ pc'[t] = "contend"
    BY <1>2, <1>t DEF Acquire, GoTo
  <2>2. IsPlain(t)'
    BY <2>1 DEF IsPlain, PlainLabels
  <2>3. QED
    BY <1>0, <1>1, <2>1, <2>2, GrowsWhole, PlainStep
<1>3. CASE Swaps(loc[t].obj, loc[t].snap)
  <2>o. PICK o \in Objects, v \in Versions : o = loc[t].obj /\ v = loc[t].newer
    BY <1>0, ThreadFacts, Types DEF LocalOK, Locals
  <2>e. PICK new \in Versions, e \in Entry : IsNewEntry(t, o, v, TRUE, new, e)
    BY <1>0, NewEntry
  <2>n. /\ new = NewVersion(t, o) /\ new = <<t, attempt[t], new[3]>> /\ new[3] \in 1 .. 2
        /\ e = [obj |-> o, old |-> v, new |-> new, acquired |-> TRUE]
        /\ e.obj = o /\ e.old = v /\ e.new = new
        /\ ~ \E w \in Elements(writes[t]) : w.obj = o /\ w.new = new
    BY <2>e DEF IsNewEntry
  <2>1. /\ writes' = [writes EXCEPT ![t] = Append(@, e)]
        /\ attempt' = attempt /\ pc'[t] = "snapReaders"
    BY <1>3, <1>t, <2>o, <2>n DEF Acquire, Cloned, GoTo, self
  <2>2. Elements(writes'[t]) = Elements(writes[t]) \cup {e}
    <3>1. EntryAdded(t, e)
      BY <2>n, <2>1, AppendEntry
    <3>2. QED
      BY <3>1 DEF EntryAdded
  <2>3. ListsGrow(t) /\ IsPlain(t)'
    BY <1>1, <2>1, <2>2 DEF ListsGrow, IsPlain, PlainLabels
  <2>4. QED
    BY <1>0, <1>1, <2>1, <2>3, PlainStep
<1>4. QED
  BY <1>2, <1>3

\* A lazy writer acquires one object (Descriptor_rstm.h:879-895).
LEMMA AcquireLazilyReads ==
  ASSUME Inv, Inv', NEW t \in Threads, Thread(t), ReadOK(t), AcquireLazily(t)
  PROVE  ReadOK(t)'
<1>t. pc \in [Threads -> Labels]
  BY Types
<1>0. pc[t] = "acquireLazily" /\ mode[t].isLazy /\ ~EndsRead(t)
  BY ThreadFacts DEF AcquireLazily, ModeOK, EndsRead
<1>s. PICK s \in Seq(Entry) : s = writes[t]
  BY Types
<1>l. PICK left : left = {i \in DOMAIN s : ~s[i].acquired}
  OBVIOUS
<1>i. PICK i : i = CHOOSE k \in left : \A m \in left : k <= m
  OBVIOUS
<1>1. CASE left = {}
  <2>1. GoTo(t, "verify") /\ UNCHANGED <<memory, self, loc, lists, history>>
    BY <1>1, <1>l, <1>s DEF AcquireLazily
  <2>2. /\ pc'[t] = "verify" /\ seen' = seen /\ visReads' = visReads /\ mode' = mode /\ writes' = writes
    BY <1>t, <2>1 DEF GoTo, self, lists, history
  <2>3. IsPlain(t)'
    BY <2>2 DEF IsPlain, PlainLabels
  <2>4. QED
    BY <1>0, <2>2, <2>3, GrowsWhole, PlainStep
<1>2. CASE left # {}
  <2>i. i \in left
    <3>1. left \subseteq Nat
      BY <1>l
    <3>2. \E k \in left : \A m \in left : k <= m
      BY <1>2, <3>1, NatLeast
    <3>3. QED
      BY <1>i, <3>2
  <2>w. PICK w \in Entry : w = s[i]
    BY <2>i, <1>l
  <2>1. CASE ~Swaps(w.obj, Unowned(w.old))
    <3>1. Abort(t)
      BY <1>2, <1>l, <1>i, <1>s, <2>w, <2>1 DEF AcquireLazily
    <3>2. QED
      BY <3>1, AbortReads
  <2>2. CASE Swaps(w.obj, Unowned(w.old))
    <3>z. PICK z : IsAcquisition(z, s, i)
      BY DEF IsAcquisition
    <3>1. /\ writes' = [writes EXCEPT ![t][i].acquired = TRUE] /\ GoTo(t, "snapReaders")
          /\ UNCHANGED <<self, visReads, history>>
      BY <1>2, <1>l, <1>i, <1>s, <2>w, <2>2 DEF AcquireLazily
    <3>2. writes'[t] = z
      BY <1>s, <3>1, <3>z, Types DEF IsAcquisition
    <3>3. /\ DOMAIN z = DOMAIN s
          /\ \A k \in DOMAIN s : z[k].obj = s[k].obj /\ z[k].old = s[k].old
      BY <1>l, <2>i, <3>z, SetAcquired
    <3>4. \A x \in Elements(writes[t]) : \E y \in Elements(writes'[t]) : y.obj = x.obj /\ y.old = x.old
      BY <1>s, <3>2, <3>3 DEF Elements
    <3>5. ListsGrow(t) /\ pc'[t] = "snapReaders" /\ IsPlain(t)'
      BY <1>t, <3>1, <3>4 DEF ListsGrow, GoTo, self, history, IsPlain, PlainLabels
    <3>6. QED
      BY <1>0, <3>5, PlainStep
  <2>3. QED
    BY <2>1, <2>2
<1>3. QED
  BY <1>1, <1>2

\* The readers of the object are killed; after the last an eager open validates
\* (Descriptor_rstm.h:1069-1090).
LEMMA KillingReads ==
  ASSUME Inv, Inv', NEW t \in Threads, Thread(t), ReadOK(t), SnapReaders(t) \/ KillReader(t)
  PROVE  ReadOK(t)'
<1>1. /\ pc[t] \in {"snapReaders", "killReaders"} /\ \E victims \in SUBSET Threads : KillingReaders(t, victims)
      /\ seen' = seen /\ visReads' = visReads /\ mode' = mode /\ writes' = writes
  <2>1. loc[t].obj \in Objects /\ loc[t].pending \in SUBSET Threads
    BY Types DEF Locals
  <2>2. Victims(t) \in SUBSET Threads
    BY <2>1, Types DEF Victims
  <2>3. \A r : loc[t].pending \ {r} \in SUBSET Threads
    BY <2>1
  <2>4. QED
    BY <2>2, <2>3 DEF SnapReaders, KillReader, self, lists, history
<1>2. ~EndsRead(t) /\ (~mode[t].isLazy => loc[t].kind = "RW")
  BY <1>1 DEF EndsRead, ReadOK, SeenOK
<1>v. PICK victims \in SUBSET Threads : KillingReaders(t, victims)
  BY <1>1
<1>3. CASE ~mode[t].isLazy /\ Validating(t, invisReads[t], "opened")
  <2>1. /\ EndsRead(t)' /\ pc'[t] \in {"opened", "validate"} /\ loc'[t].kind = "RW" /\ loc'[t].obj = loc[t].obj
    BY <1>2, <1>3, ValidatingMoves DEF EndsRead
  <2>2. HeldOK(t)'
    <3>1. \A o \in Objects, v \in Versions : Held(t, o, v)' => Held(t, o, v)
      BY <1>1, <1>3, <2>1 DEF Held
    <3>2. QED
      BY <1>1, <3>1, HeldStep
  <2>3. SeenOK(t)'
    <3> USE DEF ReadOK
    <3>1. ASSUME mode[t].isVisible, NEW o \in visReads[t] PROVE \E v \in Versions : <<o, v>> \in seen[t]
      BY <1>1, <1>2, <3>1 DEF SeenOK
    <3>2. ASSUME mode[t].isVisible, NEW o \in Objects, NEW v \in Versions, <<o, v>> \in seen[t], o \notin visReads[t]
          PROVE  \E w \in Elements(writes[t]) : w.obj = o /\ w.old = v
      BY <1>1, <3>2 DEF SeenOK
    <3>3. QED
      BY <1>1, <1>3, <2>1, <3>1, <3>2 DEF SeenOK
  <2>4. QED
    BY <2>2, <2>3 DEF ReadOK
<1>4. CASE ~(~mode[t].isLazy /\ Validating(t, invisReads[t], "opened"))
  <2>1. /\ pc'[t] \in {"killReaders", "acquireLazily"}
        /\ pc'[t] = "killReaders" => loc'[t].kind = loc[t].kind
    BY <1>v, <1>4, KillingFacts
  <2>2. IsPlain(t)'
    BY <2>1 DEF IsPlain, PlainLabels
  <2>3. QED
    BY <1>1, <1>2, <2>1, <2>2, GrowsWhole, PlainStep
<1>5. QED
  BY <1>3, <1>4

\* The validation of an open or of a commit (Descriptor_rstm.h:796-838).
LEMMA ValidateReads ==
  ASSUME Inv, Inv', NEW t \in Threads, Thread(t), ReadOK(t), Validate(t) \/ VerifyInvisReads(t)
  PROVE  ReadOK(t)'
<1>1. CASE Abort(t)
  BY <1>1, AbortReads
<1>2. CASE ~Abort(t)
  <2>1. PICK goal \in {"opened", "cas"} :
          /\ \E todo : Validating(t, todo, goal)
          /\ \/ pc[t] = "validate" /\ loc[t].then = goal
             \/ pc[t] = "verify" /\ goal = "cas"
          /\ UNCHANGED <<memory, self, lists, history>>
    <3>1. pc[t] = "validate" => loc[t].then \in {"opened", "cas"}
      BY ThreadFacts DEF LocalOK
    <3>2. QED
      BY <1>2, <3>1 DEF Validate, VerifyInvisReads
  <2>2. /\ pc'[t] = goal \/ (pc'[t] = "validate" /\ loc'[t].then = goal)
        /\ loc'[t].obj = loc[t].obj /\ loc'[t].kind = loc[t].kind /\ loc'[t].newer = loc[t].newer
    BY <2>1, ValidatingMoves
  <2>3. seen' = seen /\ visReads' = visReads /\ mode' = mode /\ writes' = writes
    BY <2>1 DEF self, lists, history
  <2>4. CASE goal = "cas"
    <3>1. ~EndsRead(t) /\ IsPlain(t)' /\ pc'[t] \in {"cas", "validate"}
      BY <2>1, <2>2, <2>4 DEF EndsRead, IsPlain, PlainLabels
    <3>2. QED
      BY <2>1, <2>3, <3>1, GrowsWhole, PlainStep
  <2>5. CASE goal = "opened"
    <3>1. EndsRead(t) /\ EndsRead(t)' /\ pc[t] = "validate" /\ pc'[t] \in {"opened", "validate"}
      BY <2>1, <2>2, <2>5 DEF EndsRead
    <3>2. \A o \in Objects, v \in Versions : Held(t, o, v)' => Held(t, o, v)
      BY <2>2, <2>3, <3>1 DEF Held
    <3>3. HeldOK(t)'
      BY <3>1, <3>2, HeldStep
    <3>4. SeenOK(t)'
      BY <2>2, <2>3, <3>1 DEF ReadOK, SeenOK
    <3>5. QED
      BY <3>3, <3>4 DEF ReadOK
  <2>6. QED
    BY <2>4, <2>5
<1>3. QED
  BY <1>1, <1>2

\* The version goes to the program (Descriptor_rstm.h:1257-1264).
LEMMA OpenedReads ==
  ASSUME Inv, Inv', NEW t \in Threads, Thread(t), ReadOK(t), Opened(t)
  PROVE  ReadOK(t)'
<1>0. pc[t] = "opened" /\ EndsRead(t) /\ EndsOpen(t)
  BY DEF Opened, EndsRead, EndsOpen
<1>1. CASE Killed(t)
  BY <1>1, AbortReads DEF Opened
<1>2. CASE ~Killed(t)
  <2>o. PICK o \in Objects, v \in Versions : o = loc[t].obj /\ v = loc[t].newer
    BY <1>0, ThreadFacts, Types DEF LocalOK, Locals
  <2>1. /\ seen'[t] = seen[t] \cup {<<o, v>>} /\ pc'[t] = "work"
        /\ visReads' = visReads /\ mode' = mode /\ writes' = writes /\ header' = header /\ next' = next
    BY <1>2, <2>o, Types DEF Opened, GoTo, memory, self, lists
  <2>2. ~EndsRead(t)' /\ loc[t].kind \in {"RO", "RW"}
    BY <2>1, Types DEF EndsRead, Locals
  <2>3. HeldOK(t)'
    <3>1. ASSUME txState[t] = "ACTIVE", NEW p \in Objects, NEW x \in Versions, Held(t, p, x)', ~Held(t, p, x)
          PROVE  Protected(t, p, x)'
      <4>1. p = o /\ x = v /\ loc[t].kind = "RW" /\ ~mode[t].isLazy
        BY <1>0, <2>o, <2>1, <2>2, <3>1 DEF Held
      <4>2. PICK w \in Elements(writes[t]) : w.obj = o /\ w.old = v
        BY <1>0, <2>o, <4>1, ThreadFacts DEF WritesOK
      <4>3. header[o] = Owned(w.new)
        BY <3>1, <4>1, <4>2, ThreadFacts DEF WritesOK
      <4>4. next[o][w.new] = v /\ OwnerOf(w.new) = t
        BY <4>2, <4>3, OwnEntry, EntryFacts
      <4>5. QED
        BY <2>1, <4>1, <4>3, <4>4 DEF Protected, Owned
    <3>2. QED
      BY <1>0, <3>1, HeldStep
  <2>4. SeenOK(t)'
    <3> USE DEF ReadOK
    <3>1. ASSUME mode[t].isVisible, NEW p \in visReads[t] PROVE \E x \in Versions : <<p, x>> \in seen'[t]
      <4>1. (\E x \in Versions : <<p, x>> \in seen[t]) \/ p = o
        BY <1>0, <2>o, <3>1 DEF SeenOK
      <4>2. QED
        BY <2>1, <4>1
    <3>2. ASSUME mode[t].isVisible, NEW p \in Objects, NEW x \in Versions, <<p, x>> \in seen'[t], p \notin visReads[t]
          PROVE  \E w \in Elements(writes[t]) : w.obj = p /\ w.old = x
      <4>1. CASE <<p, x>> \in seen[t]
        BY <1>0, <3>2, <4>1 DEF SeenOK
      <4>2. CASE p = o /\ x = v
        <5>1. loc[t].kind = "RW"
          BY <1>0, <2>o, <2>2, <3>2, <4>2 DEF SeenOK
        <5>2. CASE mode[t].isLazy
          BY <1>0, <2>o, <4>2, <5>1, <5>2 DEF SeenOK
        <5>3. CASE ~mode[t].isLazy
          BY <1>0, <2>o, <4>2, <5>1, <5>3, ThreadFacts DEF WritesOK
        <5>4. QED
          BY <5>2, <5>3
      <4>3. QED
        BY <2>1, <3>2, <4>1, <4>2
    <3>3. QED
      BY <2>1, <2>2, <3>1, <3>2 DEF SeenOK
  <2>5. QED
    BY <2>3, <2>4 DEF ReadOK
<1>3. QED
  BY <1>1, <1>2

\* commit and cleanup (Descriptor_rstm.h:743-807).
LEMMA EndReads ==
  ASSUME Inv, Inv', NEW t \in Threads,
         CommitCas(t) \/ RestoreHeader(t) \/ RemoveVisibleReader(t) \/ EndTransaction(t)
  PROVE  ReadOK(t)'
<1>1. pc'[t] = "restore" \/ (pc'[t] = "idle" /\ seen'[t] = {})
  BY Types DEF CommitCas, RestoreHeader, RemoveVisibleReader, EndTransaction, GoTo
<1>2. QED
  BY <1>1, EndedReads

-------------------------------------------------------------------------------
(* The theorem.                                                              *)

\* Every statement of a thread leaves what it relies on.
LEMMA ReadStep ==
  ASSUME Inv, Inv', NEW t \in Threads, Thread(t), ReadOK(t)
  PROVE  ReadOK(t)'
<1>1. CASE Begin(t)
  BY <1>1, BeginReads
<1>2. CASE \/ \E o \in Objects, kind \in {"RO", "RW"} : Open(t, o, kind)
           \/ Contend(t) \/ Look(t) \/ Recheck(t) \/ GiveWay(t) \/ KillOwner(t) \/ YieldToReaders(t)
           \/ Commit(t)
  BY <1>2, PlainActions
<1>3. CASE Load(t) \/ CleanAbort(t) \/ CleanCommit(t) \/ InstallVisibleReader(t) \/ CheckHeader(t)
           \/ InsertInvisRead(t)
  BY <1>3, LoadReads, CleanReads, InstallReads, CheckReads, InsertReads
<1>4. CASE Acquire(t) \/ CloneLazily(t) \/ AcquireLazily(t) \/ SnapReaders(t) \/ KillReader(t)
  BY <1>4, AcquireReads, CloneReads, AcquireLazilyReads, KillingReads
<1>5. CASE Validate(t) \/ VerifyInvisReads(t) \/ Opened(t)
  BY <1>5, ValidateReads, OpenedReads
<1>6. CASE CommitCas(t) \/ RestoreHeader(t) \/ RemoveVisibleReader(t) \/ EndTransaction(t)
  BY <1>6, EndReads
<1>7. QED
  BY <1>1, <1>2, <1>3, <1>4, <1>5, <1>6 DEF Thread

\* For any number of threads, objects and attempts: what a live transaction read
\* visibly stays the current version of its object until the transaction is
\* killed, whatever is acquired, cleaned, killed or committed meanwhile. That is
\* why visible reads are not validated again (Descriptor_rstm.h:1221-1234,
\* 1429-1442).
THEOREM VisibleReadsAreProtected == Spec => []VisibleReadIsProtected
<1>1. Init => \A t \in Threads : ReadOK(t)
  <2>1. ASSUME Init, NEW t \in Threads PROVE ReadOK(t)
    <3>1. pc[t] = "idle" /\ txState[t] = "COMMITTED" /\ seen[t] = {} /\ visReads[t] = {}
      BY <2>1 DEF Init
    <3>2. QED
      BY <3>1 DEF ReadOK, HeldOK, SeenOK, EndsRead
  <2>2. QED
    BY <2>1
<1>2. Inv /\ Inv' /\ (\A t \in Threads : ReadOK(t)) /\ [Next]_vars => (\A t \in Threads : ReadOK(t))'
  <2>1. ASSUME Inv, Inv', NEW t \in Threads, ReadOK(t), NEW u \in Threads, Thread(u) PROVE ReadOK(t)'
    BY <2>1, OtherReads, ReadStep
  <2>2. ASSUME Inv, NEW t \in Threads, ReadOK(t), UNCHANGED vars PROVE ReadOK(t)'
    <3>1. /\ header' = header /\ next' = next /\ txState' = txState /\ pc' = pc /\ loc' = loc /\ mode' = mode
          /\ visReads' = visReads /\ seen' = seen /\ writes' = writes
      BY <2>2 DEF vars, memory, self, lists, history
    <3>2. QED
      BY <2>2, <3>1 DEF ReadOK, HeldOK, Held, Protected, SeenOK, EndsRead
  <2>3. QED
    BY <2>1, <2>2 DEF Next
<1>3. Inv /\ (\A t \in Threads : ReadOK(t)) => VisibleReadIsProtected
  <2>1. ASSUME Inv, NEW t \in Threads, ReadOK(t), NEW r \in seen[t], txState[t] = "ACTIVE", r[1] \in visReads[t]
        PROVE  Protected(t, r[1], r[2])
    <3>1. r \in Objects \X Versions
      BY <2>1, Types DEF Pair
    <3>2. r = <<r[1], r[2]>> /\ r[1] \in Objects /\ r[2] \in Versions
      BY <3>1
    <3>3. Held(t, r[1], r[2])
      BY <2>1, <3>2 DEF Held
    <3>4. QED
      BY <2>1, <3>2, <3>3 DEF ReadOK, HeldOK
  <2>2. QED
    BY <2>1 DEF VisibleReadIsProtected, Protected
<1>4. QED
  BY <1>1, <1>2, <1>3, InvHolds, PTL DEF Spec

-------------------------------------------------------------------------------
(* The history, and how it relates to the objects.                           *)

\* Version v of object o is the initial one or was made by a committed
\* transaction; a committed transaction has replaced it; v names a committed
\* transaction.
Made(o, v) == v = Initial \/ \E c \in committed : c.tx = v /\ \E w \in c.writes : w[1] = o
Gone(o, v) == \E c \in committed : <<o, v>> \in c.writes
IsCommitted(v) == \E c \in committed : c.tx = v

\* The open of thread t has a version that was current, and works to use it.
OpenPass(t) ==
  \/ pc[t] \in {"install", "check", "insert", "clone"}
  \/ ~mode[t].isLazy /\ pc[t] \in {"snapReaders", "killReaders"}
  \/ EndsRead(t)

\* Thread t owns all it writes and has begun its last validation.
Deciding(t) == txState[t] = "ACTIVE" /\ (pc[t] = "cas" \/ (pc[t] = "validate" /\ loc[t].then = "cas"))

\* A committed transaction has a name of its own, and what it read, replaced and
\* began after is of committed transactions. The m_next of a version it made is
\* the version it replaced, or cleared.
LogOK ==
  \A c \in committed :
    /\ \A d \in committed : c.tx = d.tx => c = d
    /\ \A w \in c.writes : /\ w \in Pair /\ Made(w[1], w[2])
                           /\ next[w[1]][c.tx] = NullVersion \/ next[w[1]][c.tx] = w[2]
    /\ \A r \in c.reads : r \in Pair /\ Made(r[1], r[2])
    /\ \A v \in c.after : IsCommitted(v)

\* The contents of an object are the one version of it that no committed
\* transaction has replaced.
ContentsOK ==
  \A o \in Objects :
    /\ Made(o, Current(o)) /\ ~Gone(o, Current(o))
    /\ \A v \in Versions : Made(o, v) => v = Current(o) \/ Gone(o, v)

\* What the attempt of thread t has seen was committed, and so were its own
\* former attempts when it began. A version it opens again is the one it chose,
\* or has been replaced.
PastOK(t) ==
  /\ \A r \in seen[t] : Made(r[1], r[2])
  /\ \A v \in began[t] : IsCommitted(v)
  /\ pc[t] # "idle" => \A c \in committed : OwnerOf(c.tx) = t /\ c.tx[2] < attempt[t] => c.tx \in began[t]
  /\ OpenPass(t) =>
       /\ Made(loc[t].obj, loc[t].newer)
       /\ \A x \in Versions :
            <<loc[t].obj, x>> \in seen[t] => x = loc[t].newer \/ Gone(loc[t].obj, x)

\* invisibleReads of thread t holds what its opens returned, and at the end of
\* an open what it is about to return.
InvisOK(t) ==
  /\ pc[t] = "idle" \/ mode[t].isVisible => invisReads[t] = <<>>
  /\ pc[t] \notin {"idle", "restore"} => \A r \in Elements(invisReads[t]) :
       r \in seen[t] \/ (EndsRead(t) /\ loc[t].kind = "RO" /\ r = <<loc[t].obj, loc[t].newer>>)

HistInv == LogOK /\ ContentsOK /\ \A t \in Threads : PastOK(t) /\ InvisOK(t)

-------------------------------------------------------------------------------
(* What a step changes: the history and the older versions.                  *)

\* No step of a thread changes the attempt, the past or the invisible reads of
\* another.
LEMMA OwnHistory ==
  ASSUME Inv, NEW u \in Threads, Thread(u)
  PROVE  Alone(attempt', attempt, u) /\ Alone(began', began, u) /\ Alone(invisReads', invisReads, u)
<1>t. /\ attempt \in [Threads -> 0 .. MaxAttempts] /\ began \in [Threads -> SUBSET Versions]
      /\ invisReads \in [Threads -> Seq(Pair)]
  BY Types DEF Inv, TypeInv, HistoryOK
<1> USE <1>t DEF Alone, Abort, memory, self, lists, history
<1>1. CASE Begin(u) \/ KillOwner(u)
  BY <1>1 DEF Begin, KillOwner
<1>2. CASE \E o \in Objects, kind \in {"RO", "RW"} : Open(u, o, kind)
  BY <1>2 DEF Open
<1>3. CASE Contend(u) \/ Load(u) \/ Look(u) \/ GiveWay(u) \/ Commit(u) \/ Recheck(u)
  BY <1>3 DEF Contend, Load, Look, GiveWay, Commit, Recheck
<1>4. CASE CleanAbort(u) \/ CleanCommit(u) \/ RestoreHeader(u)
  BY <1>4 DEF CleanAbort, CleanCommit, RestoreHeader
<1>5. CASE Acquire(u) \/ YieldToReaders(u)
  BY <1>5 DEF Acquire, YieldToReaders
<1>6. CASE AcquireLazily(u)
  BY <1>6 DEF AcquireLazily
<1>7. CASE InstallVisibleReader(u) \/ RemoveVisibleReader(u) \/ CheckHeader(u) \/ Validate(u) \/ Opened(u)
  BY <1>7 DEF InstallVisibleReader, RemoveVisibleReader, CheckHeader, Validate, Opened
<1>8. CASE InsertInvisRead(u) \/ CloneLazily(u) \/ VerifyInvisReads(u) \/ EndTransaction(u) \/ CommitCas(u)
  BY <1>8 DEF InsertInvisRead, CloneLazily, VerifyInvisReads, EndTransaction, CommitCas
<1>9. CASE SnapReaders(u) \/ KillReader(u)
  BY <1>9 DEF SnapReaders, KillReader
<1>10. QED
  BY <1>1, <1>2, <1>3, <1>4, <1>5, <1>6, <1>7, <1>8, <1>9 DEF Thread

\* An m_next is cleared, or set by a transaction that runs for a version that it
\* makes.
NextChanged(u, o, x) ==
  \/ next'[o][x] = next[o][x] \/ next'[o][x] = NullVersion
  \/ OwnerOf(x) = u /\ x[2] = attempt[u] /\ pc[u] \in {"acquire", "acquireLazily"}

\* An assignment to an m_next is one of these if it clears it or is to a version
\* that the thread makes.
LEMMA UpdateChange ==
  ASSUME Inv, NEW u \in Threads, NEW p \in Objects, NEW y \in Versions, NEW z \in AnyVersion,
         IsUpdate(next', next, p, y, z),
         z = NullVersion \/ (OwnerOf(y) = u /\ y[2] = attempt[u] /\ pc[u] \in {"acquire", "acquireLazily"}),
         NEW o \in Objects, NEW x \in Versions
  PROVE  NextChanged(u, o, x)
<1>1. next \in [Objects -> [Versions -> AnyVersion]]
  BY Types
<1>2. /\ next'[p][y] = z /\ \A q \in Objects \ {p} : next'[q] = next[q]
      /\ \A v \in Versions \ {y} : next'[p][v] = next[p][v]
  BY <1>1, NextUpdate
<1>3. QED
  BY <1>2 DEF NextChanged

\* Every step does one of these.
LEMMA NextChange ==
  ASSUME Inv, NEW u \in Threads, Thread(u), NEW o \in Objects, NEW x \in Versions
  PROVE  NextChanged(u, o, x)
<1>0. next' = next => NextChanged(u, o, x)
  BY DEF NextChanged
<1>t. next \in [Objects -> [Versions -> AnyVersion]]
  BY Types
<1>1. CASE Acquire(u)
  <2>0. pc[u] = "acquire"
    BY <1>1 DEF Acquire
  <2>o. PICK p \in Objects, v \in Versions : p = loc[u].obj /\ v = loc[u].newer
    BY <2>0, ThreadFacts, Types DEF LocalOK, Locals
  <2>1. CASE ~Swaps(p, loc[u].snap)
    BY <1>0, <1>1, <2>o, <2>1 DEF Acquire
  <2>2. CASE Swaps(p, loc[u].snap)
    <3>1. PICK new \in Versions, e \in Entry : IsNewEntry(u, p, v, TRUE, new, e)
      BY <2>0, NewEntry
    <3>2. new = NewVersion(u, p) /\ OwnerOf(new) = u /\ new[2] = attempt[u]
      BY <3>1 DEF IsNewEntry, OwnerOf
    <3>3. IsUpdate(next', next, p, new, v) /\ v \in AnyVersion
      BY <1>1, <2>o, <2>2, <3>2 DEF Acquire, Cloned, IsUpdate, AnyVersion
    <3>4. QED
      BY <2>0, <3>2, <3>3, UpdateChange
  <2>3. QED
    BY <2>1, <2>2
<1>2. CASE AcquireLazily(u)
  <2>0. pc[u] = "acquireLazily"
    BY <1>2 DEF AcquireLazily
  <2>s. PICK s \in Seq(Entry) : s = writes[u]
    BY Types
  <2>l. PICK left : left = {i \in DOMAIN s : ~s[i].acquired}
    OBVIOUS
  <2>i. PICK i : i = CHOOSE k \in left : \A m \in left : k <= m
    OBVIOUS
  <2>1. CASE next' # next
    <3>1. /\ left # {} /\ Swaps(s[i].obj, Unowned(s[i].old))
          /\ next' = [next EXCEPT ![s[i].obj][s[i].new] = s[i].old]
      BY <1>2, <2>l, <2>i, <2>s, <2>1 DEF AcquireLazily, Abort, memory
    <3>2. i \in left
      <4>1. left \subseteq Nat
        BY <2>l
      <4>2. \E k \in left : \A m \in left : k <= m
        BY <3>1, <4>1, NatLeast
      <4>3. QED
        BY <2>i, <4>2
    <3>w. PICK w \in Entry : w = s[i] /\ w \in Elements(writes[u])
      BY <3>2, <2>l, <2>s DEF Elements
    <3>3. /\ w.obj \in Objects /\ w.old \in AnyVersion /\ w.new \in Versions
          /\ OwnerOf(w.new) = u /\ w.new[2] = attempt[u]
      BY <3>w, EntryFacts DEF AnyVersion
    <3>4. IsUpdate(next', next, w.obj, w.new, w.old)
      BY <3>1, <3>w DEF IsUpdate
    <3>5. QED
      BY <2>0, <3>3, <3>4, UpdateChange
  <2>2. QED
    BY <1>0, <2>1
<1>3. CASE CleanCommit(u)
  <2>1. PICK p \in Objects, v \in Versions : p = loc[u].obj /\ v = loc[u].newer
    BY <1>3, ThreadFacts, Types DEF CleanCommit, LocalOK, Locals
  <2>2. CASE Swaps(p, loc[u].snap)
    <3>1. IsUpdate(next', next, p, v, NullVersion) /\ NullVersion \in AnyVersion
      BY <1>3, <2>1, <2>2 DEF CleanCommit, IsUpdate, AnyVersion
    <3>2. QED
      BY <3>1, UpdateChange
  <2>3. CASE ~Swaps(p, loc[u].snap)
    <3>1. PICK z \in AnyVersion : z = next[p][v]
      BY <1>t
    <3>2. IsUpdate(next', next, p, v, z)
      BY <1>3, <2>1, <2>3, <3>1 DEF CleanCommit, IsUpdate
    <3>3. next' = next
      BY <1>t, <3>1, <3>2, NextUpdate
    <3>4. QED
      BY <1>0, <3>3
  <2>4. QED
    BY <2>2, <2>3
<1>4. CASE RestoreHeader(u)
  <2>r. PICK w \in Elements(writes[u]) : w = Head(writes[u])
    <3>1. PICK s \in Seq(Entry) : s = writes[u] /\ s # <<>>
      BY <1>4, Types DEF RestoreHeader
    <3>2. QED
      BY <3>1, ElementsTail
  <2>w. w.obj \in Objects /\ w.new \in Versions
    BY EntryFacts
  <2>1. next' = [next EXCEPT ![w.obj][w.new] =
                   IF Restores(u, w) /\ txState[u] = "COMMITTED" THEN NullVersion ELSE @]
    BY <1>4, <2>r DEF RestoreHeader
  <2>2. CASE Restores(u, w) /\ txState[u] = "COMMITTED"
    <3>1. IsUpdate(next', next, w.obj, w.new, NullVersion) /\ NullVersion \in AnyVersion
      BY <2>1, <2>2 DEF IsUpdate, AnyVersion
    <3>2. QED
      BY <2>w, <3>1, UpdateChange
  <2>3. CASE ~(Restores(u, w) /\ txState[u] = "COMMITTED")
    <3>1. PICK z \in AnyVersion : z = next[w.obj][w.new]
      BY <1>t, <2>w
    <3>2. IsUpdate(next', next, w.obj, w.new, z)
      BY <2>1, <2>3, <3>1 DEF IsUpdate
    <3>3. next' = next
      BY <1>t, <2>w, <3>1, <3>2, NextUpdate
    <3>4. QED
      BY <1>0, <3>3
  <2>4. QED
    BY <2>2, <2>3
<1> USE <1>0 DEF memory, Abort
<1>5. CASE Begin(u) \/ KillOwner(u) \/ KillReader(u) \/ Contend(u) \/ Load(u) \/ Look(u) \/ Recheck(u) \/ GiveWay(u)
  BY <1>5 DEF Begin, KillOwner, KillReader, Contend, Load, Look, Recheck, GiveWay
<1>6. CASE \E p \in Objects, kind \in {"RO", "RW"} : Open(u, p, kind)
  BY <1>6 DEF Open
<1>7. CASE Commit(u) \/ YieldToReaders(u) \/ InstallVisibleReader(u) \/ RemoveVisibleReader(u) \/ CheckHeader(u)
  BY <1>7 DEF Commit, YieldToReaders, InstallVisibleReader, RemoveVisibleReader, CheckHeader
<1>8. CASE Validate(u) \/ Opened(u) \/ InsertInvisRead(u) \/ CloneLazily(u) \/ VerifyInvisReads(u) \/ CleanAbort(u)
  BY <1>8 DEF Validate, Opened, InsertInvisRead, CloneLazily, VerifyInvisReads, CleanAbort
<1>9. CASE EndTransaction(u) \/ CommitCas(u) \/ SnapReaders(u)
  BY <1>9 DEF EndTransaction, CommitCas, SnapReaders
<1>10. QED
  BY <1>1, <1>2, <1>3, <1>4, <1>5, <1>6, <1>7, <1>8, <1>9 DEF Thread

-------------------------------------------------------------------------------
(* The log and the contents of the objects.                                  *)

\* The record of the transaction that thread t commits.
IsCommitOf(c, t) ==
  /\ c.tx = Tx(t) /\ c.reads = seen[t] /\ c.after = began[t]
  /\ c.writes = {<<w.obj, w.old>> : w \in Elements(writes[t])}
  /\ committed' = committed \cup {c}

\* A commit adds this record.
LEMMA CommitRecord ==
  ASSUME NEW t \in Threads, CommitsNow(t)
  PROVE  \E c : IsCommitOf(c, t)
<1>1. PICK c : c = [tx |-> Tx(t), reads |-> seen[t], after |-> began[t],
                    writes |-> {<<w.obj, w.old>> : w \in Elements(writes[t])}]
  OBVIOUS
<1>2. c.tx = Tx(t) /\ c.reads = seen[t] /\ c.after = began[t]
      /\ c.writes = {<<w.obj, w.old>> : w \in Elements(writes[t])}
  BY <1>1
<1>3. committed' = committed \cup {c}
  BY <1>1 DEF CommitsNow
<1>4. QED
  BY <1>2, <1>3 DEF IsCommitOf

\* What is committed stays so.
LEMMA CommittedStays ==
  ASSUME Inv, NEW u \in Threads, Thread(u)
  PROVE  /\ committed \subseteq committed'
         /\ \A o, v : (Made(o, v) => Made(o, v)') /\ (Gone(o, v) => Gone(o, v)')
         /\ \A v : IsCommitted(v) => IsCommitted(v)'
<1>1. committed \subseteq committed'
  BY ThreadKept DEF Kept, CommitsNow
<1>2. QED
  BY <1>1 DEF Made, Gone, IsCommitted

\* A committed version has the name of a committed transaction.
LEMMA MadeFacts ==
  ASSUME NEW o, NEW v, Made(o, v)
  PROVE  v = Initial \/ IsCommitted(v)
  BY DEF Made, IsCommitted

\* What the committing transaction replaces is current, and nobody has replaced
\* it before.
LEMMA CommitWrites ==
  ASSUME Inv, HistInv, NEW t \in Threads, CommitsNow(t), NEW c, IsCommitOf(c, t)
  PROVE  /\ \A w \in c.writes :
              /\ w = <<w[1], w[2]>> /\ w[1] \in Objects /\ w \in Pair
              /\ w[2] = Current(w[1]) /\ Made(w[1], w[2])
              /\ next[w[1]][Tx(t)] = w[2] /\ Current(w[1])' = Tx(t)
         /\ \A o \in Objects : (\E w \in c.writes : w[1] = o) \/ Current(o)' = Current(o)
         /\ ~IsCommitted(Tx(t)) /\ Tx(t) \in Versions /\ Tx(t) # Initial
<1>0. pc[t] = "cas" /\ Commits(t)
  BY DEF CommitsNow
<1>1. PICK written : written = {w.obj : w \in Elements(writes[t])}
  OBVIOUS
<1>2. Memory!Commit(Tx(t), written)
  BY <1>1, CommitIsAtomic
<1>3. Mem' = [o \in Objects |-> IF o \in written THEN Tx(t) ELSE Mem[o]]
  BY <1>2 DEF Memory!Commit, Mem
<1>4. \A o \in Objects : Current(o)' = IF o \in written THEN Tx(t) ELSE Current(o)
  BY <1>3 DEF Mem
<1>5. /\ \A w \in Elements(writes[t]) :
           /\ w.obj \in Objects /\ w.new = Tx(t)
           /\ header[w.obj] = Owned(w.new) /\ Current(w.obj) = w.old
      /\ Tx(t) \in Versions /\ \A d \in committed : d.tx # Tx(t)
  BY <1>0, Written
<1>6. ASSUME NEW e \in c.writes
      PROVE  /\ e = <<e[1], e[2]>> /\ e[1] \in Objects /\ e \in Pair
             /\ e[2] = Current(e[1]) /\ Made(e[1], e[2])
             /\ next[e[1]][Tx(t)] = e[2] /\ Current(e[1])' = Tx(t)
  <2>1. PICK w \in Elements(writes[t]) : e = <<w.obj, w.old>>
    BY DEF IsCommitOf
  <2>2. e[1] = w.obj /\ e[2] = w.old /\ w.obj \in Objects /\ w.old \in Versions
    BY <2>1, EntryFacts
  <2>3. Current(w.obj) = w.old /\ w.obj \in written /\ w.new = Tx(t) /\ header[w.obj] = Owned(w.new)
    BY <1>1, <1>5
  <2>4. next[w.obj][w.new] = w.old
    BY <2>3, OwnEntry
  <2>5. Made(w.obj, w.old)
    BY <2>2, <2>3 DEF HistInv, ContentsOK
  <2>6. QED
    BY <1>4, <2>1, <2>2, <2>3, <2>4, <2>5 DEF Pair
<1>7. ASSUME NEW o \in Objects, Current(o)' # Current(o)
      PROVE  \E w \in c.writes : w[1] = o
  <2>1. PICK w \in Elements(writes[t]) : w.obj = o
    BY <1>1, <1>4, <1>7
  <2>2. <<w.obj, w.old>> \in c.writes
    BY DEF IsCommitOf
  <2>3. QED
    BY <2>1, <2>2
<1>8. Tx(t) # Initial
  BY NoThreadAssumption DEF Tx, Initial
<1>9. QED
  BY <1>5, <1>6, <1>7, <1>8 DEF IsCommitted

\* The log stays well-formed.
LEMMA LogStep ==
  ASSUME Inv, HistInv, NEW u \in Threads, Thread(u)
  PROVE  LogOK'
<1>g. /\ \A o, v : Made(o, v) => Made(o, v)'
      /\ \A v : IsCommitted(v) => IsCommitted(v)'
  BY CommittedStays
<1>1. ASSUME NEW c \in committed
      PROVE  /\ \A w \in c.writes : /\ w \in Pair /\ Made(w[1], w[2])'
                                    /\ next'[w[1]][c.tx] = NullVersion \/ next'[w[1]][c.tx] = w[2]
             /\ \A r \in c.reads : r \in Pair /\ Made(r[1], r[2])'
             /\ \A v \in c.after : IsCommitted(v)'
  <2>1. /\ \A w \in c.writes : /\ w \in Pair /\ Made(w[1], w[2])
                               /\ next[w[1]][c.tx] = NullVersion \/ next[w[1]][c.tx] = w[2]
        /\ \A r \in c.reads : r \in Pair /\ Made(r[1], r[2])
        /\ \A v \in c.after : IsCommitted(v)
    BY DEF HistInv, LogOK
  <2>2. ASSUME NEW w \in c.writes PROVE next'[w[1]][c.tx] = NullVersion \/ next'[w[1]][c.tx] = w[2]
    <3>1. w[1] \in Objects /\ c.tx \in Versions
      BY <2>1 DEF Pair, Inv, TypeInv, HistoryOK
    <3>2. NextChanged(u, w[1], c.tx)
      BY <3>1, NextChange
    <3>3. ~(OwnerOf(c.tx) = u /\ c.tx[2] = attempt[u] /\ pc[u] \in {"acquire", "acquireLazily"})
      BY DEF Inv, CommittedOK, OwnerOf
    <3>4. QED
      BY <2>1, <3>2, <3>3 DEF NextChanged
  <2>3. QED
    BY <1>g, <2>1, <2>2
<1>2. CASE Kept
  <2>1. committed' = committed
    BY <1>2 DEF Kept
  <2>2. \A c \in committed : \A d \in committed : c.tx = d.tx => c = d
    BY DEF HistInv, LogOK
  <2>3. QED
    BY <1>1, <2>1, <2>2 DEF LogOK
<1>3. CASE CommitsNow(u)
  <2>1. PICK c0 : IsCommitOf(c0, u)
    BY <1>3, CommitRecord
  <2>2. /\ \A w \in c0.writes : w \in Pair /\ Made(w[1], w[2]) /\ next[w[1]][Tx(u)] = w[2]
        /\ ~IsCommitted(Tx(u))
    BY <1>3, <2>1, CommitWrites
  <2>3. next' = next /\ committed' = committed \cup {c0} /\ c0.tx = Tx(u) /\ c0.reads = seen[u] /\ c0.after = began[u]
    BY <1>3, <2>1 DEF CommitsNow, IsCommitOf
  <2>4. \A c \in committed' : \A d \in committed' : c.tx = d.tx => c = d
    BY <2>2, <2>3 DEF HistInv, LogOK, IsCommitted
  <2>5. (\A r \in c0.reads : r \in Pair /\ Made(r[1], r[2])') /\ \A v \in c0.after : IsCommitted(v)'
    <3>1. seen[u] \subseteq Pair
      BY Types
    <3>2. QED
      BY <1>g, <2>3, <3>1 DEF HistInv, PastOK
  <2>6. ASSUME NEW c \in committed'
        PROVE  /\ \A w \in c.writes : /\ w \in Pair /\ Made(w[1], w[2])'
                                      /\ next'[w[1]][c.tx] = NullVersion \/ next'[w[1]][c.tx] = w[2]
               /\ \A r \in c.reads : r \in Pair /\ Made(r[1], r[2])'
               /\ \A v \in c.after : IsCommitted(v)'
    <3>1. CASE c = c0
      BY <1>g, <2>2, <2>3, <2>5, <3>1
    <3>2. CASE c \in committed
      BY <1>1, <3>2
    <3>3. QED
      BY <2>3, <3>1, <3>2
  <2>7. QED
    BY <2>4, <2>6 DEF LogOK
<1>4. QED
  BY <1>2, <1>3, ThreadKept

\* The contents of an object are what was written last.
LEMMA ContentsStep ==
  ASSUME Inv, HistInv, NEW u \in Threads, Thread(u)
  PROVE  ContentsOK'
<1>g. \A o, v : (Made(o, v) => Made(o, v)') /\ (Gone(o, v) => Gone(o, v)')
  BY CommittedStays
<1>0. \A o \in Objects : /\ Made(o, Current(o)) /\ ~Gone(o, Current(o))
                         /\ \A v \in Versions : Made(o, v) => v = Current(o) \/ Gone(o, v)
  BY DEF HistInv, ContentsOK
<1>1. CASE Kept
  <2>1. /\ \A o \in Objects : Current(o)' = Current(o)
        /\ \A o, v : (Made(o, v)' <=> Made(o, v)) /\ (Gone(o, v)' <=> Gone(o, v))
    BY <1>1 DEF Kept, Made, Gone
  <2>2. QED
    BY <1>0, <2>1 DEF ContentsOK, Made, Gone
<1>2. CASE CommitsNow(u)
  <2>1. PICK c : IsCommitOf(c, u)
    BY <1>2, CommitRecord
  <2>2. /\ \A w \in c.writes :
              /\ w = <<w[1], w[2]>> /\ w[1] \in Objects
              /\ w[2] = Current(w[1]) /\ Made(w[1], w[2]) /\ Current(w[1])' = Tx(u)
        /\ \A o \in Objects : (\E w \in c.writes : w[1] = o) \/ Current(o)' = Current(o)
        /\ ~IsCommitted(Tx(u)) /\ Tx(u) # Initial
    BY <1>2, <2>1, CommitWrites
  <2>3. committed' = committed \cup {c} /\ c.tx = Tx(u)
    BY <2>1 DEF IsCommitOf
  <2>m. \A o, v : Made(o, v)' => Made(o, v) \/ (v = Tx(u) /\ \E w \in c.writes : w[1] = o)
    BY <2>3 DEF Made
  <2>n. \A o, v : Gone(o, v)' => Gone(o, v) \/ <<o, v>> \in c.writes
    BY <2>3 DEF Gone
  <2>k. \A o, v : <<o, v>> \in c.writes => Gone(o, v)'
    BY <2>3 DEF Gone
  <2>p. \A o : ~Made(o, Tx(u))
    BY <2>2, MadeFacts
  <2>q. \A o, v : Gone(o, v) => Made(o, v)
    BY DEF HistInv, LogOK, Gone
  <2>x. PICK x : x = Tx(u)
    OBVIOUS
  <2>4. ASSUME NEW o \in Objects, NEW w \in c.writes, w[1] = o
        PROVE  /\ Current(o)' = x /\ Made(o, x)' /\ ~Gone(o, x)'
               /\ \A v \in Versions : Made(o, v)' => v = x \/ Gone(o, v)'
    <3>y. PICK y : y = Current(o)
      OBVIOUS
    <3>1. w = <<o, y>> /\ Made(o, y) /\ Current(o)' = x
      BY <2>x, <2>2, <2>4, <3>y
    <3>2. Made(o, x)'
      BY <2>x, <2>3, <2>4 DEF Made
    <3>3. ~Gone(o, x)'
      <4>1. ~Gone(o, x)
        BY <2>x, <2>p, <2>q
      <4>2. <<o, x>> \notin c.writes
        <5>1. SUFFICES ASSUME <<o, x>> \in c.writes PROVE FALSE
          OBVIOUS
        <5>2. PICK e \in c.writes : e = <<o, x>>
          BY <5>1
        <5>3. e[1] = o /\ e[2] = x
          BY <5>2
        <5>4. Made(e[1], e[2])
          BY <2>2
        <5>5. QED
          BY <2>x, <2>p, <5>3, <5>4
      <4>3. QED
        BY <2>n, <4>1, <4>2
    <3>4. ASSUME NEW v \in Versions, Made(o, v)', v # x PROVE Gone(o, v)'
      <4>1. Made(o, v)
        BY <2>m, <2>x, <3>4
      <4>2. v = y \/ Gone(o, v)
        BY <1>0, <3>y, <4>1
      <4>3. Gone(o, y)'
        BY <2>k, <3>1
      <4>4. QED
        BY <1>g, <4>2, <4>3
    <3>5. QED
      BY <3>1, <3>2, <3>3, <3>4
  <2>5. ASSUME NEW o \in Objects, ~ \E w \in c.writes : w[1] = o
        PROVE  \E z : /\ Current(o)' = z /\ Made(o, z)' /\ ~Gone(o, z)'
                      /\ \A v \in Versions : Made(o, v)' => v = z \/ Gone(o, v)'
    <3>y. PICK y : y = Current(o)
      OBVIOUS
    <3>1. Current(o)' = y
      BY <2>2, <2>5, <3>y
    <3>2. \A v : <<o, v>> \notin c.writes
      <4>1. SUFFICES ASSUME NEW v, <<o, v>> \in c.writes PROVE FALSE
        OBVIOUS
      <4>2. PICK e \in c.writes : e = <<o, v>>
        BY <4>1
      <4>3. e[1] = o
        BY <4>2
      <4>4. QED
        BY <2>5, <4>3
    <3>3. \A v : Made(o, v)' => Made(o, v)
      BY <2>5, <2>m
    <3>4. \A v : Gone(o, v)' <=> Gone(o, v)
      BY <1>g, <2>n, <3>2
    <3>5. QED
      BY <1>0, <1>g, <3>y, <3>1, <3>3, <3>4
  <2>6. ASSUME NEW o \in Objects
        PROVE  /\ Made(o, Current(o))' /\ ~Gone(o, Current(o))'
               /\ \A v \in Versions : Made(o, v)' => v = Current(o)' \/ Gone(o, v)'
    <3>1. PICK y : /\ Current(o)' = y /\ Made(o, y)' /\ ~Gone(o, y)'
                   /\ \A v \in Versions : Made(o, v)' => v = y \/ Gone(o, v)'
      BY <2>4, <2>5
    <3>2. QED
      BY <3>1 DEF Made, Gone
  <2>7. QED
    BY <2>6 DEF ContentsOK
<1>3. QED
  BY <1>1, <1>2, ThreadKept

-------------------------------------------------------------------------------
(* The kinds of steps.                                                       *)

\* What thread t read that its validation has still to check.
Unchecked(t) ==
  IF pc[t] = "validate" THEN Elements(loc[t].todo)
  ELSE IF pc[t] \in {"opened", "cas"} THEN {}
  ELSE Elements(invisReads[t]) \cup Elements(LazyPairs(t))

\* Thread t stays in its attempt, and its lists keep what is in them.
Keeps(t) ==
  /\ pc[t] \notin {"idle", "restore"} /\ pc'[t] \notin {"idle", "restore"}
  /\ seen'[t] = seen[t] /\ began'[t] = began[t] /\ attempt'[t] = attempt[t] /\ mode' = mode
  /\ Elements(invisReads[t]) \subseteq Elements(invisReads'[t])
  /\ visReads[t] \subseteq visReads'[t]
  /\ \A w \in Elements(writes[t]) : \E x \in Elements(writes'[t]) : x.obj = w.obj /\ x.old = w.old

SameOpen(t) == loc'[t].obj = loc[t].obj /\ loc'[t].newer = loc[t].newer /\ loc'[t].kind = loc[t].kind

\* An attempt ends, or cleans up.
Finishes(t) ==
  /\ pc[t] # "idle" /\ attempt'[t] = attempt[t] /\ mode' = mode
  /\ \/ /\ pc'[t] = "restore" /\ began'[t] = began[t] /\ invisReads'[t] = invisReads[t]
        /\ seen'[t] = {} \/ (seen'[t] = seen[t] /\ committed' = committed)
     \/ /\ pc'[t] = "idle" /\ seen'[t] = {} /\ began'[t] = {} /\ invisReads'[t] = <<>>

\* A statement between the uses of versions.
Moves(t) ==
  /\ Keeps(t) /\ invisReads'[t] = invisReads[t]
  /\ ~OpenPass(t) /\ ~OpenPass(t)' /\ pc'[t] \notin {"validate", "cas"}

\* An open has chosen a version, which is current and will stay so until the
\* thread is killed or another acquires the object.
Enters(t) ==
  /\ Keeps(t) /\ invisReads'[t] = invisReads[t]
  /\ ~OpenPass(t) /\ pc'[t] \in {"install", "insert", "clone", "snapReaders"}
  /\ \E o \in Objects, v \in Versions : loc'[t].obj = o /\ loc'[t].newer = v /\ Protected(t, o, v)'

\* An open uses the version, and goes on to check all that was read invisibly or
\* to be written lazily, or all up to an earlier read of the same object.
Uses(t) ==
  /\ Keeps(t) /\ SameOpen(t) /\ OpenPass(t) /\ ~EndsRead(t) /\ OpenPass(t)'
  /\ \/ invisReads'[t] = invisReads[t]
     \/ /\ EndsRead(t)' /\ loc[t].kind = "RO" /\ ~mode[t].isVisible
        /\ Elements(invisReads'[t]) = Elements(invisReads[t]) \cup {<<loc[t].obj, loc[t].newer>>}
  /\ EndsRead(t)' /\ loc[t].kind = "RO" /\ ~mode[t].isVisible =>
       \/ <<loc[t].obj, loc[t].newer>> \in Elements(invisReads'[t])
       \/ \E v \in Versions : /\ <<loc[t].obj, v>> \in Elements(invisReads[t])
                              /\ <<loc[t].obj, v>> \in Unchecked(t)'
  /\ \/ Unchecked(t) \subseteq Unchecked(t)'
     \/ /\ EndsRead(t)' /\ loc[t].kind = "RO" /\ invisReads'[t] = invisReads[t]
        /\ \E v \in Versions : /\ <<loc[t].obj, v>> \in Elements(invisReads[t])
                               /\ <<loc[t].obj, v>> \in Unchecked(t)'

\* The commit begins to check all that was read invisibly.
Decides(t) ==
  /\ Keeps(t) /\ invisReads'[t] = invisReads[t]
  /\ pc[t] = "verify" /\ ~OpenPass(t) /\ ~OpenPass(t)'
  /\ pc'[t] = "cas" \/ (pc'[t] = "validate" /\ loc'[t].then = "cas")
  /\ Unchecked(t)' = Elements(invisReads[t])

\* A validation has found one of the reads to be current.
Checks(t) ==
  /\ Keeps(t) /\ SameOpen(t) /\ invisReads'[t] = invisReads[t] /\ writes'[t] = writes[t] /\ UNCHANGED memory
  /\ pc[t] = "validate" /\ (EndsRead(t)' <=> EndsRead(t))
  /\ (OpenPass(t) <=> EndsRead(t)) /\ (OpenPass(t)' <=> EndsRead(t)')
  /\ Deciding(t)' => Deciding(t)
  /\ \E r \in Pair : /\ r \in Unchecked(t) /\ isCurrent(t, r[1], r[2])
                     /\ Unchecked(t) = Unchecked(t)' \cup {r}

\* An open returns.
Returns(t) ==
  /\ pc[t] = "opened" /\ ~Killed(t) /\ pc'[t] = "work"
  /\ seen'[t] = seen[t] \cup {<<loc[t].obj, loc[t].newer>>}
  /\ began'[t] = began[t] /\ attempt'[t] = attempt[t] /\ mode' = mode
  /\ invisReads'[t] = invisReads[t] /\ visReads'[t] = visReads[t] /\ writes'[t] = writes[t]

Kind(t) == \/ Begin(t) \/ Finishes(t) \/ Moves(t) \/ Enters(t) \/ Uses(t)
           \/ Decides(t) \/ Checks(t) \/ Returns(t)

\* The elements of two sequences, one after the other.
LEMMA ElementsJoined ==
  ASSUME NEW S, NEW r \in Seq(S), NEW s \in Seq(S)
  PROVE  Elements(r \o s) = Elements(r) \cup Elements(s)
<1>1. PICK m \in Nat, n \in Nat : m = Len(r) /\ n = Len(s)
  OBVIOUS
<1>2. PICK z : z = r \o s
  OBVIOUS
<1>3. /\ DOMAIN r = 1 .. m /\ DOMAIN s = 1 .. n /\ DOMAIN z = 1 .. m + n
      /\ \A i \in 1 .. m + n : z[i] = IF i <= m THEN r[i] ELSE s[i - m]
  BY <1>1, <1>2
<1>4. \A i \in 1 .. m : i \in 1 .. m + n /\ z[i] = r[i]
  BY <1>3
<1>5. \A i \in 1 .. n : m + i \in 1 .. m + n /\ z[m + i] = s[i]
  BY <1>3
<1>6. \A i \in 1 .. m + n : i \in 1 .. m \/ (i - m \in 1 .. n /\ z[i] = s[i - m])
  BY <1>3
<1>7. /\ \A e : e \in Elements(r) <=> \E i \in 1 .. m : e = r[i]
      /\ \A e : e \in Elements(s) <=> \E i \in 1 .. n : e = s[i]
      /\ \A e : e \in Elements(z) <=> \E i \in 1 .. m + n : e = z[i]
  BY <1>3 DEF Elements
<1>8. ASSUME NEW e, e \in Elements(z) PROVE e \in Elements(r) \cup Elements(s)
  <2>1. PICK i \in 1 .. m + n : e = z[i]
    BY <1>7, <1>8
  <2>2. CASE i \in 1 .. m
    BY <1>4, <1>7, <2>1, <2>2
  <2>3. CASE i - m \in 1 .. n /\ z[i] = s[i - m]
    BY <1>7, <2>1, <2>3
  <2>4. QED
    BY <1>6, <2>2, <2>3
<1>9. ASSUME NEW e \in Elements(r) PROVE e \in Elements(z)
  BY <1>4, <1>7
<1>10. ASSUME NEW e \in Elements(s) PROVE e \in Elements(z)
  BY <1>5, <1>7
<1>11. QED
  BY <1>2, <1>8, <1>9, <1>10

\* Two lists of pairs, one after the other.
LEMMA PairsJoined ==
  ASSUME NEW p \in Seq(Pair), NEW q \in Seq(Pair)
  PROVE  \E z \in Seq(Pair) : z = p \o q /\ Elements(z) = Elements(p) \cup Elements(q)
<1>1. p \o q \in Seq(Pair)
  OBVIOUS
<1>2. Elements(p \o q) = Elements(p) \cup Elements(q)
  BY ElementsJoined
<1>3. QED
  BY <1>1, <1>2

\* The elements of the first part of a sequence.
LEMMA ElementsFirst ==
  ASSUME NEW S, NEW s \in Seq(S), NEW n \in 0 .. Len(s)
  PROVE  /\ SubSeq(s, 1, n) \in Seq(S)
         /\ \A i \in 1 .. n : s[i] \in Elements(SubSeq(s, 1, n))
         /\ n = Len(s) => Elements(SubSeq(s, 1, n)) = Elements(s)
<1>0. SubSeq(s, 1, n) \in Seq(S)
  OBVIOUS
<1>1. PICK z \in Seq(S) : z = SubSeq(s, 1, n)
  BY <1>0
<1>2. DOMAIN z = 1 .. n /\ \A i \in 1 .. n : z[i] = s[i]
  BY <1>1
<1>3. DOMAIN s = 1 .. Len(s)
  OBVIOUS
<1>4. QED
  BY <1>1, <1>2, <1>3 DEF Elements

\* After Validating, its list is what is unchecked.
LEMMA ValidatingUnchecked ==
  ASSUME Inv, NEW t \in Threads, NEW todo \in Seq(Pair), NEW goal \in {"opened", "cas"}, Validating(t, todo, goal)
  PROVE  /\ Unchecked(t)' = Elements(todo) /\ SameOpen(t)
         /\ pc'[t] = goal \/ (pc'[t] = "validate" /\ loc'[t].then = goal)
<1>1. PICK l \in Locals, label \in {goal, "validate"} :
           /\ pc'[t] = label /\ loc'[t] = l
           /\ l.obj = loc[t].obj /\ l.kind = loc[t].kind /\ l.newer = loc[t].newer
           /\ label = "validate" => l.then = goal /\ l.todo # <<>>
           /\ l.todo = todo
  <2>1. pc \in [Threads -> Labels] /\ loc \in [Threads -> Locals]
    BY Types
  <2>2. QED
    BY <2>1, ValidatingFacts
<1>2. todo = <<>> => Elements(todo) = {}
  BY ElementsType
<1>3. label = "validate" <=> todo # <<>>
  <2>1. pc'[t] = IF todo = <<>> THEN goal ELSE "validate"
    BY Types DEF Validating, GoTo
  <2>2. QED
    BY <1>1, <2>1
<1>4. QED
  BY <1>1, <1>2, <1>3 DEF Unchecked, SameOpen

\* The lists may also stay.
LEMMA KeepsWhole ==
  ASSUME NEW t \in Threads, pc[t] \notin {"idle", "restore"}, pc'[t] \notin {"idle", "restore"},
         seen' = seen, began' = began, attempt' = attempt, mode' = mode,
         invisReads' = invisReads, visReads' = visReads, writes' = writes
  PROVE  Keeps(t)
  BY DEF Keeps

\* abort (Descriptor_rstm.h:580-597).
LEMMA AbortKind ==
  ASSUME Inv, NEW t \in Threads, pc[t] # "idle", Abort(t)
  PROVE  Kind(t)
<1>1. pc'[t] = "restore" /\ seen'[t] = {}
  BY Types DEF Abort, GoTo
<1>2. attempt' = attempt /\ mode' = mode /\ began' = began /\ invisReads' = invisReads
  BY DEF Abort, self, lists
<1>3. QED
  BY <1>1, <1>2 DEF Kind, Finishes

\* The statements before the use of a version.
BeforeUse == {"work", "load", "look", "recheck", "decide", "contend", "cleanAbort", "cleanCommit",
              "acquire", "acquireLazily", "verify"}

\* A step from one to another is one of the moves.
LEMMA MoveKind ==
  ASSUME Inv, NEW t \in Threads, pc[t] \in BeforeUse, NEW label \in BeforeUse, pc' = [pc EXCEPT ![t] = label],
         seen' = seen, began' = began, attempt' = attempt, mode' = mode,
         invisReads' = invisReads, visReads' = visReads, writes' = writes
  PROVE  Kind(t)
<1>1. pc'[t] = label
  BY Types
<1>2. Keeps(t)
  BY <1>1, KeepsWhole DEF BeforeUse
<1>3. QED
  BY <1>1, <1>2 DEF Kind, Moves, OpenPass, EndsRead, BeforeUse

\* The statements that only move on.
LEMMA PlainKinds ==
  ASSUME Inv, NEW t \in Threads,
         \/ \E o \in Objects, kind \in {"RO", "RW"} : Open(t, o, kind)
         \/ Contend(t) \/ Look(t) \/ Recheck(t) \/ GiveWay(t) \/ KillOwner(t) \/ YieldToReaders(t)
         \/ Commit(t)
  PROVE  Kind(t)
<1>t. pc \in [Threads -> Labels] /\ loc \in [Threads -> Locals]
  BY Types
<1>1. ASSUME pc[t] \in BeforeUse, NEW label \in BeforeUse, GoTo(t, label),
             UNCHANGED self, UNCHANGED lists, UNCHANGED history
      PROVE  Kind(t)
  BY <1>1, MoveKind DEF GoTo, self, lists, history
<1>2. ASSUME Abort(t), pc[t] \in BeforeUse PROVE Kind(t)
  BY <1>2, AbortKind DEF BeforeUse
<1> USE DEF BeforeUse
<1>3. CASE \E o \in Objects, kind \in {"RO", "RW"} : Open(t, o, kind)
  BY <1>1, <1>2, <1>3 DEF Open
<1>4. CASE Contend(t) \/ Look(t) \/ GiveWay(t)
  BY <1>1, <1>2, <1>4 DEF Contend, Look, GiveWay
<1>5. CASE Recheck(t)
  <2>1. loc[t].state \in {"ACTIVE", "ABORTED", "COMMITTED"}
    BY <1>t DEF Locals, States
  <2>2. /\ pc[t] = "recheck" /\ UNCHANGED <<self, lists, history>>
        /\ \E label \in BeforeUse : GoTo(t, label)
    BY <1>5, <2>1 DEF Recheck, ChooseOlder
  <2>3. QED
    BY <1>1, <2>2
<1>6. CASE KillOwner(t)
  <2>1. /\ pc[t] = "decide" /\ UNCHANGED <<self, lists, history>>
        /\ \E label \in BeforeUse : GoTo(t, label)
    BY <1>6 DEF KillOwner, ChooseOlder
  <2>2. QED
    BY <1>1, <2>1
<1>7. CASE YieldToReaders(t)
  BY <1>1, <1>2, <1>7 DEF YieldToReaders
<1>8. CASE Commit(t)
  <2>1. CASE txState[t] # "ACTIVE"
    <3>1. pc'[t] = "restore" /\ pc[t] = "work" /\ UNCHANGED <<self, lists, history>>
      BY <1>8, <1>t, <2>1 DEF Commit, GoTo
    <3>2. QED
      BY <3>1 DEF Kind, Finishes, self, lists, history
  <2>2. CASE txState[t] = "ACTIVE"
    BY <1>1, <1>8, <2>2 DEF Commit
  <2>3. QED
    BY <2>1, <2>2
<1>9. QED
  BY <1>3, <1>4, <1>5, <1>6, <1>7, <1>8

\* The load of the header, and the CAS that cleans it: an open goes on with the
\* version that is current (Descriptor_rstm.h:1007-1028, 1128-1134).
LEMMA ChoiceKind ==
  ASSUME Inv, Inv', NEW t \in Threads, Load(t) \/ CleanAbort(t) \/ CleanCommit(t)
  PROVE  Kind(t)
<1>t. pc \in [Threads -> Labels] /\ loc \in [Threads -> Locals] /\ loc[t] \in Locals
      /\ header \in [Objects -> Header] /\ loc[t].obj \in Objects /\ loc[t].kind \in {"RO", "RW"}
      /\ mode[t] \in [isVisible : BOOLEAN, isLazy : BOOLEAN]
  BY Types DEF Locals
<1>1. /\ pc[t] \in {"load", "cleanAbort", "cleanCommit"}
      /\ seen' = seen /\ began' = began /\ attempt' = attempt /\ mode' = mode
      /\ invisReads' = invisReads /\ visReads' = visReads /\ writes' = writes
  BY DEF Load, CleanAbort, CleanCommit, self, lists, history
<1>2. \/ \E label \in {"look", "contend", "acquire"} : pc' = [pc EXCEPT ![t] = label]
      \/ /\ pc' = [pc EXCEPT ![t] = Use(t)] /\ Use(t) \in {"install", "insert", "clone"}
         /\ header'[loc[t].obj] = Unowned(loc'[t].newer) /\ loc'[t].obj = loc[t].obj
         /\ loc'[t].newer \in Versions
  <2>u. Use(t) \in {"install", "insert", "clone", "acquire"}
    BY <1>t DEF Use
  <2>1. CASE Load(t)
    <3>1. loc' = [loc EXCEPT ![t].snap = header[loc[t].obj], ![t].newer = header[loc[t].obj].ver]
      BY <2>1 DEF Load
    <3>2. loc'[t].obj = loc[t].obj /\ loc'[t].newer = header[loc[t].obj].ver
      BY <1>t, <3>1 DEF Locals
    <3>3. header[loc[t].obj] \in Header
      BY <1>t
    <3>4. header[loc[t].obj].ver \in Versions
      BY <3>3 DEF Header
    <3>5. ~header[loc[t].obj].owned => header[loc[t].obj] = Unowned(header[loc[t].obj].ver)
      BY <3>3 DEF Header, Unowned
    <3>6. GoTo(t, IF header[loc[t].obj].owned THEN "look" ELSE Use(t)) /\ header' = header
      BY <2>1 DEF Load, memory
    <3>7. CASE header[loc[t].obj].owned
      BY <3>6, <3>7 DEF GoTo
    <3>8. CASE ~header[loc[t].obj].owned
      BY <2>u, <3>2, <3>4, <3>5, <3>6, <3>8 DEF GoTo
    <3>9. QED
      BY <3>7, <3>8
  <2>2. CASE CleanAbort(t) \/ CleanCommit(t)
    <3>1. loc' = loc /\ GoTo(t, IF header'[loc[t].obj] = Unowned(loc[t].newer) THEN Use(t) ELSE "contend")
      BY <2>2 DEF CleanAbort, CleanCommit
    <3>2. loc[t].newer \in Versions
      BY <2>2, ThreadFacts DEF LocalOK, CleanAbort, CleanCommit
    <3>3. QED
      BY <2>u, <3>1, <3>2 DEF GoTo
  <2>3. QED
    BY <2>1, <2>2
<1>3. CASE \E label \in {"look", "contend", "acquire"} : pc' = [pc EXCEPT ![t] = label]
  <2>1. PICK label \in BeforeUse : pc' = [pc EXCEPT ![t] = label]
    BY <1>3 DEF BeforeUse
  <2>2. pc[t] \in BeforeUse
    BY <1>1 DEF BeforeUse
  <2>3. QED
    BY <1>1, <2>1, <2>2, MoveKind
<1>4. CASE /\ pc' = [pc EXCEPT ![t] = Use(t)] /\ Use(t) \in {"install", "insert", "clone"}
           /\ header'[loc[t].obj] = Unowned(loc'[t].newer) /\ loc'[t].obj = loc[t].obj
           /\ loc'[t].newer \in Versions
  <2>1. pc'[t] \in {"install", "insert", "clone"}
    BY <1>4, <1>t
  <2>2. Keeps(t)
    BY <1>1, <2>1, KeepsWhole
  <2>3. PICK o \in Objects, v \in Versions : o = loc[t].obj /\ v = loc'[t].newer
    BY <1>4, <1>t
  <2>4. Protected(t, o, v)'
    BY <1>4, <2>3 DEF Protected
  <2>5. ~OpenPass(t)
    BY <1>1 DEF OpenPass, EndsRead
  <2>6. QED
    BY <1>1, <1>4, <2>1, <2>2, <2>3, <2>4, <2>5 DEF Kind, Enters
<1>5. QED
  BY <1>2, <1>3, <1>4

\* The CAS of the bitmap of readers (Descriptor_rstm.h:1056-1067).
LEMMA InstallKind ==
  ASSUME Inv, NEW t \in Threads, InstallVisibleReader(t)
  PROVE  Kind(t)
<1>1. /\ pc[t] = "install" /\ pc'[t] = "check" /\ loc' = loc
      /\ seen' = seen /\ began' = began /\ attempt' = attempt /\ mode' = mode
      /\ invisReads' = invisReads /\ writes' = writes /\ visReads[t] \subseteq visReads'[t]
  BY Types DEF InstallVisibleReader, GoTo, self, history
<1>2. Keeps(t)
  BY <1>1 DEF Keeps
<1>3. LazyPairs(t)' = LazyPairs(t)
  BY <1>1 DEF LazyPairs
<1>4. Unchecked(t)' = Unchecked(t) /\ OpenPass(t) /\ OpenPass(t)' /\ ~EndsRead(t) /\ ~EndsRead(t)'
  BY <1>1, <1>3 DEF Unchecked, OpenPass, EndsRead
<1>5. QED
  BY <1>1, <1>2, <1>4 DEF Kind, Uses, SameOpen

\* A visible reader checks the header again, and validates
\* (Descriptor_rstm.h:1222-1237).
LEMMA CheckKind ==
  ASSUME Inv, HistInv, NEW t \in Threads, CheckHeader(t)
  PROVE  Kind(t)
<1>0. pc[t] = "check" /\ mode[t].isVisible
  BY ThreadFacts DEF CheckHeader, ModeOK
<1>1. CASE ~IsInTime(t)
  BY <1>0, <1>1, AbortKind DEF CheckHeader
<1>2. CASE IsInTime(t)
  <2>1. Validating(t, LazyPairs(t), "opened") /\ UNCHANGED <<memory, self, lists, history>>
    BY <1>2 DEF CheckHeader
  <2>2. LazyPairs(t) \in Seq(Pair)
    BY PairsType
  <2>3. /\ Unchecked(t)' = Elements(LazyPairs(t)) /\ SameOpen(t)
        /\ pc'[t] = "opened" \/ (pc'[t] = "validate" /\ loc'[t].then = "opened")
    BY <2>1, <2>2, ValidatingUnchecked
  <2>4. invisReads[t] = <<>>
    BY <1>0 DEF HistInv, InvisOK
  <2>5. Elements(invisReads[t]) = {}
    BY <2>4 DEF Elements
  <2>6. Keeps(t) /\ invisReads' = invisReads
    BY <1>0, <2>1, <2>3, KeepsWhole DEF self, lists, history
  <2>7. OpenPass(t) /\ OpenPass(t)' /\ ~EndsRead(t) /\ EndsRead(t)' /\ Unchecked(t) = Elements(LazyPairs(t))
    BY <1>0, <2>3, <2>5 DEF OpenPass, EndsRead, Unchecked
  <2>8. QED
    BY <1>0, <2>3, <2>6, <2>7 DEF Kind, Uses
<1>3. QED
  BY <1>1, <1>2

\* addValidateInvisRead (Descriptor_rstm.h:840-860).
LEMMA InsertKind ==
  ASSUME Inv, NEW t \in Threads, InsertInvisRead(t)
  PROVE  Kind(t)
<1>0. pc[t] = "insert" /\ ~mode[t].isVisible /\ loc[t].kind = "RO"
  BY ThreadFacts DEF InsertInvisRead, ModeOK
<1>o. PICK o \in Objects, v \in Versions : o = loc[t].obj /\ v = loc[t].newer
  BY <1>0, ThreadFacts, Types DEF LocalOK, Locals
<1>s. PICK s \in Seq(Pair), n \in Nat : s = invisReads[t] /\ n = Len(s) /\ DOMAIN s = 1 .. n
  BY Types
<1>k. PICK known : known = {i \in DOMAIN s : s[i][1] = o}
  OBVIOUS
<1>l. PICK r \in Seq(Pair) : r = LazyPairs(t)
  BY PairsType
<1>m. PICK first : first = CHOOSE i \in known : \A k \in known : i <= k
  OBVIOUS
<1>u. PICK upTo : upTo = IF known = {} THEN n ELSE first
  OBVIOUS
<1>1. upTo \in 0 .. n /\ (known # {} => upTo \in known)
  <2>1. known \subseteq 1 .. n /\ known \subseteq Nat
    BY <1>s, <1>k
  <2>2. CASE known = {}
    BY <1>u, <2>2
  <2>3. CASE known # {}
    <3>1. \E i \in known : \A k \in known : i <= k
      BY <2>1, <2>3, NatLeast
    <3>2. upTo \in known
      BY <1>m, <1>u, <2>3, <3>1
    <3>3. QED
      BY <2>1, <3>2
  <2>4. QED
    BY <2>2, <2>3
<1>2. /\ invisReads' = [invisReads EXCEPT ![t] = IF known = {} THEN Append(@, <<o, v>>) ELSE @]
      /\ Validating(t, SubSeq(s, 1, upTo) \o r, "opened")
      /\ seen' = seen /\ began' = began /\ attempt' = attempt /\ mode' = mode
      /\ visReads' = visReads /\ writes' = writes
  BY <1>o, <1>s, <1>k, <1>l, <1>m, <1>u DEF InsertInvisRead, self, history
<1>3. /\ SubSeq(s, 1, upTo) \in Seq(Pair)
      /\ \A i \in 1 .. upTo : s[i] \in Elements(SubSeq(s, 1, upTo))
      /\ upTo = n => Elements(SubSeq(s, 1, upTo)) = Elements(s)
  BY <1>s, <1>1, ElementsFirst
<1>z. PICK z \in Seq(Pair) : z = SubSeq(s, 1, upTo)
  BY <1>3
<1>j. PICK todo \in Seq(Pair) : todo = z \o r /\ Elements(todo) = Elements(z) \cup Elements(r)
  BY PairsJoined
<1>4. /\ Unchecked(t)' = Elements(todo) /\ SameOpen(t)
      /\ pc'[t] = "opened" \/ (pc'[t] = "validate" /\ loc'[t].then = "opened")
  BY <1>2, <1>z, <1>j, ValidatingUnchecked
<1>5. /\ OpenPass(t) /\ OpenPass(t)' /\ ~EndsRead(t) /\ EndsRead(t)'
      /\ Unchecked(t) = Elements(s) \cup Elements(r)
  BY <1>0, <1>4, <1>s, <1>l DEF OpenPass, EndsRead, Unchecked
<1>6. CASE known = {}
  <2>e. PICK e \in Pair : e = <<o, v>>
    BY DEF Pair
  <2>1. invisReads'[t] = Append(s, e) /\ invisReads[t] = s
    BY <1>2, <1>6, <1>s, <2>e, Types
  <2>2. Elements(invisReads'[t]) = Elements(s) \cup {e}
    BY <2>1, ElementsAppend
  <2>3. Keeps(t)
    BY <1>0, <1>2, <1>4, <2>1, <2>2 DEF Keeps
  <2>4. upTo = n /\ Unchecked(t) \subseteq Unchecked(t)'
    BY <1>6, <1>u, <1>3, <1>z, <1>j, <1>4, <1>5
  <2>5. QED
    BY <1>0, <1>o, <1>4, <1>5, <2>e, <2>1, <2>2, <2>3, <2>4 DEF Kind, Uses
<1>7. CASE known # {}
  <2>1. invisReads' = invisReads
    BY <1>2, <1>7, Types
  <2>2. upTo \in 1 .. n /\ s[upTo][1] = o /\ s[upTo] \in Pair
    BY <1>1, <1>7, <1>k, <1>s
  <2>3. PICK x \in Versions : s[upTo] = <<o, x>>
    BY <2>2 DEF Pair
  <2>4. <<o, x>> \in Elements(s)
    BY <1>s, <2>2, <2>3 DEF Elements
  <2>5. <<o, x>> \in Elements(z)
    <3>1. upTo \in 1 .. upTo
      BY <1>s, <2>2
    <3>2. s[upTo] \in Elements(SubSeq(s, 1, upTo))
      BY <1>3, <3>1
    <3>3. QED
      BY <1>z, <2>3, <3>2
  <2>6. <<loc[t].obj, x>> \in Elements(invisReads[t]) /\ <<loc[t].obj, x>> \in Unchecked(t)'
    BY <1>o, <1>s, <1>j, <1>4, <2>4, <2>5
  <2>7. Keeps(t)
    BY <1>0, <1>2, <1>4, <2>1, KeepsWhole
  <2>8. QED
    BY <1>0, <1>4, <1>5, <2>1, <2>6, <2>7 DEF Kind, Uses
<1>8. QED
  BY <1>6, <1>7

\* An eager writer acquires the object (Descriptor_rstm.h:1428-1446).
LEMMA AcquireKind ==
  ASSUME Inv, NEW t \in Threads, Acquire(t)
  PROVE  Kind(t)
<1>t. pc \in [Threads -> Labels] /\ header \in [Objects -> Header] /\ next \in [Objects -> [Versions -> AnyVersion]]
  BY Types
<1>0. pc[t] = "acquire" /\ ~mode[t].isLazy
  BY ThreadFacts DEF Acquire, ModeOK
<1>1. /\ seen' = seen /\ began' = began /\ attempt' = attempt /\ mode' = mode
      /\ invisReads' = invisReads /\ visReads' = visReads /\ loc' = loc
  BY DEF Acquire, self, history
<1>2. CASE ~Swaps(loc[t].obj, loc[t].snap)
  <2>1. writes' = writes /\ pc' = [pc EXCEPT ![t] = "contend"]
    BY <1>2 DEF Acquire, GoTo
  <2>2. QED
    BY <1>0, <1>1, <2>1, MoveKind DEF BeforeUse
<1>3. CASE Swaps(loc[t].obj, loc[t].snap)
  <2>o. PICK o \in Objects, v \in Versions : o = loc[t].obj /\ v = loc[t].newer
    BY <1>0, ThreadFacts, Types DEF LocalOK, Locals
  <2>e. PICK new \in Versions, e \in Entry : IsNewEntry(t, o, v, TRUE, new, e)
    BY <1>0, NewEntry
  <2>n. /\ new = NewVersion(t, o) /\ new = <<t, attempt[t], new[3]>> /\ new[3] \in 1 .. 2
        /\ e = [obj |-> o, old |-> v, new |-> new, acquired |-> TRUE]
        /\ e.obj = o /\ e.old = v /\ e.new = new
        /\ ~ \E w \in Elements(writes[t]) : w.obj = o /\ w.new = new
        /\ OwnerOf(new) = t
    BY <2>e DEF IsNewEntry, OwnerOf
  <2>1. /\ header' = [header EXCEPT ![o] = Owned(new)] /\ next' = [next EXCEPT ![o][new] = v]
        /\ writes' = [writes EXCEPT ![t] = Append(@, e)] /\ pc'[t] = "snapReaders"
    BY <1>3, <1>t, <2>o, <2>n DEF Acquire, Cloned, GoTo
  <2>2. Elements(writes'[t]) = Elements(writes[t]) \cup {e}
    <3>1. EntryAdded(t, e)
      BY <1>1, <2>n, <2>1, AppendEntry
    <3>2. QED
      BY <3>1 DEF EntryAdded
  <2>3. Keeps(t)
    BY <1>0, <1>1, <2>1, <2>2 DEF Keeps
  <2>4. header'[o] = Owned(new)
    BY <1>t, <2>1
  <2>5. next'[o][new] = v
    <3>1. IsUpdate(next', next, o, new, v) /\ v \in AnyVersion
      BY <2>1 DEF IsUpdate, AnyVersion
    <3>2. QED
      BY <1>t, <3>1, NextUpdate
  <2>6. Protected(t, o, v)'
    BY <2>n, <2>4, <2>5 DEF Protected, Owned
  <2>7. ~OpenPass(t)
    BY <1>0 DEF OpenPass, EndsRead
  <2>8. QED
    BY <1>1, <2>o, <2>1, <2>3, <2>6, <2>7 DEF Kind, Enters
<1>4. QED
  BY <1>2, <1>3

\* A lazy writer clones the version (Descriptor_rstm.h:1420-1450).
LEMMA CloneKind ==
  ASSUME Inv, NEW t \in Threads, CloneLazily(t)
  PROVE  Kind(t)
<1>0. pc[t] = "clone" /\ mode[t].isLazy /\ loc[t].kind = "RW"
  BY ThreadFacts DEF CloneLazily, ModeOK
<1>o. PICK o \in Objects, v \in Versions : o = loc[t].obj /\ v = loc[t].newer
  BY <1>0, ThreadFacts, Types DEF LocalOK, Locals
<1>e. PICK new \in Versions, e \in Entry : IsNewEntry(t, o, v, FALSE, new, e)
  BY <1>0, NewEntry
<1>n. /\ new = NewVersion(t, o) /\ new = <<t, attempt[t], new[3]>> /\ new[3] \in 1 .. 2
      /\ e = [obj |-> o, old |-> v, new |-> new, acquired |-> FALSE]
      /\ e.obj = o /\ e.old = v /\ e.new = new
      /\ ~ \E w \in Elements(writes[t]) : w.obj = o /\ w.new = new
  BY <1>e DEF IsNewEntry
<1>1. /\ writes' = [writes EXCEPT ![t] = Append(@, e)]
      /\ Validating(t, invisReads[t] \o Pairs(writes'[t]), "opened")
      /\ seen' = seen /\ began' = began /\ attempt' = attempt /\ mode' = mode
      /\ invisReads' = invisReads /\ visReads' = visReads
  BY <1>o, <1>n DEF CloneLazily, Cloned, self, history
<1>s. PICK s \in Seq(Entry), z \in Seq(Entry) :
        s = writes[t] /\ z = Append(s, e) /\ z = writes'[t] /\ Elements(z) = Elements(s) \cup {e}
  <2>1. PICK s \in Seq(Entry) : s = writes[t]
    BY Types
  <2>a. Append(s, e) \in Seq(Entry) /\ Elements(Append(s, e)) = Elements(s) \cup {e}
    BY ElementsAppend
  <2>2. PICK z \in Seq(Entry) : z = Append(s, e) /\ Elements(z) = Elements(s) \cup {e}
    BY <2>a
  <2>3. writes'[t] = z
    BY <1>1, <2>1, <2>2, Types
  <2>4. QED
    BY <2>1, <2>2, <2>3
<1>p. PICK p \in Seq(Pair), q \in Seq(Pair), r \in Seq(Pair) : p = invisReads[t] /\ q = Pairs(z) /\ r = Pairs(s)
  BY Types, PairsSeq
<1>2. Elements(r) \subseteq Elements(q)
  <2>1. /\ \A k \in DOMAIN s : k \in DOMAIN z /\ z[k] = s[k]
        /\ DOMAIN r = DOMAIN s /\ DOMAIN q = DOMAIN z
        /\ \A k \in DOMAIN s : r[k] = <<s[k].obj, s[k].old>>
        /\ \A k \in DOMAIN z : q[k] = <<z[k].obj, z[k].old>>
    <3>1. \A k \in DOMAIN s : k \in DOMAIN z /\ z[k] = s[k]
      <4>1. PICK n \in Nat : n = Len(s)
        OBVIOUS
      <4>a. /\ DOMAIN s = 1 .. Len(s) /\ DOMAIN Append(s, e) = 1 .. Len(s) + 1
            /\ \A k \in 1 .. Len(s) : Append(s, e)[k] = s[k]
        BY ElementsAppend
      <4>2. DOMAIN s = 1 .. n /\ DOMAIN z = 1 .. n + 1 /\ \A k \in 1 .. n : z[k] = s[k]
        BY <1>s, <4>1, <4>a
      <4>3. QED
        BY <4>2
    <3>2. r = [k \in DOMAIN s |-> <<s[k].obj, s[k].old>>] /\ q = [k \in DOMAIN z |-> <<z[k].obj, z[k].old>>]
      BY <1>p DEF Pairs
    <3>3. QED
      BY <3>1, <3>2
  <2>2. \A k \in DOMAIN r : k \in DOMAIN q /\ q[k] = r[k]
    BY <2>1
  <2>3. QED
    BY <2>2 DEF Elements
<1>j. PICK todo \in Seq(Pair) : todo = p \o q /\ Elements(todo) = Elements(p) \cup Elements(q)
  BY PairsJoined
<1>3. /\ Unchecked(t)' = Elements(todo) /\ SameOpen(t)
      /\ pc'[t] = "opened" \/ (pc'[t] = "validate" /\ loc'[t].then = "opened")
  BY <1>1, <1>s, <1>p, <1>j, ValidatingUnchecked
<1>4. LazyPairs(t) = r
  BY <1>0, <1>s, <1>p DEF LazyPairs
<1>5. /\ OpenPass(t) /\ OpenPass(t)' /\ ~EndsRead(t) /\ EndsRead(t)'
      /\ Unchecked(t) = Elements(p) \cup Elements(r)
  BY <1>0, <1>3, <1>4, <1>p DEF OpenPass, EndsRead, Unchecked
<1>6. Keeps(t)
  BY <1>0, <1>1, <1>s, <1>3 DEF Keeps
<1>7. QED
  BY <1>0, <1>1, <1>2, <1>3, <1>5, <1>6, <1>j DEF Kind, Uses

\* A lazy writer acquires one object (Descriptor_rstm.h:879-895).
LEMMA AcquireLazilyKind ==
  ASSUME Inv, NEW t \in Threads, AcquireLazily(t)
  PROVE  Kind(t)
<1>t. pc \in [Threads -> Labels]
  BY Types
<1>0. pc[t] = "acquireLazily" /\ mode[t].isLazy
  BY ThreadFacts DEF AcquireLazily, ModeOK
<1>s. PICK s \in Seq(Entry) : s = writes[t]
  BY Types
<1>l. PICK left : left = {i \in DOMAIN s : ~s[i].acquired}
  OBVIOUS
<1>i. PICK i : i = CHOOSE k \in left : \A m \in left : k <= m
  OBVIOUS
<1>1. CASE left = {}
  <2>1. GoTo(t, "verify") /\ UNCHANGED <<memory, self, loc, lists, history>>
    BY <1>1, <1>l, <1>s DEF AcquireLazily
  <2>2. QED
    BY <1>0, <2>1, MoveKind DEF BeforeUse, GoTo, self, lists, history
<1>2. CASE left # {}
  <2>i. i \in left
    <3>1. left \subseteq Nat
      BY <1>l
    <3>2. \E k \in left : \A m \in left : k <= m
      BY <1>2, <3>1, NatLeast
    <3>3. QED
      BY <1>i, <3>2
  <2>w. PICK w \in Entry : w = s[i]
    BY <2>i, <1>l
  <2>1. CASE ~Swaps(w.obj, Unowned(w.old))
    <3>1. Abort(t)
      BY <1>2, <1>l, <1>i, <1>s, <2>w, <2>1 DEF AcquireLazily
    <3>2. QED
      BY <1>0, <3>1, AbortKind
  <2>2. CASE Swaps(w.obj, Unowned(w.old))
    <3>z. PICK z : IsAcquisition(z, s, i)
      BY DEF IsAcquisition
    <3>1. /\ writes' = [writes EXCEPT ![t][i].acquired = TRUE] /\ GoTo(t, "snapReaders")
          /\ UNCHANGED <<self, invisReads, visReads, history>>
      BY <1>2, <1>l, <1>i, <1>s, <2>w, <2>2 DEF AcquireLazily
    <3>2. writes'[t] = z
      BY <1>s, <3>1, <3>z, Types DEF IsAcquisition
    <3>3. /\ DOMAIN z = DOMAIN s
          /\ \A k \in DOMAIN s : z[k].obj = s[k].obj /\ z[k].old = s[k].old
      BY <1>l, <2>i, <3>z, SetAcquired
    <3>4. \A x \in Elements(writes[t]) : \E y \in Elements(writes'[t]) : y.obj = x.obj /\ y.old = x.old
      BY <1>s, <3>2, <3>3 DEF Elements
    <3>5. pc'[t] = "snapReaders" /\ Keeps(t) /\ mode' = mode /\ invisReads' = invisReads
      BY <1>t, <1>0, <3>1, <3>4 DEF Keeps, GoTo, self, history
    <3>6. QED
      BY <1>0, <3>5 DEF Kind, Moves, OpenPass, EndsRead
  <2>3. QED
    BY <2>1, <2>2
<1>3. QED
  BY <1>1, <1>2

\* The readers of the object are killed; after the last an eager open validates
\* (Descriptor_rstm.h:1069-1090).
LEMMA KillingKind ==
  ASSUME Inv, NEW t \in Threads, ReadOK(t), SnapReaders(t) \/ KillReader(t)
  PROVE  Kind(t)
<1>1. /\ pc[t] \in {"snapReaders", "killReaders"} /\ \E victims \in SUBSET Threads : KillingReaders(t, victims)
      /\ UNCHANGED <<self, lists, history>>
  <2>1. loc[t].obj \in Objects /\ loc[t].pending \in SUBSET Threads
    BY Types DEF Locals
  <2>2. Victims(t) \in SUBSET Threads
    BY <2>1, Types DEF Victims
  <2>3. \A r : loc[t].pending \ {r} \in SUBSET Threads
    BY <2>1
  <2>4. QED
    BY <2>2, <2>3 DEF SnapReaders, KillReader
<1>v. PICK victims \in SUBSET Threads : KillingReaders(t, victims)
  BY <1>1
<1>2. ~mode[t].isLazy => loc[t].kind = "RW"
  BY <1>1 DEF ReadOK, SeenOK
<1>3. CASE ~mode[t].isLazy /\ Validating(t, invisReads[t], "opened")
  <2>1. /\ Unchecked(t)' = Elements(invisReads[t]) /\ SameOpen(t)
        /\ pc'[t] = "opened" \/ (pc'[t] = "validate" /\ loc'[t].then = "opened")
    BY <1>3, ValidatingUnchecked, Types
  <2>2. Keeps(t) /\ invisReads' = invisReads
    BY <1>1, <2>1, KeepsWhole DEF self, lists, history
  <2>3. LazyPairs(t) = <<>> /\ Elements(<<>>) = {}
    BY <1>3 DEF LazyPairs, Elements
  <2>4. OpenPass(t) /\ OpenPass(t)' /\ ~EndsRead(t) /\ EndsRead(t)' /\ Unchecked(t) = Elements(invisReads[t])
    BY <1>1, <1>3, <2>1, <2>3 DEF OpenPass, EndsRead, Unchecked
  <2>5. QED
    BY <1>2, <1>3, <2>1, <2>2, <2>4 DEF Kind, Uses
<1>4. CASE ~(~mode[t].isLazy /\ Validating(t, invisReads[t], "opened"))
  <2>1. /\ pc'[t] \in {"killReaders", "acquireLazily"}
        /\ pc'[t] = "acquireLazily" => mode[t].isLazy
        /\ pc'[t] = "killReaders" => SameOpen(t)
    BY <1>v, <1>4, KillingFacts DEF SameOpen
  <2>2. Keeps(t) /\ invisReads' = invisReads /\ mode' = mode /\ writes' = writes
    BY <1>1, <2>1, KeepsWhole DEF self, lists, history
  <2>3. CASE mode[t].isLazy
    <3>1. ~OpenPass(t) /\ ~OpenPass(t)'
      BY <1>1, <2>1, <2>2, <2>3 DEF OpenPass, EndsRead
    <3>2. QED
      BY <2>1, <2>2, <3>1 DEF Kind, Moves
  <2>4. CASE ~mode[t].isLazy
    <3>1. OpenPass(t) /\ OpenPass(t)' /\ ~EndsRead(t) /\ ~EndsRead(t)' /\ SameOpen(t)
      BY <1>1, <2>1, <2>2, <2>4 DEF OpenPass, EndsRead
    <3>2. Unchecked(t)' = Unchecked(t)
      BY <1>1, <2>1, <2>2, <2>4 DEF Unchecked, LazyPairs
    <3>3. QED
      BY <2>2, <3>1, <3>2 DEF Kind, Uses
  <2>5. QED
    BY <2>3, <2>4
<1>5. QED
  BY <1>3, <1>4

\* The validation of an open or of a commit (Descriptor_rstm.h:796-838).
LEMMA ValidateKind ==
  ASSUME Inv, NEW t \in Threads, Validate(t)
  PROVE  Kind(t)
<1>0. pc[t] = "validate" /\ loc[t].then \in {"opened", "cas"} /\ loc[t].todo # <<>>
  BY ThreadFacts DEF Validate, LocalOK
<1>s. PICK s \in Seq(Pair) : s = loc[t].todo
  BY Types DEF Locals
<1>g. PICK goal \in {"opened", "cas"} : goal = loc[t].then
  BY <1>0
<1>1. CASE Abort(t)
  BY <1>0, <1>1, AbortKind
<1>2. CASE ~Abort(t)
  <2>1. isCurrent(t, Head(s)[1], Head(s)[2]) /\ Validating(t, Tail(s), goal) /\ UNCHANGED <<memory, self, lists, history>>
    BY <1>2, <1>s, <1>g DEF Validate
  <2>2. Tail(s) \in Seq(Pair) /\ Head(s) \in Pair /\ Elements(s) = {Head(s)} \cup Elements(Tail(s))
    BY <1>0, <1>s, ElementsTail
  <2>3. /\ Unchecked(t)' = Elements(Tail(s)) /\ SameOpen(t)
        /\ pc'[t] = goal \/ (pc'[t] = "validate" /\ loc'[t].then = goal)
    BY <2>1, <2>2, ValidatingUnchecked
  <2>4. Keeps(t) /\ invisReads' = invisReads /\ writes' = writes /\ txState' = txState /\ mode' = mode
    BY <1>0, <2>1, <2>3, KeepsWhole DEF memory, self, lists, history
  <2>5. Unchecked(t) = Elements(s)
    BY <1>0, <1>s DEF Unchecked
  <2>6. /\ EndsRead(t)' <=> EndsRead(t)
        /\ (OpenPass(t) <=> EndsRead(t)) /\ (OpenPass(t)' <=> EndsRead(t)')
        /\ Deciding(t)' => Deciding(t)
    BY <1>0, <1>g, <2>3, <2>4 DEF EndsRead, OpenPass, Deciding
  <2>7. \E r \in Pair : r \in Unchecked(t) /\ isCurrent(t, r[1], r[2]) /\ Unchecked(t) = Unchecked(t)' \cup {r}
    <3>1. PICK r \in Pair : r = Head(s)
      BY <2>2
    <3>2. QED
      BY <2>1, <2>2, <2>3, <2>5, <3>1
  <2>8. QED
    BY <1>0, <2>1, <2>3, <2>4, <2>6, <2>7 DEF Kind, Checks
<1>3. QED
  BY <1>1, <1>2

\* The version goes to the program (Descriptor_rstm.h:1257-1264), and the commit
\* begins to validate (Descriptor_rstm.h:753-781).
LEMMA OpenedKind ==
  ASSUME Inv, NEW t \in Threads, Opened(t) \/ VerifyInvisReads(t)
  PROVE  Kind(t)
<1>1. CASE Opened(t) /\ Killed(t)
  BY <1>1, AbortKind DEF Opened
<1>2. CASE Opened(t) /\ ~Killed(t)
  <2>1. /\ pc[t] = "opened" /\ pc' = [pc EXCEPT ![t] = "work"]
        /\ seen' = [seen EXCEPT ![t] = @ \cup {<<loc[t].obj, loc[t].newer>>}]
        /\ began' = began /\ UNCHANGED <<self, lists>>
    BY <1>2 DEF Opened, GoTo
  <2>2. pc'[t] = "work" /\ seen'[t] = seen[t] \cup {<<loc[t].obj, loc[t].newer>>}
    BY <2>1, Types
  <2>3. QED
    BY <1>2, <2>1, <2>2 DEF Kind, Returns, self, lists
<1>3. CASE VerifyInvisReads(t)
  <2>1. pc[t] = "verify" /\ Validating(t, invisReads[t], "cas") /\ UNCHANGED <<memory, self, lists, history>>
    BY <1>3 DEF VerifyInvisReads
  <2>2. /\ Unchecked(t)' = Elements(invisReads[t])
        /\ pc'[t] = "cas" \/ (pc'[t] = "validate" /\ loc'[t].then = "cas")
    BY <2>1, ValidatingUnchecked, Types
  <2>3. Keeps(t) /\ invisReads' = invisReads
    BY <2>1, <2>2, KeepsWhole DEF self, lists, history
  <2>4. ~OpenPass(t) /\ ~OpenPass(t)'
    BY <2>1, <2>2 DEF OpenPass, EndsRead
  <2>5. QED
    BY <2>1, <2>2, <2>3, <2>4 DEF Kind, Decides
<1>4. QED
  BY <1>1, <1>2, <1>3

\* commit and cleanup (Descriptor_rstm.h:743-807).
LEMMA EndKind ==
  ASSUME Inv, NEW t \in Threads,
         CommitCas(t) \/ RestoreHeader(t) \/ RemoveVisibleReader(t) \/ EndTransaction(t)
  PROVE  Kind(t)
<1>t. /\ pc \in [Threads -> Labels] /\ seen \in [Threads -> SUBSET Pair] /\ began \in [Threads -> SUBSET Versions]
      /\ invisReads \in [Threads -> Seq(Pair)]
  BY Types DEF Inv, TypeInv, HistoryOK
<1>1. CASE CommitCas(t)
  <2>1. /\ pc[t] = "cas" /\ pc'[t] = "restore" /\ seen'[t] = {}
        /\ began' = began /\ UNCHANGED <<self, lists>>
    BY <1>1, <1>t DEF CommitCas, GoTo
  <2>2. QED
    BY <2>1 DEF Kind, Finishes, self, lists
<1>2. CASE RestoreHeader(t) \/ RemoveVisibleReader(t)
  <2>1. pc[t] = "restore" /\ pc' = pc /\ invisReads' = invisReads /\ UNCHANGED <<self, history>>
    BY <1>2 DEF RestoreHeader, RemoveVisibleReader
  <2>2. QED
    BY <2>1 DEF Kind, Finishes, self, history
<1>3. CASE EndTransaction(t)
  <2>1. /\ pc[t] = "restore" /\ pc'[t] = "idle" /\ seen'[t] = {} /\ began'[t] = {} /\ invisReads'[t] = <<>>
        /\ UNCHANGED self
    BY <1>3, <1>t DEF EndTransaction, GoTo
  <2>2. QED
    BY <2>1 DEF Kind, Finishes, self
<1>4. QED
  BY <1>1, <1>2, <1>3

\* Every step is of one of the kinds.
LEMMA StepKinds ==
  ASSUME Inv, Inv', HistInv, NEW t \in Threads, ReadOK(t), Thread(t)
  PROVE  Kind(t)
<1>1. CASE Begin(t)
  BY <1>1 DEF Kind
<1>2. CASE \/ \E o \in Objects, kind \in {"RO", "RW"} : Open(t, o, kind)
           \/ Contend(t) \/ Look(t) \/ Recheck(t) \/ GiveWay(t) \/ KillOwner(t) \/ YieldToReaders(t)
           \/ Commit(t)
  BY <1>2, PlainKinds
<1>3. CASE Load(t) \/ CleanAbort(t) \/ CleanCommit(t)
  BY <1>3, ChoiceKind
<1>4. CASE InstallVisibleReader(t) \/ CheckHeader(t) \/ InsertInvisRead(t) \/ Acquire(t) \/ CloneLazily(t)
  BY <1>4, InstallKind, CheckKind, InsertKind, AcquireKind, CloneKind
<1>5. CASE AcquireLazily(t) \/ SnapReaders(t) \/ KillReader(t) \/ Validate(t) \/ VerifyInvisReads(t) \/ Opened(t)
  BY <1>5, AcquireLazilyKind, KillingKind, ValidateKind, OpenedKind
<1>6. CASE CommitCas(t) \/ RestoreHeader(t) \/ RemoveVisibleReader(t) \/ EndTransaction(t)
  BY <1>6, EndKind
<1>7. QED
  BY <1>1, <1>2, <1>3, <1>4, <1>5, <1>6 DEF Thread

-------------------------------------------------------------------------------
(* The past of an attempt.                                                   *)

\* What the past of thread t says of the attempts that ended: none is of the
\* current attempt unless that has ended.
LEMMA OwnAttempts ==
  ASSUME Inv, NEW c \in committed, NEW t \in Threads, OwnerOf(c.tx) = t
  PROVE  /\ c.tx[2] \in Nat /\ attempt[t] \in Nat /\ c.tx[2] <= attempt[t]
         /\ pc[t] \notin {"idle", "restore"} => c.tx[2] < attempt[t]
<1>1. PICK u \in Threads :
        /\ c.tx = <<u, c.tx[2], 1>> /\ c.tx[2] \in Nat /\ c.tx[2] <= attempt[u]
        /\ c.tx[2] = attempt[u] => pc[u] \in {"restore", "idle"}
  BY DEF Inv, CommittedOK
<1>2. u = t
  BY <1>1 DEF OwnerOf
<1>3. attempt[t] \in Nat
  BY Types, BoundAssumption
<1>4. QED
  BY <1>1, <1>2, <1>3

\* The commits of a step: none, or that of thread u.
LEMMA CommitsOf ==
  ASSUME Inv, NEW u \in Threads, Thread(u), NEW c \in committed', c \notin committed
  PROVE  CommitsNow(u) /\ c.tx = Tx(u) /\ OwnerOf(c.tx) = u /\ c.tx[2] = attempt[u]
<1>1. CommitsNow(u)
  BY ThreadKept DEF Kept
<1>2. PICK d : IsCommitOf(d, u)
  BY <1>1, CommitRecord
<1>3. c = d
  BY <1>2 DEF IsCommitOf
<1>4. QED
  BY <1>1, <1>2, <1>3 DEF IsCommitOf, Tx, OwnerOf

\* A step of another thread leaves the past of t.
LEMMA OtherPast ==
  ASSUME Inv, HistInv, NEW u \in Threads, Thread(u), NEW t \in Threads \ {u}
  PROVE  PastOK(t)' /\ InvisOK(t)'
<1>1. /\ pc'[t] = pc[t] /\ loc'[t] = loc[t] /\ seen'[t] = seen[t] /\ mode' = mode
      /\ attempt'[t] = attempt[t] /\ began'[t] = began[t] /\ invisReads'[t] = invisReads[t]
  BY OwnState, OwnHistory DEF Alone
<1>2. /\ \A o, v : (Made(o, v) => Made(o, v)') /\ (Gone(o, v) => Gone(o, v)')
      /\ \A v : IsCommitted(v) => IsCommitted(v)'
  BY CommittedStays
<1>3. InvisOK(t)'
  BY <1>1 DEF HistInv, InvisOK, EndsRead
<1>4. PastOK(t)
  BY DEF HistInv
<1>5. ASSUME pc[t] # "idle", NEW c \in committed', OwnerOf(c.tx) = t, c.tx[2] < attempt[t]
      PROVE  c.tx \in began[t]
  BY <1>4, <1>5, CommitsOf DEF PastOK
<1>6. OpenPass(t)' <=> OpenPass(t)
  BY <1>1 DEF OpenPass, EndsRead
<1>o. PICK o, v : o = loc[t].obj /\ v = loc[t].newer
  OBVIOUS
<1>7. ASSUME OpenPass(t)
      PROVE  /\ Made(o, v)'
             /\ \A x \in Versions : <<o, x>> \in seen[t] => x = v \/ Gone(o, x)'
  BY <1>2, <1>4, <1>7, <1>o DEF PastOK
<1>8. (\A r \in seen[t] : Made(r[1], r[2])') /\ \A x \in began[t] : IsCommitted(x)'
  BY <1>2, <1>4 DEF PastOK
<1>9. PastOK(t)'
  BY <1>1, <1>5, <1>6, <1>7, <1>8, <1>o DEF PastOK, Made, Gone, IsCommitted
<1>10. QED
  BY <1>3, <1>9

\* The past of a thread whose step goes on with its attempt.
LEMMA KeepsPast ==
  ASSUME Inv, HistInv, NEW t \in Threads, Thread(t), Keeps(t),
         OpenPass(t)' => \E o, v :
           /\ loc'[t].obj = o /\ loc'[t].newer = v /\ Made(o, v)'
           /\ \A x \in Versions : <<o, x>> \in seen[t] => x = v \/ Gone(o, x)'
  PROVE  PastOK(t)'
<1>1. /\ \A o, v : Made(o, v) => Made(o, v)'
      /\ \A v : IsCommitted(v) => IsCommitted(v)'
  BY CommittedStays
<1>2. PastOK(t)
  BY DEF HistInv
<1>3. seen'[t] = seen[t] /\ began'[t] = began[t] /\ attempt'[t] = attempt[t] /\ pc[t] \notin {"idle", "restore"}
  BY DEF Keeps
<1>4. ASSUME NEW c \in committed', OwnerOf(c.tx) = t, c.tx[2] < attempt[t]
      PROVE  c.tx \in began[t]
  <2>1. attempt[t] \in Nat
    BY Types, BoundAssumption
  <2>2. QED
    BY <1>2, <1>3, <1>4, <2>1, CommitsOf DEF PastOK
<1>5. (\A r \in seen[t] : Made(r[1], r[2])') /\ \A x \in began[t] : IsCommitted(x)'
  BY <1>1, <1>2 DEF PastOK
<1>6. QED
  BY <1>3, <1>4, <1>5 DEF PastOK, Made, Gone, IsCommitted

\* A thread in an open goes on with it.
LEMMA SamePast ==
  ASSUME Inv, HistInv, NEW t \in Threads, Thread(t), Keeps(t), OpenPass(t)' => OpenPass(t) /\ SameOpen(t)
  PROVE  PastOK(t)'
<1>1. \A o, v : (Made(o, v) => Made(o, v)') /\ (Gone(o, v) => Gone(o, v)')
  BY CommittedStays
<1>2. PICK o, v : o = loc[t].obj /\ v = loc[t].newer
  OBVIOUS
<1>3. OpenPass(t) => Made(o, v) /\ \A x \in Versions : <<o, x>> \in seen[t] => x = v \/ Gone(o, x)
  BY <1>2 DEF HistInv, PastOK
<1>4. OpenPass(t)' => loc'[t].obj = o /\ loc'[t].newer = v
  BY <1>2 DEF SameOpen
<1>5. QED
  BY <1>1, <1>3, <1>4, KeepsPast

\* A protected version is the contents of its object.
ProtectedIsCurrent ==
  \A t \in Threads, o \in Objects, v \in Versions : Inv /\ Protected(t, o, v) /\ txState[t] # "COMMITTED" => Current(o) = v

LEMMA ProtectedCurrent == ProtectedIsCurrent
<1>1. ASSUME NEW t \in Threads, NEW o \in Objects, NEW v \in Versions, Inv, Protected(t, o, v), txState[t] # "COMMITTED"
      PROVE  Current(o) = v
  <2>w. PICK w : w = OwnerOf(header[o].ver) /\ (header[o].owned => w \in Threads)
    BY <1>1, OwnedUsed
  <2>b. ASSUME NEW x \in Threads, pc[x] \in {"snapReaders", "killReaders"}
        PROVE  txState[x] # "COMMITTED"
    BY <1>1, <2>b, ThreadFacts DEF LocalOK
  <2>1. QED
    BY <1>1, <2>b, <2>w DEF Protected, Current, Unowned
<1>2. QED
  BY <1>1 DEF ProtectedIsCurrent

\* The version that an open chooses is the contents of its object, and what the
\* attempt read of that object is the same or has been replaced.
LEMMA EntersPast ==
  ASSUME Inv, Inv', HistInv, ContentsOK', NEW t \in Threads, Thread(t), Enters(t)
  PROVE  PastOK(t)'
<1>1. PICK o \in Objects, v \in Versions : loc'[t].obj = o /\ loc'[t].newer = v /\ Protected(t, o, v)'
  BY DEF Enters
<1>2. pc'[t] \notin {"idle", "restore"}
  BY DEF Enters
<1>3. txState'[t] # "COMMITTED"
  BY <1>2 DEF Inv, ThreadInv, LocalOK
<1>4. ProtectedIsCurrent'
  BY ProtectedCurrent, PTL
<1>5. Current(o)' = v
  BY <1>1, <1>3, <1>4 DEF ProtectedIsCurrent
<1>6. Made(o, v)' /\ \A x \in Versions : Made(o, x)' => x = v \/ Gone(o, x)'
  BY <1>5 DEF ContentsOK, Made, Gone
<1>7. \A x \in Versions : <<o, x>> \in seen[t] => Made(o, x)'
  <2>1. \A x \in Versions : <<o, x>> \in seen[t] => Made(o, x)
    BY DEF HistInv, PastOK
  <2>2. QED
    BY <2>1, CommittedStays
<1>8. QED
  BY <1>1, <1>6, <1>7, KeepsPast DEF Enters

\* The past of a thread stays under its own steps.
LEMMA OwnPast ==
  ASSUME Inv, Inv', HistInv, ContentsOK', NEW t \in Threads, Thread(t), ReadOK(t)
  PROVE  PastOK(t)'
<1>g. /\ \A o, v : (Made(o, v) => Made(o, v)') /\ (Gone(o, v) => Gone(o, v)')
      /\ \A v : IsCommitted(v) => IsCommitted(v)'
  BY CommittedStays
<1>p. PastOK(t)
  BY DEF HistInv
<1>1. CASE Begin(t)
  <2>1. /\ pc[t] = "idle" /\ pc'[t] = "work" /\ seen' = seen /\ committed' = committed
        /\ began'[t] = {c.tx : c \in committed}
    BY <1>1, Types DEF Begin, GoTo, Inv, TypeInv, HistoryOK
  <2>2. seen[t] = {}
    BY <2>1 DEF ReadOK, SeenOK
  <2>3. ~OpenPass(t)'
    BY <2>1 DEF OpenPass, EndsRead
  <2>4. QED
    BY <2>1, <2>2, <2>3 DEF PastOK, IsCommitted
<1>2. CASE Finishes(t)
  <2>1. ~OpenPass(t)'
    BY <1>2 DEF OpenPass, EndsRead, Finishes
  <2>2. CASE pc'[t] = "idle"
    BY <1>2, <2>1, <2>2 DEF PastOK, Finishes
  <2>3. CASE pc'[t] = "restore"
    <3>1. /\ attempt'[t] = attempt[t] /\ seen'[t] \subseteq seen[t] /\ began'[t] = began[t] /\ pc[t] # "idle"
      BY <1>2, <2>3 DEF Finishes
    <3>2. ASSUME NEW c \in committed', OwnerOf(c.tx) = t, c.tx[2] < attempt[t]
          PROVE  c.tx \in began[t]
      <4>1. attempt[t] \in Nat
        BY Types, BoundAssumption
      <4>2. QED
        BY <1>p, <3>1, <3>2, <4>1, CommitsOf DEF PastOK
    <3>3. (\A r \in seen'[t] : Made(r[1], r[2])') /\ \A x \in began[t] : IsCommitted(x)'
      BY <1>g, <1>p, <3>1 DEF PastOK
    <3>4. QED
      BY <2>1, <3>1, <3>2, <3>3 DEF PastOK
  <2>4. QED
    BY <1>2, <2>2, <2>3 DEF Finishes
<1>3. CASE Moves(t) \/ Uses(t) \/ Decides(t) \/ Checks(t)
  <2>1. Keeps(t) /\ (OpenPass(t)' => OpenPass(t) /\ SameOpen(t))
    BY <1>3 DEF Moves, Uses, Decides, Checks
  <2>2. QED
    BY <2>1, SamePast
<1>4. CASE Enters(t)
  BY <1>4, EntersPast
<1>5. CASE Returns(t)
  <2>o. PICK o, v : o = loc[t].obj /\ v = loc[t].newer
    OBVIOUS
  <2>1. /\ pc[t] = "opened" /\ pc'[t] = "work" /\ seen'[t] = seen[t] \cup {<<o, v>>}
        /\ began'[t] = began[t] /\ attempt'[t] = attempt[t]
    BY <1>5, <2>o DEF Returns
  <2>2. ~OpenPass(t)' /\ OpenPass(t)
    BY <2>1 DEF OpenPass, EndsRead
  <2>3. Made(o, v)'
    BY <1>g, <1>p, <2>2, <2>o DEF PastOK
  <2>4. \A r \in seen'[t] : Made(r[1], r[2])'
    BY <1>g, <1>p, <2>1, <2>3 DEF PastOK
  <2>5. ASSUME NEW c \in committed', OwnerOf(c.tx) = t, c.tx[2] < attempt[t]
        PROVE  c.tx \in began[t]
    <3>1. attempt[t] \in Nat
      BY Types, BoundAssumption
    <3>2. QED
      BY <1>p, <2>1, <2>5, <3>1, CommitsOf DEF PastOK
  <2>6. \A x \in began[t] : IsCommitted(x)'
    BY <1>g, <1>p DEF PastOK
  <2>7. QED
    BY <2>1, <2>2, <2>4, <2>5, <2>6 DEF PastOK
<1>6. QED
  BY <1>1, <1>2, <1>3, <1>4, <1>5, StepKinds DEF Kind

\* So does what its invisible reads hold.
LEMMA OwnInvis ==
  ASSUME Inv, Inv', HistInv, NEW t \in Threads, Thread(t), ReadOK(t)
  PROVE  InvisOK(t)'
<1>i. InvisOK(t)
  BY DEF HistInv
<1>e. Elements(<<>>) = {}
  BY DEF Elements
<1>p. PICK p : p = <<loc[t].obj, loc[t].newer>>
  OBVIOUS
<1>q. SameOpen(t) => <<loc'[t].obj, loc'[t].newer>> = p /\ loc'[t].kind = loc[t].kind
  BY <1>p DEF SameOpen
<1>r. ~OpenPass(t) => ~EndsRead(t)
  BY DEF OpenPass
<1>1. CASE Begin(t)
  <2>1. pc[t] = "idle" /\ pc'[t] = "work" /\ invisReads' = invisReads
    BY <1>1, Types DEF Begin, GoTo, lists
  <2>2. QED
    BY <1>i, <1>e, <2>1 DEF InvisOK
<1>2. CASE Finishes(t)
  BY <1>i, <1>2 DEF InvisOK, Finishes
<1>3. ASSUME Keeps(t), invisReads'[t] = invisReads[t],
             ~EndsRead(t) \/ (EndsRead(t)' /\ SameOpen(t))
      PROVE  InvisOK(t)'
  BY <1>i, <1>p, <1>q, <1>3 DEF InvisOK, Keeps
<1>4. CASE Moves(t) \/ Enters(t) \/ Decides(t) \/ Checks(t)
  BY <1>r, <1>3, <1>4 DEF Moves, Enters, Decides, Checks
<1>5. CASE Uses(t)
  <2>1. CASE invisReads'[t] = invisReads[t]
    BY <1>3, <1>5, <2>1 DEF Uses
  <2>2. CASE invisReads'[t] # invisReads[t]
    <3>1. /\ Keeps(t) /\ SameOpen(t) /\ ~EndsRead(t) /\ EndsRead(t)' /\ loc[t].kind = "RO" /\ ~mode[t].isVisible
          /\ Elements(invisReads'[t]) = Elements(invisReads[t]) \cup {p}
      BY <1>5, <1>p, <2>2 DEF Uses
    <3>2. \A r \in Elements(invisReads[t]) : r \in seen'[t]
      BY <1>i, <3>1 DEF InvisOK, Keeps
    <3>3. \A r \in Elements(invisReads'[t]) : r \in seen'[t] \/ r = p
      BY <3>1, <3>2
    <3>4. pc'[t] # "idle" /\ mode' = mode
      BY <3>1 DEF Keeps
    <3>5. QED
      BY <1>q, <3>1, <3>3, <3>4 DEF InvisOK
  <2>3. QED
    BY <2>1, <2>2
<1>6. CASE Returns(t)
  BY <1>i, <1>p, <1>6 DEF InvisOK, Returns
<1>7. QED
  BY <1>1, <1>2, <1>4, <1>5, <1>6, StepKinds DEF Kind

\* Every step keeps the history as it should be.
LEMMA HistStep ==
  ASSUME Inv, Inv', HistInv, NEW u \in Threads, Thread(u), ReadOK(u)
  PROVE  HistInv'
<1>1. LogOK' /\ ContentsOK'
  BY LogStep, ContentsStep
<1>2. ASSUME NEW t \in Threads PROVE PastOK(t)' /\ InvisOK(t)'
  <2>1. CASE t = u
    BY <1>1, <2>1, OwnPast, OwnInvis
  <2>2. CASE t # u
    BY <2>2, OtherPast
  <2>3. QED
    BY <2>1, <2>2
<1>3. QED
  BY <1>1, <1>2 DEF HistInv

\* And it holds initially.
LEMMA HistInit ==
  ASSUME Init
  PROVE  HistInv
<1>1. committed = {} /\ \A t \in Threads : pc[t] = "idle" /\ seen[t] = {} /\ began[t] = {} /\ invisReads[t] = <<>>
  BY DEF Init
<1>2. LogOK
  BY <1>1 DEF LogOK
<1>3. \A o \in Objects : Current(o) = Initial
  BY DEF Init, Current, Unowned
<1>4. \A o, v : (Made(o, v) <=> v = Initial) /\ ~Gone(o, v)
  BY <1>1 DEF Made, Gone
<1>5. ContentsOK
  BY <1>3, <1>4 DEF ContentsOK
<1>6. ASSUME NEW t \in Threads PROVE PastOK(t) /\ InvisOK(t)
  BY <1>1 DEF PastOK, InvisOK, OpenPass, EndsRead
<1>7. QED
  BY <1>2, <1>5, <1>6 DEF HistInv

-------------------------------------------------------------------------------
(* The serial order: numbers drawn from a clock.                             *)

\* Transaction x replaces r, a pair of an object and a version: it has committed,
\* or will if nobody kills it first.
Overwrites(x, r) ==
  \/ \E c \in committed : c.tx = x /\ r \in c.writes
  \/ \E u \in Threads : Deciding(u) /\ x = Tx(u) /\ \E w \in Elements(writes[u]) : r = <<w.obj, w.old>>

\* Number n comes before that of every other transaction that replaces r; it
\* follows that of the transaction that made version v.
Before(stamp, n, x, r) == \A y \in Versions \ {x} : Overwrites(y, r) => n < stamp[y]
Follows(stamp, n, v) == v = Initial \/ stamp[v] < n

\* Number n is a place in the serial order for transaction x, which read reads
\* and began after the transactions of after.
Ordered(stamp, n, x, reads, after) ==
  /\ \A r \in reads : Follows(stamp, n, r[2]) /\ Before(stamp, n, x, r)
  /\ \A v \in after : Follows(stamp, n, v)

\* The open returns what the thread has read before, or its validation will find
\* out if it does not.
Repeats(t) ==
  /\ EndsRead(t) /\ loc[t].kind = "RO"
  /\ \E x \in Versions : /\ <<loc[t].obj, x>> \in seen[t]
                         /\ x = loc[t].newer \/ <<loc[t].obj, x>> \in Unchecked(t)

\* What a thread has read is in one of its lists, so that it will validate it or
\* notice when it is replaced.
Covered(t) ==
  /\ \A o \in Objects, v \in Versions : <<o, v>> \in seen[t] =>
       \/ <<o, v>> \in Elements(invisReads[t])
       \/ o \in visReads[t]
       \/ \E w \in Elements(writes[t]) : w.obj = o /\ w.old = v
  /\ EndsRead(t) /\ loc[t].kind = "RO" /\ ~mode[t].isVisible =>
       Repeats(t) \/ <<loc[t].obj, loc[t].newer>> \in Elements(invisReads[t])

\* Number n is a place for the attempt of thread t when the validation that it
\* has begun, or will, has checked all that is unchecked.
PassOK(clock, stamp, last, t) ==
  LET n == stamp[Tx(t)] IN
  /\ last[t] < n /\ n < clock
  /\ \A r \in seen[t] : r \in Unchecked(t) \/ Before(stamp, n, Tx(t), r)
  /\ OpenPass(t) => /\ Follows(stamp, n, loc[t].newer)
                    /\ Before(stamp, n, Tx(t), <<loc[t].obj, loc[t].newer>>)

\* What the numbers say of the committed transactions and of the attempt of t:
\* clock is the next number, stamp the number that a transaction drew when it
\* last began to validate, last the number of the last open that returned.
CommittedRanks(clock, stamp) ==
  \A c \in committed : stamp[c.tx] < clock /\ Ordered(stamp, stamp[c.tx], c.tx, c.reads, c.after)

ThreadRanks(clock, stamp, last, t) ==
  /\ last[t] < clock /\ Ordered(stamp, last[t], Tx(t), seen[t], began[t])
  /\ txState[t] = "ACTIVE" =>
       /\ Covered(t)
       /\ OpenPass(t) \/ Deciding(t) => Repeats(t) \/ PassOK(clock, stamp, last, t)

RankInv(clock, stamp, last) ==
  CommittedRanks(clock, stamp) /\ \A t \in Threads : ThreadRanks(clock, stamp, last, t)

\* There are such numbers.
Ranked ==
  \E clock \in Nat, stamp \in [Versions -> Nat], last \in [Threads -> Nat] : RankInv(clock, stamp, last)

\* A transaction that runs and has not committed is in the history of nobody.
LiveOK(t) == seen[t] # {} => ~IsCommitted(Tx(t))

-------------------------------------------------------------------------------
(* The numbers that others have stay good.                                   *)

\* The name of an attempt that has not ended.
RunningIsUncommitted ==
  \A t \in Threads : Inv /\ pc[t] \notin {"idle", "restore"} =>
    ~IsCommitted(Tx(t)) /\ Tx(t) \in Versions /\ Tx(t) # Initial

LEMMA RunningUncommitted == RunningIsUncommitted
<1>1. ASSUME NEW t \in Threads, Inv, pc[t] \notin {"idle", "restore"}
      PROVE  ~IsCommitted(Tx(t)) /\ Tx(t) \in Versions /\ Tx(t) # Initial
  <2>1. PICK n \in 1 .. MaxAttempts : n = attempt[t]
    BY <1>1, Types, ThreadFacts, BoundAssumption DEF LocalOK
  <2>n. 1 \in 1 .. 2
    OBVIOUS
  <2>v. <<t, n, 1>> \in Versions /\ OwnerOf(<<t, n, 1>>) = t
    BY <2>n, VersionFacts
  <2>2. Tx(t) \in Versions /\ OwnerOf(Tx(t)) = t
    BY <2>1, <2>v DEF Tx
  <2>3. Tx(t) # Initial
    BY <2>2, VersionFacts
  <2>4. ASSUME NEW c \in committed, c.tx = Tx(t) PROVE FALSE
    <3>1. OwnerOf(c.tx) = t /\ c.tx[2] = attempt[t]
      BY <2>4 DEF Tx, OwnerOf
    <3>2. QED
      BY <1>1, <3>1, OwnAttempts
  <2>5. QED
    BY <2>2, <2>3, <2>4 DEF IsCommitted
<1>2. QED
  BY <1>1 DEF RunningIsUncommitted

\* While a thread runs on, it does not commit.
LEMMA RunsOn ==
  ASSUME Inv, Inv', NEW u \in Threads, Thread(u), pc'[u] \notin {"idle", "restore"}
  PROVE  Kept
<1>1. txState'[u] # "COMMITTED"
  BY DEF Inv, ThreadInv, LocalOK
<1>2. CommitsNow(u) => txState'[u] = "COMMITTED"
  BY Types DEF CommitsNow
<1>3. QED
  BY <1>1, <1>2, ThreadKept

\* Only the commit that begins its last validation is new to replace anything.
LEMMA OverwritesStep ==
  ASSUME Inv, Inv', NEW u \in Threads, Thread(u), Kind(u), NEW y, NEW r, Overwrites(y, r)'
  PROVE  Overwrites(y, r) \/ (Decides(u) /\ y = Tx(u))
<1>1. CASE \E c \in committed' : c.tx = y /\ r \in c.writes
  <2>1. PICK c \in committed' : c.tx = y /\ r \in c.writes
    BY <1>1
  <2>2. CASE c \in committed
    BY <2>1, <2>2 DEF Overwrites
  <2>3. CASE c \notin committed
    <3>1. CommitsNow(u)
      BY <2>3, CommitsOf
    <3>2. PICK d : IsCommitOf(d, u)
      BY <3>1, CommitRecord
    <3>3. c = d
      BY <2>3, <3>2 DEF IsCommitOf
    <3>4. y = Tx(u) /\ \E w \in Elements(writes[u]) : r = <<w.obj, w.old>>
      BY <2>1, <3>2, <3>3 DEF IsCommitOf
    <3>5. Deciding(u)
      BY <3>1 DEF CommitsNow, Commits, Deciding
    <3>6. QED
      BY <3>4, <3>5 DEF Overwrites
  <2>4. QED
    BY <2>2, <2>3
<1>2. CASE \E t \in Threads : Deciding(t)' /\ y = Tx(t)' /\ \E w \in Elements(writes'[t]) : r = <<w.obj, w.old>>
  <2>1. PICK t \in Threads : Deciding(t)' /\ y = Tx(t)' /\ \E w \in Elements(writes'[t]) : r = <<w.obj, w.old>>
    BY <1>2
  <2>2. CASE t # u
    <3>1. pc'[t] = pc[t] /\ loc'[t] = loc[t] /\ writes'[t] = writes[t] /\ attempt'[t] = attempt[t]
      BY <2>2, OwnState, OwnHistory DEF Alone
    <3>2. txState'[t] = "ACTIVE"
      BY <2>1 DEF Deciding
    <3>3. txState[t] = "ACTIVE"
      BY <2>2, <3>2, StateChange
    <3>4. Deciding(t) /\ y = Tx(t)
      BY <2>1, <3>1, <3>3 DEF Deciding, Tx
    <3>5. QED
      BY <2>1, <3>1, <3>4 DEF Overwrites
  <2>3. CASE t = u
    <3>1. pc'[u] = "cas" \/ (pc'[u] = "validate" /\ loc'[u].then = "cas")
      BY <2>1, <2>3 DEF Deciding
    <3>2. Decides(u) \/ Checks(u)
      <4>1. ~Begin(u)
        BY <3>1, Types DEF Begin, GoTo
      <4>2. ~Finishes(u) /\ ~Moves(u) /\ ~Enters(u) /\ ~Returns(u)
        BY <3>1 DEF Finishes, Moves, Enters, Returns
      <4>3. ~Uses(u)
        BY <3>1 DEF Uses, OpenPass, EndsRead
      <4>4. QED
        BY <4>1, <4>2, <4>3 DEF Kind
    <3>3. CASE Decides(u)
      <4>1. attempt'[u] = attempt[u]
        BY <3>3 DEF Decides, Keeps
      <4>2. QED
        BY <2>1, <2>3, <3>3, <4>1 DEF Tx
    <3>4. CASE Checks(u)
      <4>1. attempt'[u] = attempt[u] /\ writes'[u] = writes[u] /\ Deciding(u)
        BY <2>1, <2>3, <3>4 DEF Checks, Keeps
      <4>2. QED
        BY <2>1, <2>3, <4>1 DEF Tx, Overwrites
    <3>5. QED
      BY <3>2, <3>3, <3>4
  <2>4. QED
    BY <2>2, <2>3
<1>3. QED
  BY <1>1, <1>2 DEF Overwrites

\* The step of thread u leaves the numbers of transactions, or draws one for its
\* own, which it must if it begins its last validation.
Renumbers(clock, stamp, later, new, u) ==
  /\ later \in Nat /\ clock <= later /\ new \in [Versions -> Nat]
  /\ \/ new = stamp /\ ~Decides(u)
     \/ /\ new = [stamp EXCEPT ![Tx(u)] = clock]
        /\ pc[u] \notin {"idle", "restore"} /\ pc'[u] \notin {"idle", "restore"}

\* The number of a committed transaction stays.
LEMMA StampStays ==
  ASSUME Inv, NEW u \in Threads, NEW clock \in Nat, NEW stamp \in [Versions -> Nat],
         NEW later, NEW new, Renumbers(clock, stamp, later, new, u),
         NEW v \in Versions, IsCommitted(v) \/ v # Tx(u)
  PROVE  new[v] = stamp[v]
<1>1. CASE new = stamp
  BY <1>1
<1>2. CASE new = [stamp EXCEPT ![Tx(u)] = clock] /\ pc[u] \notin {"idle", "restore"}
  <2>1. v # Tx(u)
    BY <1>2, RunningUncommitted DEF RunningIsUncommitted
  <2>2. QED
    BY <1>2, <2>1
<1>3. QED
  BY <1>1, <1>2 DEF Renumbers

\* A number that comes before those that replace r still does.
LEMMA BeforeStable ==
  ASSUME Inv, Inv', NEW u \in Threads, Thread(u), Kind(u),
         NEW clock \in Nat, NEW stamp \in [Versions -> Nat], NEW later, NEW new,
         Renumbers(clock, stamp, later, new, u),
         NEW n \in Nat, n < clock, NEW x, NEW r, Before(stamp, n, x, r)
  PROVE  Before(new, n, x, r)'
<1>1. ASSUME NEW y \in Versions \ {x}, Overwrites(y, r)' PROVE n < new[y]
  <2>1. Overwrites(y, r) \/ (Decides(u) /\ y = Tx(u))
    BY <1>1, OverwritesStep
  <2>2. CASE new = stamp
    BY <1>1, <2>1, <2>2 DEF Before, Renumbers
  <2>3. CASE new = [stamp EXCEPT ![Tx(u)] = clock]
    <3>1. CASE y = Tx(u)
      BY <2>3, <3>1
    <3>2. CASE y # Tx(u)
      <4>1. new[y] = stamp[y] /\ Overwrites(y, r)
        BY <2>1, <2>3, <3>2
      <4>2. QED
        BY <4>1 DEF Before
    <3>3. QED
      BY <3>1, <3>2
  <2>4. QED
    BY <2>2, <2>3 DEF Renumbers
<1>2. QED
  BY <1>1 DEF Before

\* A number that follows that of a committed transaction still does.
LEMMA FollowsStable ==
  ASSUME Inv, NEW u \in Threads, NEW clock \in Nat, NEW stamp \in [Versions -> Nat],
         NEW later, NEW new, Renumbers(clock, stamp, later, new, u),
         NEW n, NEW v, Follows(stamp, n, v), v = Initial \/ IsCommitted(v)
  PROVE  Follows(new, n, v)
<1>1. IsCommitted(v) => v \in Versions
  BY DEF IsCommitted, Inv, TypeInv, HistoryOK
<1>2. QED
  BY <1>1, StampStays DEF Follows

\* A place in the serial order remains one.
LEMMA OrderedStable ==
  ASSUME Inv, Inv', NEW u \in Threads, Thread(u), Kind(u),
         NEW clock \in Nat, NEW stamp \in [Versions -> Nat], NEW later, NEW new,
         Renumbers(clock, stamp, later, new, u),
         NEW n \in Nat, n < clock, NEW x, NEW reads, NEW after, Ordered(stamp, n, x, reads, after),
         \A r \in reads : Made(r[1], r[2]), \A v \in after : IsCommitted(v)
  PROVE  Ordered(new, n, x, reads, after)'
<1>1. ASSUME NEW r \in reads PROVE Follows(new, n, r[2]) /\ Before(new, n, x, r)'
  <2>1. Follows(stamp, n, r[2]) /\ Before(stamp, n, x, r) /\ (r[2] = Initial \/ IsCommitted(r[2]))
    BY MadeFacts DEF Ordered
  <2>2. QED
    BY <2>1, BeforeStable, FollowsStable
<1>2. ASSUME NEW v \in after PROVE Follows(new, n, v)
  BY FollowsStable DEF Ordered
<1>3. QED
  BY <1>1, <1>2 DEF Ordered, Follows

-------------------------------------------------------------------------------
(* What is current, and what nobody else replaces.                           *)

\* Nobody but the thread itself replaces what is protected for it.
ProtectedIsLast ==
  \A t \in Threads, o \in Objects, v \in Versions :
    Inv /\ ContentsOK /\ Protected(t, o, v) /\ txState[t] = "ACTIVE" =>
      \A y : Overwrites(y, <<o, v>>) => y = Tx(t)

LEMMA ProtectedLast == ProtectedIsLast
<1>1. ASSUME NEW t \in Threads, NEW o \in Objects, NEW v \in Versions,
             Inv, ContentsOK, Protected(t, o, v), txState[t] = "ACTIVE",
             NEW y, Overwrites(y, <<o, v>>), y # Tx(t)
      PROVE  FALSE
  <2>1. Current(o) = v
    BY <1>1, ProtectedCurrent DEF ProtectedIsCurrent
  <2>2. ~Gone(o, v)
    BY <1>1, <2>1 DEF ContentsOK
  <2>3. PICK u \in Threads : Deciding(u) /\ y = Tx(u) /\ \E w \in Elements(writes[u]) : <<o, v>> = <<w.obj, w.old>>
    BY <1>1, <2>2 DEF Overwrites, Gone
  <2>4. PICK w \in Elements(writes[u]) : w.obj = o /\ w.old = v
    BY <2>3
  <2>5. u # t
    BY <1>1, <2>3
  <2>6. w.acquired /\ txState[u] = "ACTIVE" /\ pc[u] \in {"cas", "validate"}
    BY <1>1, <2>3, ThreadFacts DEF Deciding, WritesOK, EndsCommit
  <2>7. header[o] = Owned(w.new) /\ OwnerOf(w.new) = u
    BY <1>1, <2>4, <2>6, ThreadFacts, EntryFacts DEF WritesOK
  <2>8. QED
    BY <1>1, <2>5, <2>6, <2>7 DEF Protected, Owned, Unowned
<1>2. QED
  BY <1>1 DEF ProtectedIsLast

\* What isCurrent accepts of what was read is protected. It would also accept the
\* version that a former transaction of the thread replaced, while m_next of what
\* that made is still set and the header is clean again; but an attempt does not
\* read what was replaced before it began (Descriptor_rstm.h:809-838).
LEMMA CurrentIsProtected ==
  ASSUME Inv, HistInv, NEW t \in Threads, pc[t] \notin {"idle", "restore"},
         NEW stamp \in [Versions -> Nat], NEW n \in Nat, Ordered(stamp, n, Tx(t), seen[t], began[t]),
         NEW o \in Objects, NEW v \in Versions, <<o, v>> \in seen[t], isCurrent(t, o, v)
  PROVE  Protected(t, o, v)
<1>h. PICK h \in Header : h = header[o]
  BY Types
<1>1. CASE h = Unowned(v)
  BY <1>h, <1>1 DEF Protected
<1>2. CASE OwnerOf(h.ver) = t /\ next[o][h.ver] = v /\ h.owned
  BY <1>h, <1>2 DEF Protected
<1>3. CASE OwnerOf(h.ver) = t /\ next[o][h.ver] = v /\ ~h.owned
  <2>x. PICK x \in Versions : x = h.ver
    BY DEF Header
  <2>1. Current(o) = x
    BY <1>h, <1>3, <2>x DEF Current
  <2>2. Made(o, x) /\ x # Initial
    BY <1>3, <2>x, <2>1, VersionFacts DEF HistInv, ContentsOK
  <2>3. PICK c \in committed : c.tx = x /\ \E w \in c.writes : w[1] = o
    BY <2>2 DEF Made
  <2>4. PICK w \in c.writes : w[1] = o
    BY <2>3
  <2>5. w \in Pair /\ (next[o][x] = NullVersion \/ next[o][x] = w[2])
    BY <2>3, <2>4 DEF HistInv, LogOK
  <2>6. next[o][x] = v /\ v # NullVersion
    BY <1>h, <1>3, <2>x, VersionFacts
  <2>7. w = <<o, v>>
    BY <2>4, <2>5, <2>6 DEF Pair
  <2>8. Overwrites(x, <<o, v>>)
    BY <2>3, <2>4, <2>7 DEF Overwrites
  <2>9. c.tx[2] < attempt[t]
    BY <1>3, <2>3, <2>x, OwnAttempts
  <2>10. x \in began[t]
    BY <1>3, <2>3, <2>9, <2>x DEF HistInv, PastOK
  <2>11. x # Tx(t)
    <3>1. ~IsCommitted(Tx(t))
      BY RunningUncommitted DEF RunningIsUncommitted
    <3>2. QED
      BY <2>3, <3>1 DEF IsCommitted
  <2>12. n < stamp[x]
    <3>1. Before(stamp, n, Tx(t), <<o, v>>)
      BY DEF Ordered
    <3>2. QED
      BY <2>8, <2>11, <3>1 DEF Before
  <2>13. stamp[x] < n
    BY <2>2, <2>10 DEF Ordered, Follows
  <2>14. stamp[x] \in Nat
    OBVIOUS
  <2>15. QED
    BY <2>12, <2>13, <2>14
<1>4. QED
  BY <1>h, <1>1, <1>2, <1>3 DEF isCurrent

\* Thread t has everything that it read still to validate, or is the only one to
\* replace it.
Guarded(t) == \A r \in seen[t] : r \in Unchecked(t) \/ \A y : Overwrites(y, r) => y = Tx(t)

\* So it is when a thread begins to validate: visible reads are protected, and so
\* is what it owns; all else is on the list.
CoveredIsGuarded ==
  \A t \in Threads :
    /\ Inv /\ ContentsOK /\ ReadOK(t) /\ txState[t] = "ACTIVE" /\ Covered(t)
    /\ \/ pc[t] \in {"install", "insert", "clone", "snapReaders"}
       \/ Deciding(t) /\ Unchecked(t) = Elements(invisReads[t])
    => Guarded(t)

LEMMA CoveredGuarded == CoveredIsGuarded
<1>1. ASSUME NEW t \in Threads, Inv, ContentsOK, ReadOK(t), txState[t] = "ACTIVE", Covered(t),
             \/ pc[t] \in {"install", "insert", "clone", "snapReaders"}
             \/ Deciding(t) /\ Unchecked(t) = Elements(invisReads[t]),
             NEW r \in seen[t], r \notin Unchecked(t)
      PROVE  \A y : Overwrites(y, r) => y = Tx(t)
  <2>1. PICK o \in Objects, v \in Versions : r = <<o, v>>
    BY <1>1, Types DEF Pair
  <2>2. r \notin Elements(invisReads[t])
    BY <1>1 DEF Unchecked
  <2>3. SUFFICES Protected(t, o, v)
    BY <1>1, <2>1, ProtectedLast DEF ProtectedIsLast
  <2>4. CASE o \in visReads[t]
    BY <1>1, <2>1, <2>4 DEF ReadOK, HeldOK, Held
  <2>5. CASE \E w \in Elements(writes[t]) : w.obj = o /\ w.old = v
    <3>1. PICK w \in Elements(writes[t]) : w.obj = o /\ w.old = v
      BY <2>5
    <3>2. w.acquired
      <4>1. CASE Deciding(t)
        BY <1>1, <4>1, ThreadFacts DEF Deciding, WritesOK, EndsCommit
      <4>2. CASE pc[t] \in {"install", "insert", "clone", "snapReaders"}
        <5>1. r \notin Elements(LazyPairs(t))
          BY <1>1, <4>2 DEF Unchecked
        <5>2. mode[t].isLazy => r \in Elements(LazyPairs(t))
          BY <2>1, <3>1 DEF LazyPairs, Pairs, Elements
        <5>3. QED
          BY <1>1, <5>1, <5>2, ThreadFacts DEF WritesOK
      <4>3. QED
        BY <1>1, <4>1, <4>2
    <3>3. header[o] = Owned(w.new) /\ OwnerOf(w.new) = t
      BY <1>1, <3>1, <3>2, ThreadFacts, EntryFacts DEF WritesOK
    <3>4. next[o][w.new] = v
      BY <1>1, <3>1, <3>3, OwnEntry
    <3>5. QED
      BY <3>3, <3>4 DEF Protected, Owned
  <2>6. QED
    BY <1>1, <2>1, <2>2, <2>4, <2>5 DEF Covered
<1>2. QED
  BY <1>1 DEF CoveredIsGuarded, Guarded

-------------------------------------------------------------------------------
(* A step of another thread, and the commit.                                 *)

\* The numbers of the attempt of t stay good under a step of another thread.
LEMMA OtherRanks ==
  ASSUME Inv, Inv', HistInv, NEW u \in Threads, Thread(u), Kind(u), NEW t \in Threads \ {u},
         NEW clock \in Nat, NEW stamp \in [Versions -> Nat], NEW last \in [Threads -> Nat],
         NEW later, NEW new, Renumbers(clock, stamp, later, new, u),
         NEW final \in [Threads -> Nat], final[t] = last[t],
         ThreadRanks(clock, stamp, last, t)
  PROVE  ThreadRanks(later, new, final, t)'
<1>f. /\ pc'[t] = pc[t] /\ loc'[t] = loc[t] /\ seen'[t] = seen[t] /\ mode' = mode
      /\ attempt'[t] = attempt[t] /\ began'[t] = began[t] /\ invisReads'[t] = invisReads[t]
      /\ visReads'[t] = visReads[t] /\ writes'[t] = writes[t]
  BY OwnState, OwnHistory DEF Alone
<1>u. Unchecked(t)' = Unchecked(t)
  BY <1>f DEF Unchecked, LazyPairs
<1>e. /\ OpenPass(t)' <=> OpenPass(t)
      /\ Repeats(t)' <=> Repeats(t)
      /\ Covered(t)' <=> Covered(t)
  BY <1>f, <1>u DEF OpenPass, EndsRead, Repeats, Covered
<1>x. PICK x : x = Tx(t) /\ x = Tx(t)'
  BY <1>f DEF Tx
<1>s. PICK reads, after :
        reads = seen[t] /\ reads = seen'[t] /\ after = began[t] /\ after = began'[t]
  BY <1>f
<1>m. PICK m \in Nat : m = last[t] /\ m = final[t]
  OBVIOUS
<1>l. later \in Nat /\ clock <= later /\ new \in [Versions -> Nat]
  BY DEF Renumbers
<1>1. m < clock /\ Ordered(stamp, m, x, reads, after)
  BY <1>x, <1>s, <1>m DEF ThreadRanks
<1>2. (\A r \in reads : Made(r[1], r[2])) /\ \A v \in after : IsCommitted(v)
  BY <1>s DEF HistInv, PastOK
<1>3. m < later /\ Ordered(new, m, x, reads, after)'
  BY <1>1, <1>2, <1>l, OrderedStable
<1>4. ASSUME txState'[t] = "ACTIVE", (OpenPass(t) \/ Deciding(t))', ~Repeats(t)
      PROVE  PassOK(later, new, final, t)'
  <2>1. txState[t] = "ACTIVE"
    BY <1>4, StateChange
  <2>2. OpenPass(t) \/ Deciding(t)
    BY <1>4, <1>e, <1>f, <2>1 DEF Deciding
  <2>3. PassOK(clock, stamp, last, t)
    BY <1>4, <2>1, <2>2 DEF ThreadRanks
  <2>4. x \in Versions /\ x # Tx(u)
    <3>1. pc[t] \notin {"idle", "restore"}
      BY <2>2 DEF OpenPass, EndsRead, Deciding
    <3>2. Tx(t) \in Versions
      BY <3>1, RunningUncommitted DEF RunningIsUncommitted
    <3>3. Tx(t) # Tx(u)
      BY DEF Tx
    <3>4. QED
      BY <1>x, <3>2, <3>3
  <2>n. PICK n \in Nat : n = stamp[x] /\ n = new[x]
    BY <2>4, StampStays
  <2>5. m < n /\ n < clock /\ \A r \in reads : r \in Unchecked(t) \/ Before(stamp, n, x, r)
    BY <1>x, <1>s, <1>m, <2>3, <2>n DEF PassOK
  <2>6. \A r \in reads : r \in Unchecked(t) \/ Before(new, n, x, r)'
    BY <2>5, BeforeStable
  <2>p. PICK o, v : o = loc[t].obj /\ v = loc[t].newer /\ o = loc'[t].obj /\ v = loc'[t].newer
    BY <1>f
  <2>7. OpenPass(t) => Follows(new, n, v) /\ Before(new, n, x, <<o, v>>)'
    <3>1. OpenPass(t) => Follows(stamp, n, v) /\ Before(stamp, n, x, <<o, v>>)
      BY <1>x, <2>3, <2>n, <2>p DEF PassOK
    <3>2. OpenPass(t) => v = Initial \/ IsCommitted(v)
      BY <2>p, MadeFacts DEF HistInv, PastOK
    <3>3. QED
      BY <2>5, <3>1, <3>2, BeforeStable, FollowsStable
  <2>8. m < n /\ n < later
    BY <1>l, <2>5
  <2>9. \A r \in seen'[t] : r \in Unchecked(t)' \/ Before(new, n, x, r)'
    BY <1>s, <1>u, <2>6
  <2>10. QED
    BY <1>x, <1>s, <1>m, <1>e, <2>n, <2>p, <2>7, <2>8, <2>9 DEF PassOK, Follows, Before
<1>5. txState'[t] = "ACTIVE" => Covered(t)'
  <2>1. txState'[t] = "ACTIVE" => txState[t] = "ACTIVE"
    BY StateChange
  <2>2. QED
    BY <1>e, <2>1 DEF ThreadRanks
<1>6. QED
  BY <1>x, <1>s, <1>m, <1>e, <1>3, <1>4, <1>5 DEF ThreadRanks, Ordered, Before

\* The committed transactions keep their places, and the one that commits takes
\* the place where it began its last validation, when it already owned all that
\* it writes (Descriptor_rstm.h:753-807).
LEMMA CommittedRanksStep ==
  ASSUME Inv, Inv', HistInv, NEW u \in Threads, Thread(u), Kind(u),
         NEW clock \in Nat, NEW stamp \in [Versions -> Nat], NEW last \in [Threads -> Nat],
         NEW later, NEW new, Renumbers(clock, stamp, later, new, u),
         RankInv(clock, stamp, last)
  PROVE  CommittedRanks(later, new)'
<1>l. later \in Nat /\ clock <= later
  BY DEF Renumbers
<1>1. ASSUME NEW c \in committed
      PROVE  new[c.tx] < later /\ Ordered(new, new[c.tx], c.tx, c.reads, c.after)'
  <2>1. c.tx \in Versions
    BY DEF Inv, TypeInv, HistoryOK
  <2>2. IsCommitted(c.tx)
    BY DEF IsCommitted
  <2>n. PICK n \in Nat : n = stamp[c.tx] /\ n = new[c.tx]
    BY <2>1, <2>2, StampStays
  <2>3. n < clock /\ Ordered(stamp, n, c.tx, c.reads, c.after)
    BY <2>n DEF RankInv, CommittedRanks
  <2>4. (\A r \in c.reads : Made(r[1], r[2])) /\ \A v \in c.after : IsCommitted(v)
    BY DEF HistInv, LogOK
  <2>5. Ordered(new, n, c.tx, c.reads, c.after)'
    BY <2>3, <2>4, OrderedStable
  <2>6. QED
    BY <1>l, <2>n, <2>3, <2>5
<1>2. ASSUME NEW c \in committed', c \notin committed
      PROVE  new[c.tx] < later /\ Ordered(new, new[c.tx], c.tx, c.reads, c.after)'
  <2>1. CommitsNow(u) /\ c.tx = Tx(u)
    BY <1>2, CommitsOf
  <2>2. PICK d : IsCommitOf(d, u)
    BY <2>1, CommitRecord
  <2>3. c.reads = seen[u] /\ c.after = began[u]
    BY <1>2, <2>2 DEF IsCommitOf
  <2>4. pc[u] = "cas" /\ txState[u] = "ACTIVE"
    BY <2>1 DEF CommitsNow, Commits
  <2>x. PICK x \in Versions : x = Tx(u)
    BY <2>4, RunningUncommitted DEF RunningIsUncommitted
  <2>5. new = stamp
    <3>1. pc'[u] \in {"idle", "restore"}
      <4>1. txState'[u] = "COMMITTED"
        BY <2>1, Types DEF CommitsNow
      <4>2. QED
        BY <4>1 DEF Inv, ThreadInv, LocalOK
    <3>2. QED
      BY <3>1 DEF Renumbers
  <2>n. PICK n \in Nat : n = stamp[x] /\ n = new[x]
    BY <2>5
  <2>6. PassOK(clock, stamp, last, u)
    <3>1. Deciding(u) /\ ~Repeats(u)
      BY <2>4 DEF Deciding, Repeats, EndsRead
    <3>2. QED
      BY <2>4, <3>1 DEF RankInv, ThreadRanks
  <2>7. last[u] < n /\ n < clock /\ \A r \in seen[u] : Before(stamp, n, x, r)
    <3>1. Unchecked(u) = {}
      BY <2>4 DEF Unchecked
    <3>2. QED
      BY <2>6, <2>n, <2>x, <3>1 DEF PassOK
  <2>8. Ordered(stamp, last[u], x, seen[u], began[u])
    BY <2>x DEF RankInv, ThreadRanks
  <2>9. (\A r \in seen[u] : Made(r[1], r[2])) /\ \A v \in began[u] : IsCommitted(v)
    BY DEF HistInv, PastOK
  <2>10. \A v : (v = Initial \/ IsCommitted(v)) /\ Follows(stamp, last[u], v) => Follows(stamp, n, v)
    <3>1. \A v : IsCommitted(v) => v \in Versions
      BY DEF IsCommitted, Inv, TypeInv, HistoryOK
    <3>2. last[u] \in Nat
      OBVIOUS
    <3>3. ASSUME NEW v \in Versions, stamp[v] < last[u] PROVE stamp[v] < n
      BY <2>7, <3>2, <3>3
    <3>4. QED
      BY <3>1, <3>3 DEF Follows
  <2>11. Ordered(stamp, n, x, seen[u], began[u])
    <3>1. \A r \in seen[u] : r[2] = Initial \/ IsCommitted(r[2])
      BY <2>9, MadeFacts
    <3>2. QED
      BY <2>7, <2>8, <2>9, <2>10, <3>1 DEF Ordered
  <2>s. PICK reads, after : reads = seen[u] /\ after = began[u]
    OBVIOUS
  <2>12. Ordered(new, n, x, reads, after)'
    BY <2>s, <2>7, <2>9, <2>11, OrderedStable
  <2>13. QED
    BY <1>l, <2>1, <2>3, <2>n, <2>s, <2>x, <2>7, <2>12
<1>3. QED
  BY <1>1, <1>2 DEF CommittedRanks, Ordered, Before

-------------------------------------------------------------------------------
(* A step of the thread itself.                                              *)

\* The number of the last open is still a place if the attempt has read no more.
LEMMA KeptPlace ==
  ASSUME Inv, Inv', HistInv, NEW u \in Threads, Thread(u), Kind(u),
         NEW clock \in Nat, NEW stamp \in [Versions -> Nat], NEW last \in [Threads -> Nat],
         NEW later, NEW new, Renumbers(clock, stamp, later, new, u),
         ThreadRanks(clock, stamp, last, u),
         attempt'[u] = attempt[u], seen'[u] \subseteq seen[u], began'[u] \subseteq began[u]
  PROVE  last[u] < later /\ Ordered(new, last[u], Tx(u), seen[u], began[u])'
<1>x. PICK x : x = Tx(u) /\ x = Tx(u)'
  BY DEF Tx
<1>s. PICK reads, after : reads = seen'[u] /\ after = began'[u] /\ reads \subseteq seen[u] /\ after \subseteq began[u]
  OBVIOUS
<1>m. PICK m \in Nat : m = last[u]
  OBVIOUS
<1>1. m < clock /\ Ordered(stamp, m, x, reads, after)
  BY <1>x, <1>s, <1>m DEF ThreadRanks, Ordered
<1>2. (\A r \in reads : Made(r[1], r[2])) /\ \A v \in after : IsCommitted(v)
  BY <1>s DEF HistInv, PastOK
<1>3. Ordered(new, m, x, reads, after)'
  BY <1>1, <1>2, OrderedStable
<1>4. m < later
  BY <1>1 DEF Renumbers
<1>5. QED
  BY <1>x, <1>s, <1>m, <1>3, <1>4

\* What a thread has read stays in its lists.
LEMMA CoveredKeeps ==
  ASSUME NEW u \in Threads, Keeps(u), Covered(u),
         EndsRead(u)' /\ loc'[u].kind = "RO" /\ ~mode[u].isVisible =>
           Repeats(u)' \/ <<loc'[u].obj, loc'[u].newer>> \in Elements(invisReads'[u])
  PROVE  Covered(u)'
<1>1. /\ seen'[u] = seen[u] /\ mode' = mode
      /\ Elements(invisReads[u]) \subseteq Elements(invisReads'[u])
      /\ visReads[u] \subseteq visReads'[u]
      /\ \A w \in Elements(writes[u]) : \E x \in Elements(writes'[u]) : x.obj = w.obj /\ x.old = w.old
  BY DEF Keeps
<1>2. ASSUME NEW o \in Objects, NEW v \in Versions, <<o, v>> \in seen'[u]
      PROVE  \/ <<o, v>> \in Elements(invisReads'[u])
             \/ o \in visReads'[u]
             \/ \E w \in Elements(writes'[u]) : w.obj = o /\ w.old = v
  <2>1. \/ <<o, v>> \in Elements(invisReads[u])
        \/ o \in visReads[u]
        \/ \E w \in Elements(writes[u]) : w.obj = o /\ w.old = v
    BY <1>1, <1>2 DEF Covered
  <2>2. QED
    BY <1>1, <2>1
<1>3. QED
  BY <1>1, <1>2 DEF Covered

\* The number of the validation is still a place if what is newly checked is
\* replaced by nobody before.
LEMMA PassKept ==
  ASSUME Inv, Inv', HistInv, NEW u \in Threads, Thread(u), Kind(u),
         NEW clock \in Nat, NEW stamp \in [Versions -> Nat], NEW last \in [Threads -> Nat],
         ~Decides(u), Keeps(u), SameOpen(u), OpenPass(u)' => OpenPass(u),
         PassOK(clock, stamp, last, u),
         \A r \in seen[u] : r \in Unchecked(u) => r \in Unchecked(u)' \/ Before(stamp, stamp[Tx(u)], Tx(u), r)
  PROVE  PassOK(clock, stamp, last, u)'
<1>0. Renumbers(clock, stamp, clock, stamp, u)
  BY DEF Renumbers
<1>k. seen'[u] = seen[u] /\ attempt'[u] = attempt[u] /\ pc[u] \notin {"idle", "restore"}
  BY DEF Keeps
<1>x. PICK x \in Versions : x = Tx(u) /\ x = Tx(u)'
  <2>1. Tx(u) \in Versions
    BY <1>k, RunningUncommitted DEF RunningIsUncommitted
  <2>2. QED
    BY <1>k, <2>1 DEF Tx
<1>n. PICK n \in Nat : n = stamp[x]
  OBVIOUS
<1>p. PICK o, v : o = loc[u].obj /\ v = loc[u].newer /\ o = loc'[u].obj /\ v = loc'[u].newer
  BY DEF SameOpen
<1>1. /\ last[u] < n /\ n < clock
      /\ \A r \in seen[u] : r \in Unchecked(u) \/ Before(stamp, n, x, r)
      /\ OpenPass(u) => Follows(stamp, n, v) /\ Before(stamp, n, x, <<o, v>>)
  BY <1>x, <1>n, <1>p DEF PassOK
<1>2. \A r : Before(stamp, n, x, r) => Before(stamp, n, x, r)'
  BY <1>0, <1>1, BeforeStable
<1>3. \A r \in seen'[u] : r \in Unchecked(u)' \/ Before(stamp, n, x, r)'
  <2>1. \A r \in seen[u] : r \in Unchecked(u) => r \in Unchecked(u)' \/ Before(stamp, n, x, r)
    BY <1>x, <1>n
  <2>2. QED
    BY <1>k, <1>1, <1>2, <2>1
<1>4. OpenPass(u)' => Follows(stamp, n, v) /\ Before(stamp, n, x, <<o, v>>)'
  BY <1>1, <1>2
<1>5. QED
  BY <1>x, <1>n, <1>p, <1>1, <1>3, <1>4 DEF PassOK, Follows, Before

\* A thread that draws a number before it validates: all that it has to validate
\* is on its list, and nobody else replaces the rest.
LEMMA DrawRanks ==
  ASSUME Inv, Inv', HistInv, HistInv', NEW u \in Threads, Thread(u), Kind(u), ReadOK(u)',
         Enters(u) \/ Decides(u),
         NEW clock \in Nat, NEW stamp \in [Versions -> Nat], NEW last \in [Threads -> Nat],
         RankInv(clock, stamp, last),
         NEW new, new = [stamp EXCEPT ![Tx(u)] = clock]
  PROVE  Renumbers(clock, stamp, clock + 1, new, u) /\ ThreadRanks(clock + 1, new, last, u)'
<1>k. /\ Keeps(u) /\ pc[u] \notin {"idle", "restore"} /\ pc'[u] \notin {"idle", "restore"}
      /\ seen'[u] = seen[u] /\ began'[u] = began[u] /\ attempt'[u] = attempt[u]
      /\ invisReads'[u] = invisReads[u]
  BY DEF Keeps, Enters, Decides
<1>x. PICK x \in Versions : x = Tx(u) /\ x = Tx(u)'
  <2>1. Tx(u) \in Versions
    BY <1>k, RunningUncommitted DEF RunningIsUncommitted
  <2>2. QED
    BY <1>k, <2>1 DEF Tx
<1>l. PICK later \in Nat : later = clock + 1 /\ clock < later
  OBVIOUS
<1>n. new \in [Versions -> Nat] /\ new[x] = clock
  BY <1>x
<1>r. Renumbers(clock, stamp, later, new, u)
  BY <1>k, <1>l, <1>n DEF Renumbers
<1>t. ThreadRanks(clock, stamp, last, u)
  BY DEF RankInv
<1>m. PICK m \in Nat : m = last[u] /\ m < clock
  BY <1>t DEF ThreadRanks
<1>1. m < later /\ Ordered(new, m, Tx(u), seen[u], began[u])'
  BY <1>k, <1>m, <1>r, <1>t, KeptPlace
<1>2. ASSUME txState'[u] = "ACTIVE"
      PROVE  Covered(u)' /\ (OpenPass(u) \/ Deciding(u) => PassOK(later, new, last, u))'
  <2>1. txState[u] = "ACTIVE"
    BY <1>2, <1>k, StateChange
  <2>2. Covered(u)'
    <3>1. ~EndsRead(u)'
      BY DEF Enters, Decides, EndsRead
    <3>2. Covered(u)
      BY <1>t, <2>1 DEF ThreadRanks
    <3>3. QED
      BY <1>k, <3>1, <3>2, CoveredKeeps
  <2>3. Guarded(u)'
    <3>1. CoveredIsGuarded'
      BY CoveredGuarded, PTL
    <3>2. ContentsOK'
      BY DEF HistInv
    <3>3. Enters(u) => pc'[u] \in {"install", "insert", "clone", "snapReaders"}
      BY DEF Enters
    <3>4. Decides(u) => Deciding(u)' /\ Unchecked(u)' = Elements(invisReads'[u])
      BY <1>2, <1>k DEF Decides, Deciding
    <3>5. QED
      BY <1>2, <2>2, <3>1, <3>2, <3>3, <3>4 DEF CoveredIsGuarded
  <2>4. \A r \in seen'[u] : r \in Unchecked(u)' \/ Before(new, clock, x, r)'
    BY <1>x, <2>3 DEF Guarded, Before
  <2>5. ASSUME OpenPass(u)', NEW o, NEW v, o = loc'[u].obj, v = loc'[u].newer
        PROVE  Follows(new, clock, v) /\ Before(new, clock, x, <<o, v>>)'
    <3>1. Enters(u)
      BY <2>5 DEF Decides
    <3>2. o \in Objects /\ v \in Versions /\ Protected(u, o, v)'
      <4>1. PICK p \in Objects, y \in Versions : loc'[u].obj = p /\ loc'[u].newer = y /\ Protected(u, p, y)'
        BY <3>1 DEF Enters
      <4>2. p = o /\ y = v
        BY <2>5, <4>1
      <4>3. QED
        BY <4>1, <4>2
    <3>3. \A y : Overwrites(y, <<o, v>>)' => y = x
      <4>1. ProtectedIsLast'
        BY ProtectedLast, PTL
      <4>2. ContentsOK'
        BY DEF HistInv
      <4>3. QED
        BY <1>2, <1>x, <3>2, <4>1, <4>2 DEF ProtectedIsLast
    <3>4. v = Initial \/ IsCommitted(v)
      <4>1. Made(o, v)'
        BY <2>5 DEF HistInv, PastOK
      <4>2. committed' = committed
        BY <1>k, RunsOn DEF Kept
      <4>3. QED
        BY <4>1, <4>2 DEF Made, IsCommitted
    <3>5. v # Initial => stamp[v] < clock /\ new[v] = stamp[v]
      <4>1. v # Initial => stamp[v] < clock
        BY <3>4 DEF IsCommitted, RankInv, CommittedRanks
      <4>v. PICK y \in Versions : y = v
        BY <3>2
      <4>2. IsCommitted(y) => y # Tx(u)
        BY <1>k, RunningUncommitted DEF RunningIsUncommitted
      <4>3. QED
        BY <3>4, <4>v, <4>1, <4>2
    <3>6. QED
      BY <3>3, <3>5 DEF Follows, Before
  <2>p. PICK o, v : o = loc'[u].obj /\ v = loc'[u].newer
    OBVIOUS
  <2>6. OpenPass(u)' => Follows(new, clock, v) /\ Before(new, clock, x, <<o, v>>)'
    BY <2>p, <2>5
  <2>7. last[u] < clock /\ clock < later
    BY <1>l, <1>m
  <2>8. PassOK(later, new, last, u)'
    BY <1>x, <1>n, <2>p, <2>4, <2>6, <2>7 DEF PassOK, Follows, Before
  <2>9. QED
    BY <2>2, <2>8
<1>3. ThreadRanks(later, new, last, u)'
  BY <1>m, <1>1, <1>2 DEF ThreadRanks
<1>4. QED
  BY <1>l, <1>r, <1>3

\* The use of the version that an open chose: what is unchecked stays so, unless
\* the list is cut short at an earlier read of the same object.
LEMMA UsesRanks ==
  ASSUME Inv, Inv', HistInv, NEW u \in Threads, Thread(u), Kind(u), Uses(u),
         NEW clock \in Nat, NEW stamp \in [Versions -> Nat], NEW last \in [Threads -> Nat],
         ThreadRanks(clock, stamp, last, u)
  PROVE  Renumbers(clock, stamp, clock, stamp, u) /\ ThreadRanks(clock, stamp, last, u)'
<1>k. /\ Keeps(u) /\ SameOpen(u) /\ OpenPass(u) /\ ~EndsRead(u) /\ ~Decides(u)
      /\ pc[u] \notin {"idle", "restore"} /\ mode' = mode
      /\ seen'[u] = seen[u] /\ began'[u] = began[u] /\ attempt'[u] = attempt[u]
  BY DEF Uses, Keeps, Decides
<1>0. Renumbers(clock, stamp, clock, stamp, u)
  BY <1>k DEF Renumbers
<1>1. last[u] < clock /\ Ordered(stamp, last[u], Tx(u), seen[u], began[u])'
  BY <1>0, <1>k, KeptPlace
<1>p. PICK o : o = loc[u].obj /\ o = loc'[u].obj /\ loc'[u].kind = loc[u].kind
  BY <1>k DEF SameOpen
<1>2. ASSUME EndsRead(u)', loc[u].kind = "RO",
             \E v \in Versions : <<o, v>> \in Elements(invisReads[u]) /\ <<o, v>> \in Unchecked(u)'
      PROVE  Repeats(u)'
  <2>1. PICK v \in Versions : <<o, v>> \in Elements(invisReads[u]) /\ <<o, v>> \in Unchecked(u)'
    BY <1>2
  <2>2. <<o, v>> \in seen[u]
    BY <1>k, <2>1 DEF HistInv, InvisOK
  <2>3. QED
    BY <1>2, <1>k, <1>p, <2>1, <2>2 DEF Repeats
<1>3. ASSUME txState'[u] = "ACTIVE"
      PROVE  Covered(u)' /\ (Repeats(u) \/ PassOK(clock, stamp, last, u))'
  <2>1. txState[u] = "ACTIVE"
    BY <1>3, <1>k, StateChange
  <2>2. Covered(u) /\ PassOK(clock, stamp, last, u)
    BY <1>k, <2>1 DEF ThreadRanks, Repeats
  <2>3. Covered(u)'
    <3>1. ASSUME EndsRead(u)', loc'[u].kind = "RO", ~mode[u].isVisible
          PROVE  Repeats(u)' \/ <<loc'[u].obj, loc'[u].newer>> \in Elements(invisReads'[u])
      <4>1. \/ <<loc[u].obj, loc[u].newer>> \in Elements(invisReads'[u])
            \/ \E v \in Versions : <<o, v>> \in Elements(invisReads[u]) /\ <<o, v>> \in Unchecked(u)'
        BY <1>p, <3>1 DEF Uses
      <4>2. QED
        BY <1>2, <1>k, <1>p, <3>1, <4>1 DEF SameOpen
    <3>2. QED
      BY <1>k, <2>2, <3>1, CoveredKeeps
  <2>4. CASE Unchecked(u) \subseteq Unchecked(u)'
    BY <1>k, <2>2, <2>3, <2>4, PassKept
  <2>5. CASE ~(Unchecked(u) \subseteq Unchecked(u)')
    <3>1. /\ EndsRead(u)' /\ loc[u].kind = "RO"
          /\ \E v \in Versions : <<o, v>> \in Elements(invisReads[u]) /\ <<o, v>> \in Unchecked(u)'
      BY <1>p, <2>5 DEF Uses
    <3>2. QED
      BY <1>2, <2>3, <3>1
  <2>6. QED
    BY <2>4, <2>5
<1>4. QED
  BY <1>0, <1>1, <1>3 DEF ThreadRanks

\* The validation finds what it checks to be current: nobody has replaced it, nor
\* will anybody before the thread is killed (Descriptor_rstm.h:809-838).
LEMMA ChecksRanks ==
  ASSUME Inv, Inv', HistInv, NEW u \in Threads, Thread(u), Kind(u), Checks(u),
         NEW clock \in Nat, NEW stamp \in [Versions -> Nat], NEW last \in [Threads -> Nat],
         ThreadRanks(clock, stamp, last, u)
  PROVE  Renumbers(clock, stamp, clock, stamp, u) /\ ThreadRanks(clock, stamp, last, u)'
<1>k. /\ Keeps(u) /\ SameOpen(u) /\ ~Decides(u) /\ pc[u] = "validate" /\ mode' = mode
      /\ seen'[u] = seen[u] /\ began'[u] = began[u] /\ attempt'[u] = attempt[u]
      /\ (EndsRead(u)' <=> EndsRead(u)) /\ (OpenPass(u) <=> EndsRead(u)) /\ (OpenPass(u)' <=> EndsRead(u)')
      /\ Deciding(u)' => Deciding(u)
      /\ txState' = txState /\ Elements(invisReads'[u]) = Elements(invisReads[u])
  BY DEF Checks, Keeps, Decides, memory
<1>0. Renumbers(clock, stamp, clock, stamp, u)
  BY <1>k DEF Renumbers
<1>1. last[u] < clock /\ Ordered(stamp, last[u], Tx(u), seen[u], began[u])'
  BY <1>0, <1>k, KeptPlace
<1>r. PICK p \in Objects, y \in Versions :
         isCurrent(u, p, y) /\ Unchecked(u) = Unchecked(u)' \cup {<<p, y>>}
  <2>1. PICK r \in Pair : isCurrent(u, r[1], r[2]) /\ Unchecked(u) = Unchecked(u)' \cup {r}
    BY DEF Checks
  <2>2. PICK p \in Objects, y \in Versions : r = <<p, y>>
    BY DEF Pair
  <2>3. QED
    BY <2>1, <2>2
<1>2. ASSUME <<p, y>> \in seen[u], txState[u] = "ACTIVE"
      PROVE  ~Gone(p, y) /\ \A x : Overwrites(x, <<p, y>>) => x = Tx(u)
  <2>1. Protected(u, p, y)
    <3>1. last[u] \in Nat /\ Ordered(stamp, last[u], Tx(u), seen[u], began[u])
      BY DEF ThreadRanks
    <3>2. QED
      BY <1>2, <1>k, <1>r, <3>1, CurrentIsProtected
  <2>2. Current(p) = y
    BY <1>2, <2>1, ProtectedCurrent DEF ProtectedIsCurrent
  <2>3. QED
    BY <1>2, <2>1, <2>2, ProtectedLast DEF ProtectedIsLast, HistInv, ContentsOK
<1>p. PICK o, v : o = loc[u].obj /\ v = loc[u].newer /\ o = loc'[u].obj /\ v = loc'[u].newer
                  /\ loc'[u].kind = loc[u].kind
  BY <1>k DEF SameOpen
<1>3. ASSUME txState[u] = "ACTIVE", Repeats(u) PROVE Repeats(u)'
  <2>1. PICK x \in Versions : <<o, x>> \in seen[u] /\ (x = v \/ <<o, x>> \in Unchecked(u))
    BY <1>3, <1>p DEF Repeats
  <2>2. x = v \/ <<o, x>> \in Unchecked(u)'
    <3>1. CASE <<o, x>> = <<p, y>>
      <4>1. ~Gone(o, x)
        BY <1>2, <1>3, <2>1, <3>1
      <4>2. x = v \/ Gone(o, x)
        BY <1>3, <1>k, <1>p, <2>1 DEF HistInv, PastOK, Repeats
      <4>3. QED
        BY <4>1, <4>2
    <3>2. CASE <<o, x>> # <<p, y>>
      BY <1>r, <2>1, <3>2
    <3>3. QED
      BY <3>1, <3>2
  <2>3. QED
    BY <1>3, <1>k, <1>p, <2>1, <2>2 DEF Repeats
<1>4. ASSUME txState'[u] = "ACTIVE"
      PROVE  Covered(u)' /\ (OpenPass(u) \/ Deciding(u) => Repeats(u) \/ PassOK(clock, stamp, last, u))'
  <2>1. txState[u] = "ACTIVE" /\ Covered(u)
    BY <1>4, <1>k DEF ThreadRanks
  <2>2. Covered(u)'
    <3>1. ASSUME EndsRead(u)', loc'[u].kind = "RO", ~mode[u].isVisible
          PROVE  Repeats(u)' \/ <<loc'[u].obj, loc'[u].newer>> \in Elements(invisReads'[u])
      <4>1. Repeats(u) \/ <<o, v>> \in Elements(invisReads[u])
        BY <1>k, <1>p, <2>1, <3>1 DEF Covered
      <4>2. QED
        BY <1>3, <1>k, <1>p, <2>1, <4>1
    <3>2. QED
      BY <1>k, <2>1, <3>1, CoveredKeeps
  <2>3. ASSUME (OpenPass(u) \/ Deciding(u))', ~Repeats(u) PROVE PassOK(clock, stamp, last, u)'
    <3>1. PassOK(clock, stamp, last, u)
      BY <1>k, <2>1, <2>3 DEF ThreadRanks
    <3>2. \A r \in seen[u] : r \in Unchecked(u) => r \in Unchecked(u)' \/ Before(stamp, stamp[Tx(u)], Tx(u), r)
      BY <1>2, <1>r, <2>1 DEF Before
    <3>3. QED
      BY <1>k, <3>1, <3>2, PassKept
  <2>4. QED
    BY <1>3, <2>1, <2>2, <2>3
<1>5. QED
  BY <1>0, <1>1, <1>4 DEF ThreadRanks

\* An open returns: the place of the attempt is now that of this open, if it has
\* read anything new. All it read before has been checked since it chose the
\* version (Descriptor_rstm.h:1257-1264).
LEMMA ReturnsRanks ==
  ASSUME Inv, Inv', HistInv, NEW u \in Threads, Thread(u), Kind(u), Returns(u), ReadOK(u),
         NEW clock \in Nat, NEW stamp \in [Versions -> Nat], NEW last \in [Threads -> Nat],
         ThreadRanks(clock, stamp, last, u)
  PROVE  /\ Renumbers(clock, stamp, clock, stamp, u)
         /\ \E final \in [Threads -> Nat] :
              (\A t \in Threads \ {u} : final[t] = last[t]) /\ ThreadRanks(clock, stamp, final, u)'
<1>p. PICK o \in Objects, v \in Versions : o = loc[u].obj /\ v = loc[u].newer
  BY Types, ThreadFacts DEF Returns, LocalOK, Locals
<1>k. /\ pc[u] = "opened" /\ pc'[u] = "work" /\ ~Decides(u) /\ mode' = mode
      /\ seen'[u] = seen[u] \cup {<<o, v>>} /\ began'[u] = began[u] /\ attempt'[u] = attempt[u]
      /\ invisReads'[u] = invisReads[u] /\ visReads'[u] = visReads[u] /\ writes'[u] = writes[u]
  BY <1>p DEF Returns, Decides
<1>0. Renumbers(clock, stamp, clock, stamp, u)
  BY <1>k DEF Renumbers
<1>e. EndsRead(u) /\ OpenPass(u) /\ Unchecked(u) = {} /\ ~EndsRead(u)' /\ ~OpenPass(u)' /\ ~Deciding(u)'
  BY <1>k DEF EndsRead, OpenPass, Unchecked, Deciding
<1>a. txState[u] = "ACTIVE"
  BY <1>k, ThreadFacts DEF LocalOK, Returns, Killed
<1>1. Covered(u) /\ (Repeats(u) \/ PassOK(clock, stamp, last, u))
  BY <1>a, <1>e DEF ThreadRanks
<1>2. Repeats(u) => <<o, v>> \in seen[u]
  BY <1>e, <1>p DEF Repeats
<1>3. Covered(u)'
  <2>1. \/ <<o, v>> \in seen[u]
        \/ <<o, v>> \in Elements(invisReads[u])
        \/ o \in visReads[u]
        \/ \E w \in Elements(writes[u]) : w.obj = o /\ w.old = v
    <3>1. CASE loc[u].kind = "RO" /\ ~mode[u].isVisible
      BY <1>1, <1>2, <1>e, <1>p, <3>1 DEF Covered
    <3>2. CASE loc[u].kind = "RO" /\ mode[u].isVisible
      BY <1>e, <1>p, <3>2 DEF ReadOK, SeenOK
    <3>3. CASE loc[u].kind = "RW" /\ mode[u].isLazy
      BY <1>e, <1>p, <3>3 DEF ReadOK, SeenOK
    <3>4. CASE loc[u].kind = "RW" /\ ~mode[u].isLazy
      BY <1>k, <1>p, <3>4, ThreadFacts DEF WritesOK, EndsOpen
    <3>5. loc[u].kind \in {"RO", "RW"}
      BY Types DEF Locals
    <3>6. QED
      BY <3>1, <3>2, <3>3, <3>4, <3>5
  <2>2. ASSUME NEW p \in Objects, NEW y \in Versions, <<p, y>> \in seen'[u]
        PROVE  \/ <<p, y>> \in Elements(invisReads[u])
               \/ p \in visReads[u]
               \/ \E w \in Elements(writes[u]) : w.obj = p /\ w.old = y
    <3>1. CASE <<p, y>> \in seen[u]
      BY <1>1, <3>1 DEF Covered
    <3>2. CASE p = o /\ y = v
      BY <1>1, <2>1, <3>2 DEF Covered
    <3>3. QED
      BY <1>k, <2>2, <3>1, <3>2
  <2>3. QED
    BY <1>e, <1>k, <2>2 DEF Covered
<1>4. CASE Repeats(u)
  <2>1. seen'[u] = seen[u]
    BY <1>2, <1>4, <1>k
  <2>2. last[u] < clock /\ Ordered(stamp, last[u], Tx(u), seen[u], began[u])'
    BY <1>0, <1>k, <2>1, KeptPlace
  <2>3. ThreadRanks(clock, stamp, last, u)'
    BY <1>3, <1>e, <2>2 DEF ThreadRanks
  <2>4. QED
    BY <1>0, <2>3
<1>5. CASE ~Repeats(u)
  <2>x. PICK x \in Versions : x = Tx(u) /\ x = Tx(u)'
    <3>1. Tx(u) \in Versions
      BY <1>k, RunningUncommitted DEF RunningIsUncommitted
    <3>2. QED
      BY <1>k, <3>1 DEF Tx
  <2>n. PICK n \in Nat : n = stamp[x]
    OBVIOUS
  <2>s. PICK reads, after : reads = seen[u] /\ after = began[u]
    OBVIOUS
  <2>m. PICK m \in Nat : m = last[u]
    OBVIOUS
  <2>1. /\ m < n /\ n < clock /\ \A r \in reads : Before(stamp, n, x, r)
        /\ Follows(stamp, n, v) /\ Before(stamp, n, x, <<o, v>>)
    BY <1>1, <1>5, <1>e, <1>p, <2>x, <2>n, <2>s, <2>m DEF PassOK
  <2>2. Ordered(stamp, m, x, reads, after)
    BY <2>s, <2>m, <2>x DEF ThreadRanks
  <2>3. /\ \A r \in reads : Made(r[1], r[2])
        /\ \A y \in after : IsCommitted(y)
        /\ Made(o, v)
    BY <1>e, <1>p, <2>s DEF HistInv, PastOK
  <2>4. \A y : (y = Initial \/ IsCommitted(y)) /\ Follows(stamp, m, y) => Follows(stamp, n, y)
    <3>1. \A y : IsCommitted(y) => y \in Versions
      BY DEF IsCommitted, Inv, TypeInv, HistoryOK
    <3>2. ASSUME NEW y \in Versions, stamp[y] < m PROVE stamp[y] < n
      BY <2>1, <3>2
    <3>3. QED
      BY <3>1, <3>2 DEF Follows
  <2>r. PICK more : more = reads \cup {<<o, v>>}
    OBVIOUS
  <2>5. \A r \in more : Made(r[1], r[2]) /\ Follows(stamp, n, r[2]) /\ Before(stamp, n, x, r)
    <3>1. ASSUME NEW r \in reads PROVE Made(r[1], r[2]) /\ Follows(stamp, n, r[2]) /\ Before(stamp, n, x, r)
      BY <2>1, <2>2, <2>3, <2>4, MadeFacts DEF Ordered
    <3>2. QED
      BY <2>1, <2>3, <2>r, <3>1
  <2>6. Ordered(stamp, n, x, more, after)
    BY <2>2, <2>3, <2>4, <2>5 DEF Ordered
  <2>7. Ordered(stamp, n, x, more, after)'
    BY <1>0, <2>1, <2>3, <2>5, <2>6, OrderedStable
  <2>f. PICK final \in [Threads -> Nat] : final[u] = n /\ \A t \in Threads \ {u} : final[t] = last[t]
    <3>1. [last EXCEPT ![u] = n] \in [Threads -> Nat]
      OBVIOUS
    <3>2. QED
      BY <3>1
  <2>8. more = seen'[u] /\ after = began'[u]
    BY <1>k, <2>s, <2>r
  <2>9. ThreadRanks(clock, stamp, final, u)'
    BY <1>3, <1>e, <2>1, <2>f, <2>x, <2>7, <2>8 DEF ThreadRanks
  <2>10. QED
    BY <1>0, <2>f, <2>9
<1>6. QED
  BY <1>4, <1>5

\* Every step of the thread leaves it a place.
LEMMA OwnRanks ==
  ASSUME Inv, Inv', HistInv, HistInv', NEW u \in Threads, Thread(u), Kind(u), ReadOK(u), ReadOK(u)',
         NEW clock \in Nat, NEW stamp \in [Versions -> Nat], NEW last \in [Threads -> Nat],
         RankInv(clock, stamp, last)
  PROVE  \E later \in Nat, new \in [Versions -> Nat], final \in [Threads -> Nat] :
           /\ Renumbers(clock, stamp, later, new, u)
           /\ \A t \in Threads \ {u} : final[t] = last[t]
           /\ ThreadRanks(later, new, final, u)'
<1>t. ThreadRanks(clock, stamp, last, u)
  BY DEF RankInv
<1>1. CASE Begin(u)
  <2>1. /\ pc[u] = "idle" /\ pc'[u] = "work" /\ seen' = seen /\ committed' = committed
        /\ began'[u] = {c.tx : c \in committed}
    BY <1>1, Types DEF Begin, GoTo, Inv, TypeInv, HistoryOK
  <2>2. seen'[u] = {}
    BY <2>1 DEF ReadOK, SeenOK
  <2>3. ~OpenPass(u)' /\ ~EndsRead(u)' /\ ~Deciding(u)' /\ ~Decides(u)
    BY <2>1 DEF OpenPass, EndsRead, Deciding, Decides
  <2>4. Covered(u)'
    BY <2>2, <2>3 DEF Covered
  <2>5. \A v \in began'[u] : stamp[v] < clock
    BY <2>1 DEF RankInv, CommittedRanks
  <2>l. PICK later \in Nat : later = clock + 1 /\ clock < later
    OBVIOUS
  <2>f. PICK final \in [Threads -> Nat] : final[u] = clock /\ \A t \in Threads \ {u} : final[t] = last[t]
    <3>1. [last EXCEPT ![u] = clock] \in [Threads -> Nat]
      OBVIOUS
    <3>2. QED
      BY <3>1
  <2>6. Renumbers(clock, stamp, later, stamp, u)
    BY <2>3, <2>l DEF Renumbers
  <2>7. ThreadRanks(later, stamp, final, u)'
    BY <2>2, <2>3, <2>4, <2>5, <2>l, <2>f DEF ThreadRanks, Ordered, Follows
  <2>8. QED
    BY <2>f, <2>6, <2>7
<1>2. CASE Finishes(u)
  <2>1. /\ pc'[u] \in {"idle", "restore"} /\ attempt'[u] = attempt[u]
        /\ seen'[u] \subseteq seen[u] /\ began'[u] \subseteq began[u] /\ ~Decides(u)
    BY <1>2 DEF Finishes, Decides
  <2>2. txState'[u] # "ACTIVE"
    BY <2>1 DEF Inv, ThreadInv, LocalOK
  <2>3. Renumbers(clock, stamp, clock, stamp, u)
    BY <2>1 DEF Renumbers
  <2>4. last[u] < clock /\ Ordered(stamp, last[u], Tx(u), seen[u], began[u])'
    BY <1>t, <2>1, <2>3, KeptPlace
  <2>5. ThreadRanks(clock, stamp, last, u)'
    BY <2>2, <2>4 DEF ThreadRanks
  <2>6. QED
    BY <2>3, <2>5
<1>3. CASE Moves(u)
  <2>1. /\ Keeps(u) /\ seen'[u] = seen[u] /\ began'[u] = began[u] /\ attempt'[u] = attempt[u] /\ ~Decides(u)
        /\ pc[u] # "idle" /\ ~OpenPass(u)' /\ ~EndsRead(u)' /\ ~Deciding(u)'
    BY <1>3 DEF Moves, Keeps, Decides, OpenPass, Deciding
  <2>2. Renumbers(clock, stamp, clock, stamp, u)
    BY <2>1 DEF Renumbers
  <2>3. last[u] < clock /\ Ordered(stamp, last[u], Tx(u), seen[u], began[u])'
    BY <1>t, <2>1, <2>2, KeptPlace
  <2>4. txState'[u] = "ACTIVE" => Covered(u)'
    <3>1. txState'[u] = "ACTIVE" => Covered(u)
      BY <1>t, <2>1, StateChange DEF ThreadRanks
    <3>2. QED
      BY <2>1, <3>1, CoveredKeeps
  <2>5. ThreadRanks(clock, stamp, last, u)'
    BY <2>1, <2>3, <2>4 DEF ThreadRanks
  <2>6. QED
    BY <2>2, <2>5
<1>4. CASE Enters(u) \/ Decides(u)
  <2>1. PICK new : new = [stamp EXCEPT ![Tx(u)] = clock]
    OBVIOUS
  <2>2. Renumbers(clock, stamp, clock + 1, new, u) /\ ThreadRanks(clock + 1, new, last, u)'
    BY <1>4, <2>1, DrawRanks
  <2>3. clock + 1 \in Nat /\ new \in [Versions -> Nat]
    BY <2>2 DEF Renumbers
  <2>4. QED
    BY <2>2, <2>3
<1>5. CASE Uses(u)
  BY <1>t, <1>5, UsesRanks
<1>6. CASE Checks(u)
  BY <1>t, <1>6, ChecksRanks
<1>7. CASE Returns(u)
  BY <1>t, <1>7, ReturnsRanks
<1>8. QED
  BY <1>1, <1>2, <1>3, <1>4, <1>5, <1>6, <1>7 DEF Kind

-------------------------------------------------------------------------------
(* The theorem.                                                              *)

\* Every step leaves everybody a place.
LEMMA RankStep ==
  ASSUME Inv, Inv', HistInv, HistInv', NEW u \in Threads, Thread(u), ReadOK(u), ReadOK(u)', Ranked
  PROVE  Ranked'
<1>k. Kind(u)
  BY StepKinds
<1>1. PICK clock \in Nat, stamp \in [Versions -> Nat], last \in [Threads -> Nat] : RankInv(clock, stamp, last)
  BY DEF Ranked
<1>2. PICK later \in Nat, new \in [Versions -> Nat], final \in [Threads -> Nat] :
           /\ Renumbers(clock, stamp, later, new, u)
           /\ \A t \in Threads \ {u} : final[t] = last[t]
           /\ ThreadRanks(later, new, final, u)'
  BY <1>k, <1>1, OwnRanks
<1>3. CommittedRanks(later, new)'
  BY <1>k, <1>1, <1>2, CommittedRanksStep
<1>4. ASSUME NEW t \in Threads PROVE ThreadRanks(later, new, final, t)'
  <2>1. CASE t = u
    BY <1>2, <2>1
  <2>2. CASE t # u
    BY <1>k, <1>1, <1>2, <2>2, OtherRanks DEF RankInv
  <2>3. QED
    BY <2>1, <2>2
<1>5. QED
  BY <1>3, <1>4 DEF Ranked, RankInv

\* A transaction that is live stays out of the log.
LEMMA LiveStep ==
  ASSUME Inv, Inv', HistInv, NEW u \in Threads, Thread(u), ReadOK(u), NEW t \in Threads, LiveOK(t)
  PROVE  LiveOK(t)'
<1>1. CASE t # u
  <2>1. seen'[t] = seen[t] /\ attempt'[t] = attempt[t]
    BY <1>1, OwnState, OwnHistory DEF Alone
  <2>2. \A c \in committed' : c \in committed \/ c.tx # Tx(t)
    BY <1>1, CommitsOf DEF Tx
  <2>3. Tx(t)' = Tx(t)
    BY <2>1 DEF Tx
  <2>x. PICK x : x = Tx(t) /\ x = Tx(t)'
    BY <2>3
  <2>4. QED
    BY <2>1, <2>2, <2>x DEF LiveOK, IsCommitted
<1>2. CASE t = u
  <2>1. CASE pc'[u] \notin {"idle", "restore"}
    <3>1. RunningIsUncommitted'
      BY RunningUncommitted, PTL
    <3>2. QED
      BY <1>2, <2>1, <3>1 DEF RunningIsUncommitted, LiveOK
  <2>2. CASE pc'[u] \in {"idle", "restore"}
    <3>1. ~Begin(u)
      BY <2>2, Types DEF Begin, GoTo
    <3>2. Finishes(u)
      BY <2>2, <3>1, StepKinds DEF Kind, Moves, Enters, Uses, Decides, Checks, Returns, Keeps
    <3>3. attempt'[u] = attempt[u] /\ (seen'[u] = {} \/ (seen'[u] = seen[u] /\ committed' = committed))
      BY <3>2 DEF Finishes
    <3>x. PICK x : x = Tx(u) /\ x = Tx(u)'
      BY <3>3 DEF Tx
    <3>4. QED
      BY <1>2, <3>3, <3>x DEF LiveOK, IsCommitted
  <2>3. QED
    BY <2>1, <2>2
<1>3. QED
  BY <1>1, <1>2

\* Transactions of which those that come before have smaller numbers are in an
\* acyclic order.
LEMMA RankedIsAcyclic ==
  ASSUME NEW T, NEW rank \in [T -> Nat], \A a, b \in T : a # b /\ Precedes(a, b) => rank[a] < rank[b]
  PROVE  Acyclic(T)
<1>1. ASSUME NEW S \in SUBSET T, S # {} PROVE \E b \in S : \A a \in S \ {b} : ~Precedes(a, b)
  <2>1. PICK ranks : ranks = {rank[a] : a \in S}
    OBVIOUS
  <2>2. ranks \subseteq Nat /\ ranks # {}
    BY <1>1, <2>1
  <2>3. PICK n \in ranks : \A m \in ranks : n <= m
    BY <2>2, NatLeast
  <2>4. PICK b \in S : rank[b] = n
    BY <2>1
  <2>5. ASSUME NEW a \in S \ {b}, Precedes(a, b) PROVE FALSE
    <3>1. rank[a] < rank[b] /\ rank[b] <= rank[a] /\ rank[a] \in Nat /\ rank[b] \in Nat
      BY <2>1, <2>3, <2>4, <2>5
    <3>2. QED
      BY <3>1
  <2>6. QED
    BY <2>5
<1>2. QED
  BY <1>1 DEF Acyclic

\* A transaction that comes before another has a smaller number.
LEMMA PrecedesRanks ==
  ASSUME Inv, HistInv, NEW stamp \in [Versions -> Nat], NEW a, NEW b, NEW m \in Nat, NEW n \in Nat,
         Ordered(stamp, m, a.tx, a.reads, a.after), Ordered(stamp, n, b.tx, b.reads, b.after),
         (a \in committed /\ m = stamp[a.tx]) \/ (~IsCommitted(a.tx) /\ a.tx # Initial),
         (b \in committed /\ n = stamp[b.tx]) \/ b.writes = {},
         \A r \in b.reads : Made(r[1], r[2]), \A v \in b.after : IsCommitted(v),
         a.tx # b.tx, Precedes(a, b)
  PROVE  m < n
<1>0. a \in committed => a.tx # Initial
  BY NoThreadAssumption DEF Inv, CommittedOK, Initial
<1>1. CASE \E r \in b.reads : r[2] = a.tx
  <2>1. Follows(stamp, n, a.tx) /\ (a.tx = Initial \/ IsCommitted(a.tx))
    BY <1>1, MadeFacts DEF Ordered
  <2>2. QED
    BY <1>0, <2>1 DEF Follows
<1>2. CASE a.reads \cap b.writes # {}
  <2>1. PICK r \in a.reads : r \in b.writes
    BY <1>2
  <2>2. b \in committed /\ n = stamp[b.tx]
    BY <2>1
  <2>3. Overwrites(b.tx, r) /\ b.tx \in Versions
    BY <2>1, <2>2 DEF Overwrites, Inv, TypeInv, HistoryOK
  <2>4. Before(stamp, m, a.tx, r)
    BY <2>1 DEF Ordered
  <2>5. QED
    BY <2>2, <2>3, <2>4 DEF Before
<1>3. CASE a.tx \in b.after
  <2>1. Follows(stamp, n, a.tx) /\ IsCommitted(a.tx)
    BY <1>3 DEF Ordered
  <2>2. QED
    BY <1>0, <2>1 DEF Follows
<1>4. QED
  BY <1>1, <1>2, <1>3 DEF Precedes

\* The places in the serial order make the history opaque.
LEMMA RankedIsOpaque ==
  ASSUME Inv, HistInv, Ranked, \A t \in Threads : LiveOK(t)
  PROVE  Opacity
<1>n. PICK clock \in Nat, stamp \in [Versions -> Nat], last \in [Threads -> Nat] : RankInv(clock, stamp, last)
  BY DEF Ranked
<1>1. ASSUME NEW c \in committed
      PROVE  /\ c.tx \in Versions /\ stamp[c.tx] \in Nat
             /\ Ordered(stamp, stamp[c.tx], c.tx, c.reads, c.after)
             /\ \A r \in c.reads : Made(r[1], r[2])
             /\ \A v \in c.after : IsCommitted(v)
  <2>1. c.tx \in Versions
    BY DEF Inv, TypeInv, HistoryOK
  <2>2. Ordered(stamp, stamp[c.tx], c.tx, c.reads, c.after)
    BY <1>n DEF RankInv, CommittedRanks
  <2>3. (\A r \in c.reads : Made(r[1], r[2])) /\ \A v \in c.after : IsCommitted(v)
    BY DEF HistInv, LogOK
  <2>4. QED
    BY <2>1, <2>2, <2>3
<1>2. ASSUME NEW a \in committed, NEW b \in committed, a # b, Precedes(a, b)
      PROVE  stamp[a.tx] < stamp[b.tx]
  <2>1. a.tx # b.tx
    BY <1>2 DEF HistInv, LogOK
  <2>m. PICK m \in Nat, n \in Nat : m = stamp[a.tx] /\ n = stamp[b.tx]
    BY <1>1
  <2>2. /\ Ordered(stamp, m, a.tx, a.reads, a.after) /\ Ordered(stamp, n, b.tx, b.reads, b.after)
        /\ \A r \in b.reads : Made(r[1], r[2])
        /\ \A v \in b.after : IsCommitted(v)
    BY <1>1, <2>m
  <2>3. m < n
    BY <1>2, <2>1, <2>m, <2>2, PrecedesRanks
  <2>4. QED
    BY <2>m, <2>3
<1>3. Acyclic(committed)
  <2>1. PICK rank : rank = [c \in committed |-> stamp[c.tx]]
    OBVIOUS
  <2>2. rank \in [committed -> Nat] /\ \A c \in committed : rank[c] = stamp[c.tx]
    BY <1>1, <2>1
  <2>3. QED
    BY <1>2, <2>2, RankedIsAcyclic
<1>4. ASSUME NEW c, \A r \in c.reads : Made(r[1], r[2])
      PROVE  ReadsWhatCommitted(c, committed, Initial)
  BY <1>4 DEF ReadsWhatCommitted, Made
<1>5. ASSUME NEW t \in Threads, seen[t] # {}, NEW l, l = Live(t)
      PROVE  (\A r \in l.reads : Made(r[1], r[2])) /\ Acyclic(committed \cup {l})
  <2>1. l.tx = Tx(t) /\ l.reads = seen[t] /\ l.after = began[t] /\ l.writes = {}
    BY <1>5 DEF Live
  <2>2. (\A r \in l.reads : Made(r[1], r[2])) /\ \A v \in l.after : IsCommitted(v)
    BY <2>1 DEF HistInv, PastOK
  <2>3. ~IsCommitted(l.tx) /\ l.tx # Initial
    BY <1>5, <2>1, NoThreadAssumption DEF LiveOK, Tx, Initial
  <2>m. PICK m \in Nat : m = last[t]
    OBVIOUS
  <2>4. Ordered(stamp, m, l.tx, l.reads, l.after)
    BY <1>n, <2>1, <2>m DEF RankInv, ThreadRanks
  <2>5. \A c \in committed : c.tx # l.tx /\ c # l
    BY <2>3 DEF IsCommitted
  <2>6. ASSUME NEW b \in committed
        PROVE  /\ Precedes(l, b) => m < stamp[b.tx]
               /\ Precedes(b, l) => stamp[b.tx] < m
    <3>n. PICK n \in Nat : n = stamp[b.tx]
      BY <1>1
    <3>1. /\ Ordered(stamp, n, b.tx, b.reads, b.after)
          /\ \A r \in b.reads : Made(r[1], r[2])
          /\ \A v \in b.after : IsCommitted(v)
      BY <1>1, <3>n
    <3>2. Precedes(l, b) => m < n
      BY <2>3, <2>4, <2>5, <3>n, <3>1, PrecedesRanks
    <3>3. Precedes(b, l) => n < m
      BY <2>1, <2>2, <2>4, <2>5, <3>n, <3>1, PrecedesRanks
    <3>4. QED
      BY <3>n, <3>2, <3>3
  <2>t. PICK T : T = committed \cup {l}
    OBVIOUS
  <2>r. PICK rank \in [T -> Nat] : rank[l] = m /\ \A c \in committed : rank[c] = stamp[c.tx]
    <3>1. PICK g : g = [c \in T |-> IF c = l THEN m ELSE stamp[c.tx]]
      OBVIOUS
    <3>2. \A c \in T : c = l \/ c \in committed
      BY <2>t
    <3>3. g \in [T -> Nat]
      BY <1>1, <3>1, <3>2
    <3>4. l \in T /\ g[l] = m
      BY <2>t, <3>1
    <3>5. \A c \in committed : g[c] = stamp[c.tx]
      BY <2>t, <2>5, <3>1
    <3>6. QED
      BY <3>3, <3>4, <3>5
  <2>7. ASSUME NEW a \in T, NEW b \in T, a # b, Precedes(a, b) PROVE rank[a] < rank[b]
    <3>1. CASE a \in committed /\ b \in committed
      BY <1>2, <2>r, <2>7, <3>1
    <3>2. CASE a = l /\ b \in committed
      BY <2>6, <2>r, <2>7, <3>2
    <3>3. CASE a \in committed /\ b = l
      BY <2>6, <2>r, <2>7, <3>3
    <3>4. QED
      BY <2>t, <2>7, <3>1, <3>2, <3>3
  <2>8. Acyclic(T)
    BY <2>7, RankedIsAcyclic
  <2>9. QED
    BY <2>2, <2>t, <2>8
<1>6. PICK live : live = {Live(t) : t \in {u \in Threads : seen[u] # {}}}
  OBVIOUS
<1>7. \A l \in live : (\A r \in l.reads : Made(r[1], r[2])) /\ Acyclic(committed \cup {l})
  BY <1>5, <1>6
<1>8. \A c \in committed \cup live : ReadsWhatCommitted(c, committed, Initial)
  BY <1>1, <1>4, <1>7
<1>9. QED
  BY <1>3, <1>6, <1>7, <1>8 DEF Opacity, OpaqueHistory

\* All that the theorem rests on, besides Inv.
OpacityInv ==
  /\ HistInv
  /\ Ranked
  /\ \A t \in Threads : ReadOK(t) /\ LiveOK(t)

\* It holds initially: nothing has been read, and every number is 0.
LEMMA OpacityInit ==
  ASSUME Init
  PROVE  OpacityInv
<1>1. committed = {} /\ \A t \in Threads : /\ pc[t] = "idle" /\ txState[t] = "COMMITTED"
                                           /\ seen[t] = {} /\ began[t] = {} /\ visReads[t] = {}
  BY DEF Init
<1>2. ASSUME NEW t \in Threads PROVE ReadOK(t) /\ LiveOK(t)
  BY <1>1 DEF ReadOK, HeldOK, SeenOK, EndsRead, LiveOK
<1>3. PICK stamp \in [Versions -> Nat], last \in [Threads -> Nat] : \A t \in Threads : last[t] = 0
  <2>1. [v \in Versions |-> 0] \in [Versions -> Nat] /\ [t \in Threads |-> 0] \in [Threads -> Nat]
    OBVIOUS
  <2>2. QED
    BY <2>1
<1>4. RankInv(1, stamp, last)
  BY <1>1, <1>3 DEF RankInv, CommittedRanks, ThreadRanks, Ordered
<1>5. Ranked
  BY <1>4 DEF Ranked
<1>6. QED
  BY <1>2, <1>5, HistInit DEF OpacityInv

\* Every statement of a thread preserves it.
LEMMA OpacityStep ==
  ASSUME Inv, Inv', OpacityInv, NEW u \in Threads, Thread(u)
  PROVE  OpacityInv'
<1>1. \A t \in Threads : ReadOK(t)'
  BY OtherReads, ReadStep DEF OpacityInv
<1>2. HistInv'
  BY HistStep DEF OpacityInv
<1>3. Ranked'
  BY <1>1, <1>2, RankStep DEF OpacityInv
<1>4. \A t \in Threads : LiveOK(t)'
  BY LiveStep DEF OpacityInv
<1>5. QED
  BY <1>1, <1>2, <1>3, <1>4 DEF OpacityInv

\* So does a stuttering step.
LEMMA OpacityStutter ==
  ASSUME OpacityInv, UNCHANGED vars
  PROVE  OpacityInv'
<1> USE DEF vars, memory, self, lists, history
<1>1. HistInv'
  BY DEF OpacityInv, HistInv, LogOK, ContentsOK, PastOK, InvisOK, Made, Gone, IsCommitted, OpenPass, EndsRead, Current
<1>2. ASSUME NEW t \in Threads PROVE ReadOK(t)' /\ LiveOK(t)'
  BY DEF OpacityInv, ReadOK, HeldOK, Held, Protected, SeenOK, EndsRead, LiveOK, IsCommitted, Tx
<1>3. Ranked'
  <2>1. PICK clock \in Nat, stamp \in [Versions -> Nat], last \in [Threads -> Nat] : RankInv(clock, stamp, last)
    BY DEF OpacityInv, Ranked
  <2>2. \A t \in Threads : /\ Tx(t)' = Tx(t) /\ (Deciding(t)' <=> Deciding(t)) /\ (OpenPass(t)' <=> OpenPass(t))
                           /\ (EndsRead(t)' <=> EndsRead(t)) /\ Unchecked(t)' = Unchecked(t)
    BY DEF Tx, Deciding, OpenPass, EndsRead, Unchecked, LazyPairs
  <2>3. \A x, r : Overwrites(x, r)' <=> Overwrites(x, r)
    BY <2>2 DEF Overwrites
  <2>4. \A n, x, r : Before(stamp, n, x, r)' <=> Before(stamp, n, x, r)
    BY <2>3 DEF Before
  <2>5. CommittedRanks(clock, stamp)'
    BY <2>1, <2>4 DEF RankInv, CommittedRanks, Ordered, Follows
  <2>6. ASSUME NEW t \in Threads PROVE ThreadRanks(clock, stamp, last, t)'
    <3>x. PICK x : x = Tx(t) /\ x = Tx(t)'
      BY <2>2
    <3>1. ThreadRanks(clock, stamp, last, t)
      BY <2>1 DEF RankInv
    <3>r. Repeats(t)' <=> Repeats(t)
      BY <2>2 DEF Repeats
    <3>2. (Repeats(t)' <=> Repeats(t)) /\ (Covered(t)' <=> Covered(t))
      BY <2>2, <3>r DEF Covered
    <3>3. PassOK(clock, stamp, last, t) => PassOK(clock, stamp, last, t)'
      BY <2>2, <2>4, <3>x DEF PassOK, Follows
    <3>4. Ordered(stamp, last[t], Tx(t), seen[t], began[t])'
      BY <2>4, <3>1, <3>x DEF ThreadRanks, Ordered, Follows
    <3>5. QED
      BY <2>2, <3>1, <3>2, <3>3, <3>4 DEF ThreadRanks
  <2>7. QED
    BY <2>5, <2>6 DEF Ranked, RankInv
<1>4. QED
  BY <1>1, <1>2, <1>3 DEF OpacityInv

\* For any number of threads, objects and attempts, and any contention manager:
\* the committed transactions have a serial order, consistent with real time, in
\* which each read the last versions written before it, and so do they together
\* with any transaction that still runs, even if an enemy has killed it. Visible
\* or invisible readers, eager or lazy writers: no program computes on an
\* inconsistent view (Descriptor_rstm.h:783-876, 1093-1457).
THEOREM TransactionsAreOpaque == Spec => []Opacity
<1>1. Init => OpacityInv
  BY OpacityInit
<1>2. Inv /\ Inv' /\ OpacityInv /\ [Next]_vars => OpacityInv'
  BY OpacityStep, OpacityStutter DEF Next
<1>3. Inv /\ OpacityInv => Opacity
  BY RankedIsOpaque DEF OpacityInv
<1>4. QED
  BY <1>1, <1>2, <1>3, InvHolds, PTL DEF Spec

===============================================================================
