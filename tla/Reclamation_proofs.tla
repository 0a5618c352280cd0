-------------------------- MODULE Reclamation_proofs --------------------------
(*****************************************************************************)
(* Theorems about Reclamation, for any number of threads and blocks, any     *)
(* size of the pools and any bound of the transaction numbers: every block   *)
(* is in one place, and none is reclaimed under a transaction that has a     *)
(* pointer to it.                                                            *)
(*****************************************************************************)
EXTENDS Reclamation, NatFacts, FiniteSetTheorems

-------------------------------------------------------------------------------
(* The invariant.                                                            *)

\* The ids of threads are 1 .. n, and the blocks are numbered along the list.
Sizes ==
  /\ \E n \in Nat \ {0} : Threads = 1 .. n
  /\ Blocks # {} /\ \E k \in Nat : Blocks \subseteq 1 .. k

Labels == {"out", "in", "validating", "flush", "copy", "sweep"}
Log == [onCommit : SUBSET Blocks, onAbort : SUBSET Blocks]
\* A pool of the limbo list.
Pool == [pool : SUBSET Blocks, ts : [Threads -> Nat]]

TypeOK ==
  /\ tfence \in BOOLEAN
  /\ trans_nums \in [Threads -> Nat]
  /\ pc \in [Threads -> Labels]
  /\ refs \in [Threads -> SUBSET Blocks]
  /\ stale \in [Threads -> SUBSET Blocks]
  /\ log \in [Threads -> Log]
  /\ prelimbo \in [Threads -> SUBSET Blocks]
  /\ ts \in [Threads -> Seq(Nat)]
  /\ limbo \in [Threads -> Seq(Pool)]
  /\ linked \subseteq Blocks /\ freed \subseteq Blocks

\* The thread is in a transaction that has not ended.
Runs(t) == pc[t] \in {"in", "validating"}

\* The transaction has ended, and its log goes to the reclaimer.
Ending(t) == pc[t] \in {"flush", "copy", "sweep"}

\* What a thread has at each statement. What it read and no commit has overtaken
\* is linked; it deletes what it read.
PhaseOK(t) ==
  /\ pc[t] = "out" <=> trans_nums[t] % 2 = 0
  /\ ~Runs(t) => refs[t] = {} /\ log[t].onAbort = {}
  /\ pc[t] = "out" => log[t].onCommit = {}
  /\ Runs(t) => log[t].onCommit \subseteq refs[t]
  /\ refs[t] \subseteq linked \cup stale[t]
  /\ Len(ts[t]) <= Cardinality(Threads)
  /\ pc[t] \notin {"copy", "sweep"} => ts[t] = <<>>
  /\ pc[t] = "copy" => Len(ts[t]) < Cardinality(Threads)
  /\ pc[t] = "sweep" => Len(ts[t]) = Cardinality(Threads)

\* Timestamps are of the past, and the limbo list is sorted: every pool is newer
\* than those behind it, and older than the timestamp that is being copied.
TimesOK(t) ==
  \A u \in Threads :
    /\ u \in DOMAIN ts[t] => ts[t][u] <= trans_nums[u]
    /\ \A i \in DOMAIN limbo[t] :
         /\ limbo[t][i].ts[u] <= trans_nums[u]
         /\ u \in DOMAIN ts[t] => limbo[t][i].ts[u] <= ts[t][u]
         /\ \A k \in DOMAIN limbo[t] : i <= k => limbo[t][k].ts[u] <= limbo[t][i].ts[u]

\* Where a block is that is neither linked nor free.
Flushed(t, b) == Ending(t) /\ b \in log[t].onCommit
Pooled(t, b) == \E i \in DOMAIN limbo[t] : b \in limbo[t][i].pool
Waits(t, b) == b \in log[t].onAbort \/ Flushed(t, b) \/ b \in prelimbo[t] \/ Pooled(t, b)

\* A thread has a block in one place.
Apart(t) ==
  \A b \in Blocks :
    /\ b \in log[t].onAbort => b \notin prelimbo[t] /\ ~Pooled(t, b)
    /\ Flushed(t, b) => b \notin prelimbo[t] /\ ~Pooled(t, b)
    /\ b \in prelimbo[t] => ~Pooled(t, b)
    /\ \A i, k \in DOMAIN limbo[t] : b \in limbo[t][i].pool /\ b \in limbo[t][k].pool => i = k

\* Every block is in one place.
PlacesOK ==
  \A b \in Blocks :
    /\ ~(b \in linked /\ b \in freed)
    /\ \A t \in Threads : Waits(t, b) =>
         b \notin linked /\ b \notin freed /\ \A u \in Threads : Waits(u, b) => u = t

\* The block is not reclaimed before thread t leaves the transaction that it is
\* in: it is linked, or its timestamp is not older than that transaction.
Protected(t, b) ==
  \/ b \in linked
  \/ \E u \in Threads :
       \/ Flushed(u, b)
       \/ b \in prelimbo[u] /\ (t \in DOMAIN ts[u] => trans_nums[t] <= ts[u][t])
       \/ \E i \in DOMAIN limbo[u] : b \in limbo[u][i].pool /\ trans_nums[t] <= limbo[u][i].ts[t]

\* What a thread has a pointer to is protected.
ReadsOK(t) ==
  tfence \/ pc[t] # "validating" => \A b \in refs[t] : Protected(t, b)

Inv ==
  /\ Sizes /\ TypeOK
  /\ \A t \in Threads : PhaseOK(t) /\ TimesOK(t) /\ Apart(t) /\ ReadsOK(t)
  /\ PlacesOK

-------------------------------------------------------------------------------
(* Numbers, sets of blocks and sequences.                                    *)

\* Transaction numbers are odd in a transaction.
LEMMA Parity ==
  ASSUME NEW n \in Nat
  PROVE  /\ n % 2 = 0 => (n + 1) % 2 # 0
         /\ n % 2 # 0 => (n + 1) % 2 = 0
         /\ n % 2 # 0 => (n + 2) % 2 # 0
  OBVIOUS

\* The last of the blocks that a thread has read is one of them.
LEMMA MaxIsElement ==
  ASSUME Sizes, NEW S \in SUBSET Blocks, S # {}
  PROVE  Max(S) \in S
<1>1. PICK k \in Nat : Blocks \subseteq 1 .. k
  BY DEF Sizes
<1>2. PICK D : D = {k - x : x \in S}
  OBVIOUS
<1>3. D \subseteq Nat /\ D # {} /\ \A d \in D : \E x \in S : d = k - x
  <2>1. \A x \in S : x \in 1 .. k /\ k - x \in Nat
    BY <1>1
  <2>2. QED
    BY <1>2, <2>1
<1>4. PICK d \in D : \A e \in D : d <= e
  BY <1>3, NatLeast
<1>5. PICK x \in S : d = k - x
  BY <1>3
<1>6. ASSUME NEW y \in S PROVE x >= y
  <2>1. k - y \in D
    BY <1>2
  <2>2. d <= k - y /\ x \in 1 .. k /\ y \in 1 .. k
    BY <1>1, <1>4, <2>1
  <2>3. QED
    BY <1>5, <2>2
<1>7. \E z \in S : \A y \in S : z >= y
  BY <1>6
<1>8. QED
  BY <1>7 DEF Max

\* The first of the pools that are dominated is one of them.
LEMMA MinIsLeast ==
  ASSUME NEW S \in SUBSET Nat, S # {}
  PROVE  Min(S) \in S /\ \A y \in S : Min(S) <= y
<1>1. \E x \in S : \A y \in S : x <= y
  BY NatLeast
<1>2. QED
  BY <1>1 DEF Min

\* The threads are counted by their ids.
LEMMA ThreadCount ==
  ASSUME Sizes
  PROVE  /\ Cardinality(Threads) \in Nat /\ Cardinality(Threads) >= 1
         /\ Threads = 1 .. Cardinality(Threads)
<1>1. PICK n \in Nat \ {0} : Threads = 1 .. n
  BY DEF Sizes
<1>2. Cardinality(1 .. n) = n
  BY FS_Interval
<1>3. QED
  BY <1>1, <1>2

\* A new pool before those of the limbo list that are kept.
LEMMA NewFirst ==
  ASSUME NEW S, NEW s \in Seq(S), NEW p \in S, NEW kept \in 0 .. Len(s)
  PROVE  /\ <<p>> \o SubSeq(s, 1, kept) \in Seq(S)
         /\ DOMAIN (<<p>> \o SubSeq(s, 1, kept)) = 1 .. kept + 1
         /\ (<<p>> \o SubSeq(s, 1, kept))[1] = p
         /\ \A i \in 1 .. kept : (<<p>> \o SubSeq(s, 1, kept))[i + 1] = s[i]
<1>0. SubSeq(s, 1, kept) \in Seq(S) /\ Len(SubSeq(s, 1, kept)) = kept
  OBVIOUS
<1>1. PICK q \in Seq(S) : q = SubSeq(s, 1, kept)
  BY <1>0
<1>2. Len(q) = kept /\ \A i \in 1 .. kept : q[i] = s[i]
  BY <1>0, <1>1
<1>r. <<p>> \o q \in Seq(S)
  OBVIOUS
<1>3. PICK r \in Seq(S) : r = <<p>> \o q
  BY <1>r
<1>4. Len(r) = kept + 1 /\ r[1] = p /\ \A i \in 1 .. kept : r[i + 1] = q[i]
  BY <1>2, <1>3
<1>5. QED
  BY <1>1, <1>2, <1>3, <1>4

\* A timestamp with one more entry.
LEMMA OneMore ==
  ASSUME NEW s \in Seq(Nat), NEW n \in Nat
  PROVE  /\ Append(s, n) \in Seq(Nat) /\ Len(Append(s, n)) = Len(s) + 1 /\ Len(s) \in Nat
         /\ DOMAIN s = 1 .. Len(s) /\ DOMAIN Append(s, n) = 1 .. Len(s) + 1
         /\ \A i \in 1 .. Len(s) : Append(s, n)[i] = s[i]
         /\ Append(s, n)[Len(s) + 1] = n
  OBVIOUS

\* The types of the variables, from the invariant.
LEMMA Types ==
  ASSUME Inv
  PROVE  /\ Sizes /\ tfence \in BOOLEAN
         /\ trans_nums \in [Threads -> Nat]
         /\ pc \in [Threads -> Labels]
         /\ refs \in [Threads -> SUBSET Blocks]
         /\ stale \in [Threads -> SUBSET Blocks]
         /\ log \in [Threads -> Log]
         /\ prelimbo \in [Threads -> SUBSET Blocks]
         /\ ts \in [Threads -> Seq(Nat)]
         /\ limbo \in [Threads -> Seq(Pool)]
         /\ linked \subseteq Blocks /\ freed \subseteq Blocks
  BY DEF Inv, TypeOK

\* The fields of a log.
LEMMA LogFields ==
  ASSUME Inv, NEW t \in Threads
  PROVE  log[t] \in Log /\ log[t].onCommit \subseteq Blocks /\ log[t].onAbort \subseteq Blocks
  BY Types DEF Log

\* What a thread relies on, from the invariant.
LEMMA ThreadFacts ==
  ASSUME Inv, NEW t \in Threads
  PROVE  PhaseOK(t) /\ TimesOK(t) /\ Apart(t) /\ ReadsOK(t)
  BY DEF Inv

\* A full timestamp has an entry for every thread.
LEMMA FullTimestamp ==
  ASSUME Inv, NEW t \in Threads, pc[t] = "sweep"
  PROVE  ts[t] \in [Threads -> Nat]
<1>1. ts[t] \in Seq(Nat) /\ Len(ts[t]) = Cardinality(Threads)
  BY Types, ThreadFacts DEF PhaseOK
<1>2. QED
  BY <1>1, Types, ThreadCount

\* The limbo list that a thread is left with, and what it reclaims.
LEMMA Sweep ==
  ASSUME Inv, NEW t \in Threads, transfer(t)
  PROVE  \E kept \in 0 .. Len(limbo[t]), p \in Pool :
           /\ p.pool = prelimbo[t] /\ p.ts = ts[t]
           /\ limbo' = [limbo EXCEPT ![t] = limbo'[t]]
           /\ limbo'[t] \in Seq(Pool) /\ DOMAIN limbo'[t] = 1 .. kept + 1
           /\ limbo'[t][1] = p /\ \A i \in 1 .. kept : limbo'[t][i + 1] = limbo[t][i]
           /\ freed' = freed \cup UNION {limbo[t][i].pool : i \in kept + 1 .. Len(limbo[t])}
           /\ kept < Len(limbo[t]) => isStrictlyOlder(ts[t], limbo[t][kept + 1].ts)
<1>1. PICK s \in Seq(Pool), n \in Nat : s = limbo[t] /\ n = Len(s) /\ DOMAIN s = 1 .. n
  BY Types
<1>2. PICK dominated : dominated = {i \in DOMAIN s : isStrictlyOlder(ts[t], s[i].ts)}
  OBVIOUS
<1>3. PICK kept : kept = IF dominated = {} THEN Len(s) ELSE Min(dominated) - 1
  OBVIOUS
<1>4. kept \in 0 .. n /\ (kept < n => kept + 1 \in dominated)
  <2>1. CASE dominated = {}
    BY <1>1, <1>3, <2>1
  <2>2. CASE dominated # {}
    <3>0. dominated \in SUBSET Nat
      BY <1>1, <1>2
    <3>1. Min(dominated) \in dominated
      BY <2>2, <3>0, MinIsLeast
    <3>2. Min(dominated) \in 1 .. n
      BY <1>1, <1>2, <3>1
    <3>3. QED
      BY <1>3, <2>2, <3>1, <3>2
  <2>3. QED
    BY <2>1, <2>2
<1>5. [pool |-> prelimbo[t], ts |-> ts[t]] \in Pool
  BY Types, FullTimestamp DEF Pool, transfer
<1>6. PICK p \in Pool : p = [pool |-> prelimbo[t], ts |-> ts[t]]
  BY <1>5
<1>7. PICK r : r = <<p>> \o SubSeq(s, 1, kept)
  OBVIOUS
<1>8. /\ r \in Seq(Pool) /\ DOMAIN r = 1 .. kept + 1
      /\ r[1] = p /\ \A i \in 1 .. kept : r[i + 1] = s[i]
  BY <1>1, <1>4, <1>7, NewFirst
<1>9. /\ limbo' = [limbo EXCEPT ![t] = r]
      /\ freed' = freed \cup UNION {s[i].pool : i \in kept + 1 .. Len(s)}
  BY <1>1, <1>2, <1>3, <1>6, <1>7 DEF transfer
<1>10. limbo'[t] = r
  BY <1>9, Types
<1>11. p.pool = prelimbo[t] /\ p.ts = ts[t]
  BY <1>6
<1>12. kept < n => isStrictlyOlder(ts[t], s[kept + 1].ts)
  BY <1>2, <1>4
<1>13. QED
  BY <1>1, <1>4, <1>8, <1>9, <1>10, <1>11, <1>12

-------------------------------------------------------------------------------
(* What a step of one thread leaves of the others.                           *)

\* A step of thread t leaves another thread all it has; its commit may overtake
\* what another has read.
Others(t) ==
  \A u \in Threads \ {t} :
    /\ pc'[u] = pc[u] /\ refs'[u] = refs[u] /\ log'[u] = log[u] /\ prelimbo'[u] = prelimbo[u]
    /\ ts'[u] = ts[u] /\ limbo'[u] = limbo[u] /\ trans_nums'[u] = trans_nums[u]
    /\ refs[u] \subseteq linked' \cup stale'[u]

\* It moves blocks only between itself, the structure and the free blocks.
Moves(t) ==
  \A b \in Blocks :
    /\ Waits(t, b)' => Waits(t, b) \/ b \in linked \/ b \in freed
    /\ b \in linked' => b \in linked \/ Waits(t, b)
    /\ b \in freed' => b \in freed \/ Waits(t, b)
    /\ ~(b \in linked' /\ b \in freed')
    /\ Waits(t, b)' => b \notin linked' /\ b \notin freed'

\* It leaves protected what is.
Protects ==
  \A u \in Threads : \A b \in refs[u] :
    trans_nums'[u] = trans_nums[u] /\ Protected(u, b) => Protected(u, b)'

\* A step that respects the others preserves the invariant.
LEMMA StepInv ==
  ASSUME Inv, NEW t \in Threads, TypeOK', Others(t), trans_nums[t] <= trans_nums'[t], Moves(t), Protects,
         PhaseOK(t)', TimesOK(t)', Apart(t)', ReadsOK(t)', tfence' = tfence
  PROVE  Inv'
<1>1. ASSUME NEW u \in Threads, u # t
      PROVE  PhaseOK(u)' /\ TimesOK(u)' /\ Apart(u)' /\ ReadsOK(u)'
  <2>0. PhaseOK(u) /\ TimesOK(u) /\ Apart(u) /\ ReadsOK(u)
    BY ThreadFacts
  <2>1. /\ pc'[u] = pc[u] /\ refs'[u] = refs[u] /\ log'[u] = log[u] /\ prelimbo'[u] = prelimbo[u]
        /\ ts'[u] = ts[u] /\ limbo'[u] = limbo[u] /\ trans_nums'[u] = trans_nums[u]
        /\ refs[u] \subseteq linked' \cup stale'[u]
    BY <1>1 DEF Others
  <2>2. PhaseOK(u)'
    BY <2>0, <2>1 DEF PhaseOK, Runs
  <2>3. TimesOK(u)'
    <3>2. \A v \in Threads : trans_nums[v] \in Nat /\ trans_nums'[v] \in Nat
      BY Types DEF TypeOK
    <3>1. ASSUME NEW v \in Threads PROVE trans_nums[v] <= trans_nums'[v]
      <4>1. v # t => trans_nums'[v] = trans_nums[v]
        BY DEF Others
      <4>2. QED
        BY <3>2, <4>1
    <3>3. ASSUME NEW v \in Threads, v \in DOMAIN ts[u] PROVE ts[u][v] <= trans_nums'[v]
      <4>1. ts[u][v] \in Nat
        BY <3>3, Types
      <4>2. QED
        BY <2>0, <3>1, <3>2, <3>3, <4>1 DEF TimesOK
    <3>4. ASSUME NEW v \in Threads, NEW i \in DOMAIN limbo[u] PROVE limbo[u][i].ts[v] <= trans_nums'[v]
      <4>1. limbo[u][i].ts[v] \in Nat
        <5>1. limbo[u][i] \in Pool
          BY Types
        <5>2. QED
          BY <5>1 DEF Pool
      <4>2. QED
        BY <2>0, <3>1, <3>2, <4>1 DEF TimesOK
    <3>5. QED
      BY <2>0, <2>1, <3>3, <3>4 DEF TimesOK
  <2>4. Apart(u)'
    BY <2>0, <2>1 DEF Apart, Flushed, Pooled, Ending
  <2>5. ReadsOK(u)'
    BY <2>0, <2>1 DEF ReadsOK, Protects
  <2>6. QED
    BY <2>2, <2>3, <2>4, <2>5
<1>2. PlacesOK'
  <2>1. ASSUME NEW u \in Threads, u # t, NEW b PROVE Waits(u, b)' <=> Waits(u, b)
    BY <2>1 DEF Others, Waits, Flushed, Pooled, Ending
  <2>2. ASSUME NEW b \in Blocks
        PROVE  /\ ~(b \in linked' /\ b \in freed')
               /\ \A v \in Threads : Waits(v, b)' =>
                    b \notin linked' /\ b \notin freed' /\ \A u \in Threads : Waits(u, b)' => u = v
    <3>1. /\ Waits(t, b)' => Waits(t, b) \/ b \in linked \/ b \in freed
          /\ b \in linked' => b \in linked \/ Waits(t, b)
          /\ b \in freed' => b \in freed \/ Waits(t, b)
          /\ ~(b \in linked' /\ b \in freed')
          /\ Waits(t, b)' => b \notin linked' /\ b \notin freed'
      BY DEF Moves
    <3>2. \A v \in Threads : Waits(v, b) =>
            b \notin linked /\ b \notin freed /\ \A u \in Threads : Waits(u, b) => u = v
      BY DEF Inv, PlacesOK
    <3>3. QED
      BY <2>1, <3>1, <3>2
  <2>3. QED
    BY <2>2 DEF PlacesOK
<1>3. Sizes'
  BY Types DEF Sizes
<1>4. QED
  BY <1>1, <1>2, <1>3 DEF Inv

\* A step that moves no block and copies no timestamp.
Quiet(t) ==
  /\ UNCHANGED <<tfence, prelimbo, ts, limbo, linked, freed>>
  /\ \A u \in Threads : u # t => /\ pc'[u] = pc[u] /\ refs'[u] = refs[u] /\ log'[u] = log[u]
                                 /\ stale'[u] = stale[u] /\ trans_nums'[u] = trans_nums[u]
  /\ log'[t].onAbort = log[t].onAbort
  /\ \A b : Flushed(t, b)' <=> Flushed(t, b)
  /\ trans_nums[t] <= trans_nums'[t]

\* It preserves the invariant, if it does that of the thread.
LEMMA QuietStep ==
  ASSUME Inv, NEW t \in Threads, Quiet(t), TypeOK', PhaseOK(t)', ReadsOK(t)'
  PROVE  Inv'
<1>1. UNCHANGED <<tfence, prelimbo, ts, limbo, linked, freed>>
  BY DEF Quiet
<1>2. ASSUME NEW u \in Threads, NEW b
      PROVE  /\ Flushed(u, b)' <=> Flushed(u, b)
             /\ Pooled(u, b)' <=> Pooled(u, b)
             /\ Waits(u, b)' <=> Waits(u, b)
  <2>1. Flushed(u, b)' <=> Flushed(u, b)
    BY DEF Quiet, Flushed, Ending
  <2>2. Pooled(u, b)' <=> Pooled(u, b)
    BY <1>1 DEF Pooled
  <2>3. log'[u].onAbort = log[u].onAbort
    BY DEF Quiet
  <2>4. QED
    BY <1>1, <2>1, <2>2, <2>3 DEF Waits
<1>3. Others(t)
  <2>1. ASSUME NEW u \in Threads, u # t PROVE refs[u] \subseteq linked' \cup stale'[u]
    BY <1>1, <2>1, ThreadFacts DEF PhaseOK, Quiet
  <2>2. QED
    BY <1>1, <2>1 DEF Others, Quiet
<1>4. Moves(t)
  BY <1>1, <1>2 DEF Moves, Inv, PlacesOK
<1>5. Protects
  <2>1. ASSUME NEW u \in Threads, NEW b, trans_nums'[u] = trans_nums[u], Protected(u, b)
        PROVE  Protected(u, b)'
    BY <1>1, <1>2, <2>1 DEF Protected
  <2>2. QED
    BY <2>1 DEF Protects
<1>6. TimesOK(t)'
  <2>1. \A v \in Threads : trans_nums[v] \in Nat /\ trans_nums'[v] \in Nat /\ trans_nums[v] <= trans_nums'[v]
    <3>1. \A v \in Threads : trans_nums[v] \in Nat /\ trans_nums'[v] \in Nat
      BY Types DEF TypeOK
    <3>2. \A v \in Threads : v # t => trans_nums'[v] = trans_nums[v]
      BY DEF Quiet
    <3>3. QED
      BY <3>1, <3>2 DEF Quiet
  <2>2. TimesOK(t)
    BY ThreadFacts
  <2>3. ASSUME NEW v \in Threads, v \in DOMAIN ts[t] PROVE ts[t][v] <= trans_nums'[v]
    <3>1. ts[t][v] \in Nat
      BY <2>3, Types
    <3>2. QED
      BY <2>1, <2>2, <2>3, <3>1 DEF TimesOK
  <2>4. ASSUME NEW v \in Threads, NEW i \in DOMAIN limbo[t] PROVE limbo[t][i].ts[v] <= trans_nums'[v]
    <3>1. limbo[t][i] \in Pool
      BY Types
    <3>2. limbo[t][i].ts[v] \in Nat
      BY <3>1 DEF Pool
    <3>3. QED
      BY <2>1, <2>2, <3>2 DEF TimesOK
  <2>5. QED
    BY <1>1, <2>2, <2>3, <2>4 DEF TimesOK
<1>7. Apart(t)'
  <2>1. log'[t].onAbort = log[t].onAbort /\ Apart(t)
    BY ThreadFacts DEF Quiet
  <2>2. QED
    BY <1>1, <1>2, <2>1 DEF Apart
<1>8. trans_nums[t] <= trans_nums'[t]
  BY DEF Quiet
<1>9. QED
  BY <1>1, <1>3, <1>4, <1>5, <1>6, <1>7, <1>8, StepInv

-------------------------------------------------------------------------------
(* The steps that move no block.                                             *)

\* The log of a thread with another set of blocks to delete when it commits, or
\* when it aborts.
LEMMA NewLog ==
  ASSUME NEW l \in Log, NEW D \in SUBSET Blocks
  PROVE  /\ \E k \in Log : k = [l EXCEPT !.onCommit = D] /\ k.onCommit = D /\ k.onAbort = l.onAbort
         /\ \E k \in Log : k = [l EXCEPT !.onAbort = D] /\ k.onAbort = D /\ k.onCommit = l.onCommit
         /\ \E k \in Log : k = [onCommit |-> D, onAbort |-> {}] /\ k.onCommit = D /\ k.onAbort = {}
<1>1. /\ [l EXCEPT !.onCommit = D] \in Log
      /\ [l EXCEPT !.onAbort = D] \in Log
      /\ [onCommit |-> D, onAbort |-> {}] \in Log
  BY DEF Log
<1>2. \E k \in Log : k = [l EXCEPT !.onCommit = D] /\ k.onCommit = D /\ k.onAbort = l.onAbort
  <2>1. PICK k \in Log : k = [l EXCEPT !.onCommit = D]
    BY <1>1
  <2>2. k.onCommit = D /\ k.onAbort = l.onAbort
    BY <2>1 DEF Log
  <2>3. QED
    BY <2>1, <2>2
<1>3. \E k \in Log : k = [l EXCEPT !.onAbort = D] /\ k.onAbort = D /\ k.onCommit = l.onCommit
  <2>1. PICK k \in Log : k = [l EXCEPT !.onAbort = D]
    BY <1>1
  <2>2. k.onAbort = D /\ k.onCommit = l.onCommit
    BY <2>1 DEF Log
  <2>3. QED
    BY <2>1, <2>2
<1>4. \E k \in Log : k = [onCommit |-> D, onAbort |-> {}] /\ k.onCommit = D /\ k.onAbort = {}
  <2>1. PICK k \in Log : k = [onCommit |-> D, onAbort |-> {}]
    BY <1>1
  <2>2. k.onCommit = D /\ k.onAbort = {}
    BY <2>1
  <2>3. QED
    BY <2>1, <2>2
<1>5. QED
  BY <1>2, <1>3, <1>4

\* A transaction begins (policies.h:138-145).
LEMMA BeginStep ==
  ASSUME Inv, NEW t \in Threads, onTxBegin(t)
  PROVE  Inv'
<1>1. /\ pc[t] = "out" /\ pc' = [pc EXCEPT ![t] = "in"]
      /\ trans_nums' = [trans_nums EXCEPT ![t] = @ + 1]
      /\ UNCHANGED <<tfence, refs, stale, log, prelimbo, ts, limbo, linked, freed>>
  BY DEF onTxBegin, Goes, Counts, reclaimer
<1>2. trans_nums[t] \in Nat /\ trans_nums'[t] = trans_nums[t] + 1 /\ pc'[t] = "in"
  BY <1>1, Types
<1>3. TypeOK'
  BY <1>1, <1>2, Types DEF TypeOK, Labels
<1>4. PhaseOK(t)
  BY ThreadFacts
<1>5. refs[t] = {} /\ log[t].onCommit = {}
  BY <1>1, <1>4 DEF PhaseOK, Runs
<1>6. Quiet(t)
  <2>1. \A u \in Threads : u # t => pc'[u] = pc[u] /\ trans_nums'[u] = trans_nums[u]
    BY <1>1, Types
  <2>2. \A b : Flushed(t, b)' <=> Flushed(t, b)
    BY <1>1, <1>2 DEF Flushed, Ending
  <2>3. QED
    BY <1>1, <1>2, <2>1, <2>2 DEF Quiet
<1>7. PhaseOK(t)'
  <2>1. trans_nums'[t] % 2 # 0
    BY <1>1, <1>2, <1>4, Parity DEF PhaseOK
  <2>2. QED
    BY <1>1, <1>2, <1>4, <1>5, <2>1 DEF PhaseOK, Runs
<1>8. ReadsOK(t)'
  BY <1>1, <1>5 DEF ReadsOK
<1>9. QED
  BY <1>3, <1>6, <1>7, <1>8, QuietStep

\* It ends, when its log is with the reclaimer (policies.h:147-156).
LEMMA EndStep ==
  ASSUME Inv, NEW t \in Threads, onTxEnd(t)
  PROVE  Inv'
<1>1. /\ pc[t] = "flush" /\ pc' = [pc EXCEPT ![t] = "out"] /\ log[t].onCommit = {}
      /\ trans_nums' = [trans_nums EXCEPT ![t] = @ + 1]
      /\ UNCHANGED <<tfence, refs, stale, log, prelimbo, ts, limbo, linked, freed>>
  BY DEF onTxEnd, Goes, Counts, reclaimer
<1>2. trans_nums[t] \in Nat /\ trans_nums'[t] = trans_nums[t] + 1 /\ pc'[t] = "out"
  BY <1>1, Types
<1>3. TypeOK'
  BY <1>1, <1>2, Types DEF TypeOK, Labels
<1>4. PhaseOK(t)
  BY ThreadFacts
<1>5. refs[t] = {} /\ log[t].onAbort = {} /\ ts[t] = <<>>
  BY <1>1, <1>4 DEF PhaseOK, Runs
<1>6. Quiet(t)
  <2>1. \A u \in Threads : u # t => pc'[u] = pc[u] /\ trans_nums'[u] = trans_nums[u]
    BY <1>1, Types
  <2>2. \A b : Flushed(t, b)' <=> Flushed(t, b)
    BY <1>1, <1>2 DEF Flushed, Ending
  <2>3. QED
    BY <1>1, <1>2, <2>1, <2>2 DEF Quiet
<1>7. PhaseOK(t)'
  <2>1. trans_nums'[t] % 2 = 0
    BY <1>1, <1>2, <1>4, Parity DEF PhaseOK
  <2>2. QED
    BY <1>1, <1>2, <1>4, <1>5, <2>1 DEF PhaseOK, Runs
<1>8. ReadsOK(t)'
  BY <1>1, <1>5 DEF ReadsOK
<1>9. QED
  BY <1>3, <1>6, <1>7, <1>8, QuietStep

\* A transaction reads a block that is linked.
LEMMA ReadStep ==
  ASSUME Inv, NEW t \in Threads, Read(t)
  PROVE  Inv'
<1>1. /\ pc[t] = "in"
      /\ UNCHANGED <<tfence, trans_nums, pc, stale, log, prelimbo, ts, limbo, linked, freed>>
  BY DEF Read, reclaimer
<1>2. PICK b \in linked : refs' = [refs EXCEPT ![t] = @ \cup {b}]
  BY DEF Read
<1>3. b \in Blocks /\ refs'[t] = refs[t] \cup {b} /\ \A u \in Threads : u # t => refs'[u] = refs[u]
  BY <1>2, Types
<1>4. TypeOK'
  BY <1>1, <1>2, <1>3, Types DEF TypeOK
<1>5. PhaseOK(t) /\ ReadsOK(t)
  BY ThreadFacts
<1>6. Quiet(t)
  <2>1. \A x : Flushed(t, x)' <=> Flushed(t, x)
    BY <1>1 DEF Flushed, Ending
  <2>2. trans_nums[t] <= trans_nums'[t]
    BY <1>1, Types
  <2>3. QED
    BY <1>1, <1>3, <2>1, <2>2 DEF Quiet
<1>7. PhaseOK(t)'
  BY <1>1, <1>2, <1>3, <1>5 DEF PhaseOK, Runs
<1>8. ReadsOK(t)'
  <2>1. ASSUME NEW x \in refs'[t] PROVE Protected(t, x)'
    <3>1. CASE x = b
      BY <1>1, <3>1 DEF Protected
    <3>2. CASE x # b
      <4>1. Protected(t, x)
        BY <1>1, <1>3, <1>5, <3>2 DEF ReadsOK
      <4>2. QED
        BY <1>1, <4>1 DEF Protected, Flushed, Ending
    <3>3. QED
      BY <3>1, <3>2
  <2>2. QED
    BY <2>1 DEF ReadsOK
<1>9. QED
  BY <1>4, <1>6, <1>7, <1>8, QuietStep

\* It logs the last of them as one to delete when it commits.
LEMMA DeleteStep ==
  ASSUME Inv, NEW t \in Threads, Delete(t)
  PROVE  Inv'
<1>1. /\ pc[t] = "in" /\ refs[t] # {}
      /\ UNCHANGED <<tfence, trans_nums, pc, refs, stale, prelimbo, ts, limbo, linked, freed>>
  BY DEF Delete, reclaimer
<1>2. PICK b \in refs[t] : b = Max(refs[t])
  BY <1>1, Types, MaxIsElement
<1>3. PICK l \in Log : /\ l = [log[t] EXCEPT !.onCommit = log[t].onCommit \cup {b}]
                       /\ l.onCommit = log[t].onCommit \cup {b} /\ l.onAbort = log[t].onAbort
  <2>1. PICK l0 \in Log, D \in SUBSET Blocks : l0 = log[t] /\ D = log[t].onCommit \cup {b}
    BY Types, LogFields
  <2>2. \E l \in Log : l = [l0 EXCEPT !.onCommit = D] /\ l.onCommit = D /\ l.onAbort = l0.onAbort
    BY NewLog
  <2>3. QED
    BY <2>1, <2>2
<1>4. log' = [log EXCEPT ![t] = l]
  BY <1>2, <1>3 DEF Delete
<1>5. log'[t] = l /\ \A u \in Threads : u # t => log'[u] = log[u]
  BY <1>4, Types
<1>6. TypeOK'
  BY <1>1, <1>4, Types DEF TypeOK
<1>7. PhaseOK(t) /\ ReadsOK(t)
  BY ThreadFacts
<1>8. Quiet(t)
  <2>1. \A x : Flushed(t, x)' <=> Flushed(t, x)
    BY <1>1 DEF Flushed, Ending
  <2>2. trans_nums[t] <= trans_nums'[t]
    BY <1>1, Types
  <2>3. QED
    BY <1>1, <1>3, <1>5, <2>1, <2>2 DEF Quiet
<1>9. PhaseOK(t)'
  BY <1>1, <1>2, <1>3, <1>5, <1>7 DEF PhaseOK, Runs
<1>10. ReadsOK(t)'
  <2>1. ASSUME NEW x, Protected(t, x) PROVE Protected(t, x)'
    <3>1. \A u \in Threads : Flushed(u, x) => Flushed(u, x)'
      BY <1>1, <1>5 DEF Flushed, Ending
    <3>2. QED
      BY <1>1, <2>1, <3>1 DEF Protected
  <2>2. QED
    BY <1>1, <1>7, <2>1 DEF ReadsOK
<1>11. QED
  BY <1>6, <1>8, <1>9, <1>10, QuietStep

\* It validates: without the fence its number moves first
\* (policies.h:158-168).
LEMMA OnValidateStep ==
  ASSUME Inv, NEW t \in Threads, onValidate(t)
  PROVE  Inv'
<1>1. /\ pc[t] = "in" /\ pc' = [pc EXCEPT ![t] = "validating"]
      /\ UNCHANGED <<tfence, refs, stale, log, prelimbo, ts, limbo, linked, freed>>
      /\ IF tfence THEN trans_nums' = trans_nums ELSE trans_nums' = [trans_nums EXCEPT ![t] = @ + 2]
  BY DEF onValidate, Goes, Counts, reclaimer
<1>2. /\ trans_nums[t] \in Nat /\ pc'[t] = "validating"
      /\ trans_nums'[t] = IF tfence THEN trans_nums[t] ELSE trans_nums[t] + 2
  BY <1>1, Types
<1>3. TypeOK'
  <2>1. trans_nums' \in [Threads -> Nat]
    <3>1. trans_nums[t] + 2 \in Nat
      BY <1>2
    <3>2. QED
      BY <1>1, <3>1, Types
  <2>2. QED
    BY <1>1, <2>1, Types DEF TypeOK, Labels
<1>4. PhaseOK(t) /\ ReadsOK(t)
  BY ThreadFacts
<1>6. Quiet(t)
  <2>1. \A u \in Threads : u # t => pc'[u] = pc[u] /\ trans_nums'[u] = trans_nums[u]
    BY <1>1, Types
  <2>2. \A b : Flushed(t, b)' <=> Flushed(t, b)
    BY <1>1, <1>2 DEF Flushed, Ending
  <2>3. QED
    BY <1>1, <1>2, <2>1, <2>2 DEF Quiet
<1>7. PhaseOK(t)'
  <2>1. trans_nums'[t] % 2 # 0
    BY <1>1, <1>2, <1>4, Parity DEF PhaseOK
  <2>2. QED
    BY <1>1, <1>2, <1>4, <2>1 DEF PhaseOK, Runs
<1>8. ReadsOK(t)'
  <2>1. CASE tfence
    <3>1. ASSUME NEW x, Protected(t, x) PROVE Protected(t, x)'
      <4>1. \A u \in Threads : Flushed(u, x) => Flushed(u, x)'
        BY <1>6 DEF Quiet, Flushed, Ending
      <4>2. QED
        BY <1>1, <2>1, <3>1, <4>1 DEF Protected
    <3>2. QED
      BY <1>1, <1>4, <2>1, <3>1 DEF ReadsOK
  <2>2. CASE ~tfence
    BY <1>1, <1>2, <2>2 DEF ReadsOK
  <2>3. QED
    BY <2>1, <2>2
<1>9. QED
  BY <1>3, <1>6, <1>7, <1>8, QuietStep

\* Nothing that it read was overtaken, and it goes on.
LEMMA StillValidStep ==
  ASSUME Inv, NEW t \in Threads, Validate(t), stale[t] = {}
  PROVE  Inv'
<1>1. /\ pc[t] = "validating" /\ pc' = [pc EXCEPT ![t] = "in"]
      /\ stale' = [stale EXCEPT ![t] = {}]
      /\ UNCHANGED <<tfence, trans_nums, refs, log, prelimbo, ts, limbo, linked, freed>>
  BY DEF Validate, Goes, reclaimer
<1>2. pc'[t] = "in" /\ stale' = stale
  BY <1>1, Types
<1>3. TypeOK'
  BY <1>1, <1>2, Types DEF TypeOK, Labels
<1>4. PhaseOK(t)
  BY ThreadFacts
<1>6. Quiet(t)
  <2>1. \A u \in Threads : u # t => pc'[u] = pc[u]
    BY <1>1, Types
  <2>2. \A b : Flushed(t, b)' <=> Flushed(t, b)
    BY <1>1, <1>2 DEF Flushed, Ending
  <2>3. trans_nums[t] <= trans_nums'[t]
    BY <1>1, Types
  <2>4. QED
    BY <1>1, <1>2, <2>1, <2>2, <2>3 DEF Quiet
<1>7. PhaseOK(t)'
  BY <1>1, <1>2, <1>4 DEF PhaseOK, Runs
<1>8. ReadsOK(t)'
  <2>1. refs[t] \subseteq linked
    BY <1>4 DEF PhaseOK
  <2>2. QED
    BY <1>1, <2>1 DEF ReadsOK, Protected
<1>9. QED
  BY <1>3, <1>6, <1>7, <1>8, QuietStep

-------------------------------------------------------------------------------
(* The steps that move blocks between a thread and the structure.            *)

\* Where a block is, from the invariant.
LEMMA PlaceFacts ==
  ASSUME Inv, NEW t \in Threads, NEW b \in Blocks
  PROVE  /\ ~(b \in linked /\ b \in freed)
         /\ Waits(t, b) => b \notin linked /\ b \notin freed
         /\ b \in log[t].onAbort => b \notin prelimbo[t] /\ ~Pooled(t, b)
         /\ Flushed(t, b) => b \notin prelimbo[t] /\ ~Pooled(t, b)
         /\ b \in prelimbo[t] => ~Pooled(t, b)
         /\ \A i, k \in DOMAIN limbo[t] : b \in limbo[t][i].pool /\ b \in limbo[t][k].pool => i = k
  BY ThreadFacts DEF Inv, PlacesOK, Apart

\* What a thread has a pointer to stays protected while it stays in its
\* transaction.
LEMMA StillProtected ==
  ASSUME Inv, NEW t \in Threads, Protects, trans_nums'[t] = trans_nums[t], refs'[t] \subseteq refs[t],
         pc'[t] = pc[t], tfence' = tfence
  PROVE  ReadsOK(t)'
<1>1. ReadsOK(t)
  BY ThreadFacts
<1>2. QED
  BY <1>1 DEF ReadsOK, Protects

\* The times of a thread depend on its timestamps and all numbers.
LEMMA SameTimes ==
  ASSUME Inv, NEW t \in Threads, ts' = ts, limbo' = limbo, trans_nums' = trans_nums
  PROVE  TimesOK(t)'
  BY ThreadFacts DEF TimesOK

\* A transaction allocates a free block, and logs it (policies.h:112-125).
LEMMA AllocStep ==
  ASSUME Inv, NEW t \in Threads, txAlloc(t)
  PROVE  Inv'
<1>1. /\ pc[t] = "in" /\ freed # {}
      /\ UNCHANGED <<tfence, trans_nums, pc, refs, stale, prelimbo, ts, limbo, linked>>
  BY DEF txAlloc, reclaimer
<1>2. PICK b \in freed : b = CHOOSE x \in freed : TRUE
  BY <1>1
<1>3. PICK l \in Log : /\ l = [log[t] EXCEPT !.onAbort = log[t].onAbort \cup {b}]
                       /\ l.onAbort = log[t].onAbort \cup {b} /\ l.onCommit = log[t].onCommit
  <2>1. PICK l0 \in Log, D \in SUBSET Blocks : l0 = log[t] /\ D = log[t].onAbort \cup {b}
    BY Types, LogFields
  <2>2. \E l \in Log : l = [l0 EXCEPT !.onAbort = D] /\ l.onAbort = D /\ l.onCommit = l0.onCommit
    BY NewLog
  <2>3. QED
    BY <2>1, <2>2
<1>4. log' = [log EXCEPT ![t] = l] /\ freed' = freed \ {b}
  BY <1>2, <1>3 DEF txAlloc
<1>5. log'[t] = l /\ \A u \in Threads : u # t => log'[u] = log[u]
  BY <1>4, Types
<1>6. TypeOK'
  BY <1>1, <1>4, Types DEF TypeOK
<1>7. \A x : /\ Pooled(t, x)' <=> Pooled(t, x)
             /\ Waits(t, x)' <=> Waits(t, x) \/ x = b
  BY <1>1, <1>3, <1>5 DEF Waits, Flushed, Pooled, Ending
<1>8. Others(t)
  BY <1>1, <1>5, ThreadFacts DEF Others, PhaseOK
<1>9. Moves(t)
  BY <1>1, <1>4, <1>7, PlaceFacts DEF Moves
<1>10. Protects
  <2>1. ASSUME NEW u \in Threads, NEW x, Flushed(u, x) PROVE Flushed(u, x)'
    BY <1>1, <1>3, <1>5, <2>1 DEF Flushed, Ending
  <2>2. QED
    BY <1>1, <2>1 DEF Protects, Protected
<1>11. PhaseOK(t)'
  BY <1>1, <1>3, <1>5, ThreadFacts DEF PhaseOK, Runs
<1>12. Apart(t)'
  <2>1. b \in Blocks /\ b \notin prelimbo[t] /\ ~Pooled(t, b)
    BY <1>2, Types, PlaceFacts DEF Waits
  <2>2. \A x : ~Flushed(t, x)'
    BY <1>1 DEF Flushed, Ending
  <2>3. QED
    BY <1>1, <1>3, <1>5, <1>7, <2>1, <2>2, PlaceFacts DEF Apart
<1>13. TimesOK(t)' /\ ReadsOK(t)'
  BY <1>1, <1>10, SameTimes, StillProtected
<1>14. trans_nums[t] <= trans_nums'[t]
  BY <1>1, Types
<1>15. QED
  BY <1>1, <1>6, <1>8, <1>9, <1>10, <1>11, <1>12, <1>13, <1>14, StepInv

\* The end of a transaction, with the blocks that go to the reclaimer.
LEMMA FinishFacts ==
  ASSUME Inv, NEW t \in Threads, NEW D \in SUBSET Blocks, Finish(t, D)
  PROVE  /\ log' \in [Threads -> Log] /\ refs' \in [Threads -> SUBSET Blocks] /\ pc' \in [Threads -> Labels]
         /\ log'[t].onCommit = D /\ log'[t].onAbort = {} /\ refs'[t] = {} /\ pc'[t] = "flush"
         /\ \A u \in Threads : u # t => log'[u] = log[u] /\ refs'[u] = refs[u] /\ pc'[u] = pc[u]
<1>1. PICK l \in Log : l = [onCommit |-> D, onAbort |-> {}] /\ l.onCommit = D /\ l.onAbort = {}
  <2>1. log[t] \in Log
    BY Types
  <2>2. QED
    BY <2>1, NewLog
<1>2. /\ log' = [log EXCEPT ![t] = l] /\ refs' = [refs EXCEPT ![t] = {}]
      /\ pc' = [pc EXCEPT ![t] = "flush"]
  BY <1>1 DEF Finish, Goes
<1>3. "flush" \in Labels /\ {} \in SUBSET Blocks
  BY DEF Labels
<1>4. log' \in [Threads -> Log] /\ refs' \in [Threads -> SUBSET Blocks] /\ pc' \in [Threads -> Labels]
  BY <1>2, <1>3, Types
<1>5. log'[t] = l /\ refs'[t] = {} /\ pc'[t] = "flush"
  BY <1>2, Types
<1>6. \A u \in Threads : u # t => log'[u] = log[u] /\ refs'[u] = refs[u] /\ pc'[u] = pc[u]
  BY <1>2, Types
<1>7. QED
  BY <1>1, <1>4, <1>5, <1>6

\* A transaction aborts: what it allocated goes to the reclaimer
\* (policies.h:170-181).
LEMMA AbortingStep ==
  ASSUME Inv, NEW t \in Threads, Runs(t), Finish(t, log[t].onAbort),
         stale' = [stale EXCEPT ![t] = {}],
         UNCHANGED <<tfence, trans_nums, prelimbo, ts, limbo, linked, freed>>
  PROVE  Inv'
<1>1. PICK A \in SUBSET Blocks : A = log[t].onAbort
  BY LogFields
<1>2. /\ log' \in [Threads -> Log] /\ refs' \in [Threads -> SUBSET Blocks] /\ pc' \in [Threads -> Labels]
      /\ log'[t].onCommit = A /\ log'[t].onAbort = {} /\ refs'[t] = {} /\ pc'[t] = "flush"
      /\ \A u \in Threads : u # t => log'[u] = log[u] /\ refs'[u] = refs[u] /\ pc'[u] = pc[u]
  BY <1>1, FinishFacts
<1>3. TypeOK'
  BY <1>2, Types DEF TypeOK
<1>4. PhaseOK(t)
  BY ThreadFacts
<1>5. \A x : /\ Pooled(t, x)' <=> Pooled(t, x)
             /\ ~Flushed(t, x)
             /\ Flushed(t, x)' <=> x \in A
             /\ Waits(t, x)' <=> Waits(t, x)
  BY <1>1, <1>2 DEF Waits, Flushed, Pooled, Ending, Runs
<1>6. \A u \in Threads : u # t => stale'[u] = stale[u]
  BY Types
<1>8. Others(t)
  BY <1>2, <1>6, ThreadFacts DEF Others, PhaseOK
<1>9. Moves(t)
  BY <1>5, PlaceFacts DEF Moves
<1>10. Protects
  <2>1. ASSUME NEW u \in Threads, NEW x, Flushed(u, x) PROVE Flushed(u, x)'
    BY <1>2, <1>5, <2>1 DEF Flushed, Ending
  <2>2. QED
    BY <2>1 DEF Protects, Protected
<1>11. PhaseOK(t)'
  BY <1>2, <1>4 DEF PhaseOK, Runs
<1>12. Apart(t)'
  BY <1>1, <1>2, <1>5, PlaceFacts DEF Apart
<1>13. TimesOK(t)' /\ ReadsOK(t)'
  BY <1>2, SameTimes DEF ReadsOK
<1>14. trans_nums[t] <= trans_nums'[t]
  BY Types
<1>15. QED
  BY <1>3, <1>8, <1>9, <1>10, <1>11, <1>12, <1>13, <1>14, StepInv

\* A transaction commits: what it allocated is linked, what it deleted goes to
\* the reclaimer (policies.h:183-193).
LEMMA CommitStep ==
  ASSUME Inv, NEW t \in Threads, Commit(t)
  PROVE  Inv'
<1>1. PICK A \in SUBSET Blocks, D \in SUBSET Blocks : A = log[t].onAbort /\ D = log[t].onCommit
  BY LogFields
<1>2. /\ pc[t] = "in" /\ stale[t] = {} /\ Finish(t, D)
      /\ linked' = (linked \ D) \cup A
      /\ stale' = [u \in Threads |-> stale[u] \cup IF u = t THEN {} ELSE refs[u] \cap D]
      /\ UNCHANGED <<tfence, trans_nums, prelimbo, ts, limbo, freed>>
  BY <1>1 DEF Commit, reclaimer
<1>3. /\ log' \in [Threads -> Log] /\ refs' \in [Threads -> SUBSET Blocks] /\ pc' \in [Threads -> Labels]
      /\ log'[t].onCommit = D /\ log'[t].onAbort = {} /\ refs'[t] = {} /\ pc'[t] = "flush"
      /\ \A u \in Threads : u # t => log'[u] = log[u] /\ refs'[u] = refs[u] /\ pc'[u] = pc[u]
  BY <1>2, FinishFacts
<1>4. PhaseOK(t)
  BY ThreadFacts
<1>5. D \subseteq linked
  BY <1>1, <1>2, <1>4 DEF PhaseOK, Runs
<1>6. TypeOK'
  <2>1. stale' \in [Threads -> SUBSET Blocks]
    BY <1>2, Types
  <2>2. linked' \subseteq Blocks
    BY <1>2, Types
  <2>3. QED
    BY <1>2, <1>3, <2>1, <2>2, Types DEF TypeOK
<1>7. \A x : /\ Pooled(t, x)' <=> Pooled(t, x)
             /\ ~Flushed(t, x)
             /\ Flushed(t, x)' <=> x \in D
             /\ Waits(t, x)' <=> x \in D \/ x \in prelimbo[t] \/ Pooled(t, x)
             /\ Waits(t, x) <=> x \in A \/ x \in prelimbo[t] \/ Pooled(t, x)
  BY <1>1, <1>2, <1>3 DEF Waits, Flushed, Pooled, Ending
<1>8. Others(t)
  <2>1. ASSUME NEW u \in Threads, u # t PROVE refs[u] \subseteq linked' \cup stale'[u]
    <3>1. refs[u] \subseteq linked \cup stale[u]
      BY ThreadFacts DEF PhaseOK
    <3>2. stale'[u] = stale[u] \cup (refs[u] \cap D)
      BY <1>2, <2>1
    <3>3. QED
      BY <1>2, <3>1, <3>2
  <2>2. QED
    BY <1>2, <1>3, <2>1 DEF Others
<1>9. Moves(t)
  <2>1. ASSUME NEW x \in Blocks
        PROVE  /\ Waits(t, x)' => Waits(t, x) \/ x \in linked \/ x \in freed
               /\ x \in linked' => x \in linked \/ Waits(t, x)
               /\ x \in freed' => x \in freed \/ Waits(t, x)
               /\ ~(x \in linked' /\ x \in freed')
               /\ Waits(t, x)' => x \notin linked' /\ x \notin freed'
    <3>1. /\ ~(x \in linked /\ x \in freed)
          /\ Waits(t, x) => x \notin linked /\ x \notin freed
          /\ x \in A => x \notin prelimbo[t] /\ ~Pooled(t, x)
      BY <1>1, PlaceFacts
    <3>2. QED
      BY <1>2, <1>5, <1>7, <3>1
  <2>2. QED
    BY <2>1 DEF Moves
<1>10. Protects
  <2>1. ASSUME NEW u \in Threads, NEW x, Flushed(u, x) PROVE Flushed(u, x)'
    BY <1>3, <1>7, <2>1 DEF Flushed, Ending
  <2>2. ASSUME NEW x, x \in linked PROVE x \in linked' \/ Flushed(t, x)'
    BY <1>2, <1>7, <2>2
  <2>3. QED
    BY <1>2, <2>1, <2>2 DEF Protects, Protected
<1>11. PhaseOK(t)'
  BY <1>2, <1>3, <1>4 DEF PhaseOK, Runs
<1>12. Apart(t)'
  <2>1. ASSUME NEW x \in Blocks, x \in D PROVE x \notin prelimbo[t] /\ ~Pooled(t, x)
    BY <1>5, <1>7, <2>1, PlaceFacts
  <2>2. QED
    BY <1>2, <1>3, <1>7, <2>1, PlaceFacts DEF Apart
<1>13. TimesOK(t)' /\ ReadsOK(t)'
  BY <1>2, <1>3, SameTimes DEF ReadsOK
<1>14. trans_nums[t] <= trans_nums'[t]
  BY <1>2, Types
<1>15. QED
  BY <1>2, <1>6, <1>8, <1>9, <1>10, <1>11, <1>12, <1>13, <1>14, StepInv

-------------------------------------------------------------------------------
(* The steps of the reclaimer.                                               *)

\* A block of the log goes to the blocks that wait (Reclaimer.h:144-156).
LEMMA AddStep ==
  ASSUME Inv, NEW t \in Threads, add(t)
  PROVE  Inv'
<1>1. /\ pc[t] = "flush"
      /\ UNCHANGED <<tfence, trans_nums, refs, stale, ts, limbo, linked, freed>>
  BY DEF add
<1>2. PICK b \in log[t].onCommit :
        /\ log' = [log EXCEPT ![t].onCommit = @ \ {b}]
        /\ prelimbo' = [prelimbo EXCEPT ![t] = @ \cup {b}]
        /\ Goes(t, IF Cardinality(prelimbo[t]) + 1 = POOL_SIZE THEN "copy" ELSE "flush")
  BY DEF add
<1>3. PICK l \in Log : /\ l = [log[t] EXCEPT !.onCommit = log[t].onCommit \ {b}]
                       /\ l.onCommit = log[t].onCommit \ {b} /\ l.onAbort = log[t].onAbort
  <2>1. PICK l0 \in Log, D \in SUBSET Blocks : l0 = log[t] /\ D = log[t].onCommit \ {b}
    BY Types, LogFields
  <2>2. \E l \in Log : l = [l0 EXCEPT !.onCommit = D] /\ l.onCommit = D /\ l.onAbort = l0.onAbort
    BY NewLog
  <2>3. QED
    BY <2>1, <2>2
<1>4. log' = [log EXCEPT ![t] = l]
  BY <1>2, <1>3
<1>5. log'[t] = l /\ \A u \in Threads : u # t => log'[u] = log[u]
  BY <1>4, Types
<1>6. PICK label \in {"copy", "flush"} : pc' = [pc EXCEPT ![t] = label]
  BY <1>2 DEF Goes
<1>7. pc'[t] = label /\ \A u \in Threads : u # t => pc'[u] = pc[u]
  BY <1>6, Types
<1>8. /\ b \in Blocks /\ prelimbo'[t] = prelimbo[t] \cup {b}
      /\ \A u \in Threads : u # t => prelimbo'[u] = prelimbo[u]
  BY <1>2, Types, LogFields
<1>9. TypeOK'
  <2>1. prelimbo' \in [Threads -> SUBSET Blocks]
    BY <1>2, <1>8, Types
  <2>2. pc' \in [Threads -> Labels] /\ log' \in [Threads -> Log]
    BY <1>4, <1>6, Types DEF Labels
  <2>3. QED
    BY <1>1, <2>1, <2>2, Types DEF TypeOK
<1>10. PhaseOK(t)
  BY ThreadFacts
<1>11. \A x : /\ Pooled(t, x)' <=> Pooled(t, x)
              /\ Flushed(t, x)' <=> Flushed(t, x) /\ x # b
              /\ Waits(t, x)' <=> Waits(t, x)
  <2>1. \A x : Pooled(t, x)' <=> Pooled(t, x)
    BY <1>1 DEF Pooled
  <2>2. \A x : Flushed(t, x)' <=> Flushed(t, x) /\ x # b
    BY <1>1, <1>3, <1>5, <1>7 DEF Flushed, Ending
  <2>3. Flushed(t, b)
    BY <1>1 DEF Flushed, Ending
  <2>4. QED
    BY <1>3, <1>5, <1>8, <2>1, <2>2, <2>3 DEF Waits
<1>12. Others(t)
  BY <1>1, <1>5, <1>7, <1>8, ThreadFacts DEF Others, PhaseOK
<1>13. Moves(t)
  BY <1>1, <1>11, PlaceFacts DEF Moves
<1>14. Protects
  <2>1. ASSUME NEW u \in Threads, NEW x, Flushed(u, x) PROVE Flushed(u, x)' \/ (u = t /\ x \in prelimbo'[t])
    BY <1>5, <1>7, <1>8, <1>11, <2>1 DEF Flushed, Ending
  <2>2. DOMAIN ts[t] = {}
    BY <1>1, <1>10 DEF PhaseOK
  <2>3. \A u \in Threads : prelimbo[u] \subseteq prelimbo'[u]
    BY <1>8
  <2>4. QED
    BY <1>1, <2>1, <2>2, <2>3 DEF Protects, Protected
<1>15. PhaseOK(t)'
  <2>1. Len(ts[t]) = 0 /\ ts[t] = <<>>
    BY <1>1, <1>10 DEF PhaseOK
  <2>2. Len(ts[t]) < Cardinality(Threads)
    BY <2>1, Types, ThreadCount
  <2>3. QED
    BY <1>1, <1>3, <1>5, <1>7, <1>10, <2>1, <2>2 DEF PhaseOK, Runs
<1>16. Apart(t)'
  <2>1. ~Pooled(t, b) /\ b \notin log[t].onAbort
    BY <1>1, <1>8, <1>10, PlaceFacts DEF Flushed, Ending, PhaseOK, Runs
  <2>2. QED
    BY <1>1, <1>3, <1>5, <1>8, <1>11, <2>1, PlaceFacts DEF Apart
<1>17. TimesOK(t)'
  BY <1>1, SameTimes
<1>18. ReadsOK(t)'
  BY <1>1, <1>10 DEF ReadsOK, PhaseOK, Runs
<1>19. trans_nums[t] <= trans_nums'[t]
  BY <1>1, Types
<1>20. QED
  BY <1>1, <1>9, <1>12, <1>13, <1>14, <1>15, <1>16, <1>17, <1>18, <1>19, StepInv

\* The number of one thread is copied to the timestamp (Epoch.h:158-169).
LEMMA CopyStep ==
  ASSUME Inv, NEW t \in Threads, copy_timestamp(t)
  PROVE  Inv'
<1>1. /\ pc[t] = "copy"
      /\ UNCHANGED <<tfence, trans_nums, refs, stale, log, prelimbo, limbo, linked, freed>>
  BY DEF copy_timestamp
<1>2. PICK s \in Seq(Nat), n \in Nat : s = ts[t] /\ n = Len(s)
  BY Types
<1>3. PhaseOK(t) /\ TimesOK(t)
  BY ThreadFacts
<1>4. n + 1 \in Threads /\ n + 1 <= Cardinality(Threads) /\ Cardinality(Threads) \in Nat
  <2>1. n < Cardinality(Threads)
    BY <1>1, <1>2, <1>3 DEF PhaseOK
  <2>2. QED
    BY <2>1, Types, ThreadCount
<1>5. PICK m \in Nat : m = trans_nums[n + 1]
  BY <1>4, Types
<1>6. PICK r \in Seq(Nat) : r = Append(s, m)
  BY OneMore
<1>7. /\ Len(r) = n + 1 /\ DOMAIN s = 1 .. n /\ DOMAIN r = 1 .. n + 1
      /\ r[n + 1] = m /\ \A i \in 1 .. n : r[i] = s[i]
  BY <1>2, <1>6, OneMore
<1>8. ts' = [ts EXCEPT ![t] = r]
  BY <1>2, <1>5, <1>6 DEF copy_timestamp
<1>9. PICK label \in {"sweep", "copy"} :
        /\ pc' = [pc EXCEPT ![t] = label]
        /\ label = IF n + 1 = Cardinality(Threads) THEN "sweep" ELSE "copy"
  BY <1>2 DEF copy_timestamp, Goes
<1>10. /\ ts'[t] = r /\ pc'[t] = label
       /\ \A u \in Threads : u # t => ts'[u] = ts[u] /\ pc'[u] = pc[u]
  BY <1>8, <1>9, Types
<1>11. TypeOK'
  BY <1>1, <1>8, <1>9, Types DEF TypeOK, Labels
<1>12. \A x : /\ Pooled(t, x)' <=> Pooled(t, x)
              /\ Flushed(t, x)' <=> Flushed(t, x)
              /\ Waits(t, x)' <=> Waits(t, x)
  BY <1>1, <1>10 DEF Waits, Pooled, Flushed, Ending
<1>13. Others(t)
  BY <1>1, <1>10, ThreadFacts DEF Others, PhaseOK
<1>14. Moves(t)
  BY <1>1, <1>12, PlaceFacts DEF Moves
<1>15. Protects
  <2>1. ASSUME NEW u \in Threads, NEW x, Flushed(u, x) PROVE Flushed(u, x)'
    BY <1>1, <1>10, <1>12, <2>1 DEF Flushed, Ending
  <2>2. ASSUME NEW u \in Threads, NEW v \in Threads,
               v \in DOMAIN ts[u] => trans_nums[v] <= ts[u][v], v \in DOMAIN ts'[u]
        PROVE  trans_nums[v] <= ts'[u][v]
    <3>1. CASE u = t /\ v = n + 1
      BY <1>5, <1>7, <1>10, <3>1
    <3>2. CASE u = t /\ v # n + 1
      <4>1. v \in 1 .. n
        BY <1>7, <1>10, <2>2, <3>2
      <4>2. QED
        BY <1>2, <1>7, <1>10, <2>2, <3>2, <4>1
    <3>3. CASE u # t
      BY <1>10, <2>2, <3>3
    <3>4. QED
      BY <3>1, <3>2, <3>3
  <2>3. QED
    BY <1>1, <2>1, <2>2 DEF Protects, Protected
<1>16. PhaseOK(t)'
  <2>1. label = "copy" => Len(r) < Cardinality(Threads)
    BY <1>4, <1>7, <1>9
  <2>2. QED
    BY <1>1, <1>3, <1>4, <1>7, <1>9, <1>10, <2>1 DEF PhaseOK, Runs
<1>17. TimesOK(t)'
  <2>1. ASSUME NEW u \in Threads, u \in DOMAIN r, u # n + 1 PROVE u \in DOMAIN ts[t] /\ r[u] = ts[t][u]
    BY <1>2, <1>7, <2>1
  <2>2. ASSUME NEW u \in Threads, u \in DOMAIN r PROVE r[u] <= trans_nums[u]
    BY <1>3, <1>5, <1>7, <2>1, <2>2 DEF TimesOK
  <2>3. ASSUME NEW u \in Threads, NEW i \in DOMAIN limbo[t], u \in DOMAIN r PROVE limbo[t][i].ts[u] <= r[u]
    BY <1>3, <1>5, <1>7, <2>1, <2>3 DEF TimesOK
  <2>4. QED
    BY <1>1, <1>3, <1>10, <2>2, <2>3 DEF TimesOK
<1>18. Apart(t)'
  BY <1>1, <1>12, PlaceFacts DEF Apart
<1>19. ReadsOK(t)'
  BY <1>1, <1>3 DEF ReadsOK, PhaseOK, Runs
<1>20. trans_nums[t] <= trans_nums'[t]
  BY <1>1, Types
<1>21. QED
  BY <1>1, <1>11, <1>13, <1>14, <1>15, <1>16, <1>17, <1>18, <1>19, <1>20, StepInv

\* The full pool goes to the front of the limbo list, and from the first pool
\* that the timestamp dominates all are reclaimed (Reclaimer.h:158-214).
LEMMA TransferStep ==
  ASSUME Inv, NEW t \in Threads, transfer(t)
  PROVE  Inv'
<1>1. /\ pc[t] = "sweep" /\ pc' = [pc EXCEPT ![t] = "flush"]
      /\ prelimbo' = [prelimbo EXCEPT ![t] = {}] /\ ts' = [ts EXCEPT ![t] = <<>>]
      /\ UNCHANGED <<tfence, trans_nums, refs, stale, log, linked>>
  BY DEF transfer, Goes
<1>2. PICK n \in Nat : n = Len(limbo[t]) /\ DOMAIN limbo[t] = 1 .. n
  BY Types
<1>3. PICK kept \in 0 .. n, p \in Pool :
           /\ p.pool = prelimbo[t] /\ p.ts = ts[t]
           /\ limbo' = [limbo EXCEPT ![t] = limbo'[t]]
           /\ limbo'[t] \in Seq(Pool) /\ DOMAIN limbo'[t] = 1 .. kept + 1
           /\ limbo'[t][1] = p /\ \A i \in 1 .. kept : limbo'[t][i + 1] = limbo[t][i]
           /\ freed' = freed \cup UNION {limbo[t][i].pool : i \in kept + 1 .. n}
           /\ kept < n => isStrictlyOlder(ts[t], limbo[t][kept + 1].ts)
  BY <1>2, Sweep
<1>4. /\ prelimbo'[t] = {} /\ ts'[t] = <<>> /\ pc'[t] = "flush"
      /\ \A u \in Threads : u # t => /\ prelimbo'[u] = prelimbo[u] /\ ts'[u] = ts[u]
                                     /\ pc'[u] = pc[u] /\ limbo'[u] = limbo[u]
  BY <1>1, <1>3, Types
<1>5. PhaseOK(t) /\ TimesOK(t)
  BY ThreadFacts
<1>6. \A i \in 1 .. n : limbo[t][i] \in Pool /\ limbo[t][i].pool \subseteq Blocks
                        /\ limbo[t][i].ts \in [Threads -> Nat]
  <2>1. \A i \in 1 .. n : limbo[t][i] \in Pool
    BY <1>2, Types
  <2>2. QED
    BY <2>1 DEF Pool
<1>7. TypeOK'
  <2>1. freed' \subseteq Blocks
    BY <1>3, <1>6, Types
  <2>2. pc' \in [Threads -> Labels] /\ prelimbo' \in [Threads -> SUBSET Blocks] /\ ts' \in [Threads -> Seq(Nat)]
    BY <1>1, Types DEF Labels
  <2>3. limbo' \in [Threads -> Seq(Pool)]
    BY <1>3, Types
  <2>4. QED
    BY <1>1, <2>1, <2>2, <2>3, Types DEF TypeOK
<1>8. \A j \in DOMAIN limbo'[t] : (j = 1 /\ limbo'[t][j] = p)
        \/ (j - 1 \in 1 .. kept /\ j - 1 \in DOMAIN limbo[t] /\ limbo'[t][j] = limbo[t][j - 1])
  <2>1. ASSUME NEW j \in 1 .. kept + 1, j # 1 PROVE j - 1 \in 1 .. kept /\ limbo'[t][j] = limbo[t][j - 1]
    <3>1. j - 1 \in 1 .. kept /\ (j - 1) + 1 = j
      BY <2>1
    <3>2. QED
      BY <1>3, <3>1
  <2>2. QED
    BY <1>2, <1>3, <2>1
<1>9. \A x : /\ Flushed(t, x)' <=> Flushed(t, x)
             /\ Pooled(t, x)' <=> x \in prelimbo[t] \/ \E i \in 1 .. kept : x \in limbo[t][i].pool
             /\ x \in freed' <=> x \in freed \/ \E i \in kept + 1 .. n : x \in limbo[t][i].pool
  <2>1. \A x : Flushed(t, x)' <=> Flushed(t, x)
    BY <1>1, <1>4 DEF Flushed, Ending
  <2>2. ASSUME NEW x
        PROVE  Pooled(t, x)' <=> x \in prelimbo[t] \/ \E i \in 1 .. kept : x \in limbo[t][i].pool
    <3>1. ASSUME Pooled(t, x)' PROVE x \in prelimbo[t] \/ \E i \in 1 .. kept : x \in limbo[t][i].pool
      BY <1>3, <1>8, <3>1 DEF Pooled
    <3>2. ASSUME x \in prelimbo[t] PROVE Pooled(t, x)'
      <4>1. 1 \in DOMAIN limbo'[t]
        BY <1>3
      <4>2. QED
        BY <1>3, <3>2, <4>1 DEF Pooled
    <3>3. ASSUME NEW i \in 1 .. kept, x \in limbo[t][i].pool PROVE Pooled(t, x)'
      <4>1. i + 1 \in DOMAIN limbo'[t]
        BY <1>3
      <4>2. QED
        BY <1>3, <3>3, <4>1 DEF Pooled
    <3>4. QED
      BY <3>1, <3>2, <3>3
  <2>3. \A x : x \in freed' <=> x \in freed \/ \E i \in kept + 1 .. n : x \in limbo[t][i].pool
    BY <1>3
  <2>4. QED
    BY <2>1, <2>2, <2>3
<1>10. 1 .. kept \subseteq DOMAIN limbo[t] /\ kept + 1 .. n \subseteq DOMAIN limbo[t]
       /\ \A i \in 1 .. kept, k \in kept + 1 .. n : i # k
  BY <1>2
<1>11. Others(t)
  BY <1>1, <1>4, ThreadFacts DEF Others, PhaseOK
<1>12. Moves(t)
  <2>1. ASSUME NEW x \in Blocks
        PROVE  /\ Waits(t, x)' => Waits(t, x)
               /\ x \in freed' => x \in freed \/ Waits(t, x)
               /\ x \in freed' => x \notin linked
               /\ Waits(t, x)' => x \notin freed'
    <3>1. /\ ~(x \in linked /\ x \in freed)
          /\ Waits(t, x) => x \notin linked /\ x \notin freed
          /\ x \in log[t].onAbort => x \notin prelimbo[t] /\ ~Pooled(t, x)
          /\ Flushed(t, x) => x \notin prelimbo[t] /\ ~Pooled(t, x)
          /\ x \in prelimbo[t] => ~Pooled(t, x)
          /\ \A i, k \in DOMAIN limbo[t] : x \in limbo[t][i].pool /\ x \in limbo[t][k].pool => i = k
      BY PlaceFacts
    <3>2. \A i \in kept + 1 .. n : x \in limbo[t][i].pool =>
            Pooled(t, x) /\ ~(\E k \in 1 .. kept : x \in limbo[t][k].pool)
      BY <1>10, <3>1 DEF Pooled
    <3>3. \A i \in 1 .. kept : x \in limbo[t][i].pool => Pooled(t, x)
      BY <1>10 DEF Pooled
    <3>4. Waits(t, x)' <=> x \in log[t].onAbort \/ Flushed(t, x) \/ Pooled(t, x)'
      BY <1>1, <1>4, <1>9 DEF Waits
    <3>5. QED
      BY <1>9, <3>1, <3>2, <3>3, <3>4 DEF Waits
  <2>2. QED
    BY <1>1, <2>1, PlaceFacts DEF Moves
<1>13. Protects
  <2>0. ts[t] \in [Threads -> Nat]
    BY <1>1, FullTimestamp
  <2>1. ASSUME NEW u \in Threads, NEW x, Flushed(u, x) PROVE Flushed(u, x)'
    BY <1>1, <1>4, <1>9, <2>1 DEF Flushed, Ending
  <2>2. ASSUME NEW u \in Threads, NEW x, x \in prelimbo[t], trans_nums[u] <= ts[t][u]
        PROVE  \E i \in DOMAIN limbo'[t] : x \in limbo'[t][i].pool /\ trans_nums[u] <= limbo'[t][i].ts[u]
    <3>1. 1 \in DOMAIN limbo'[t]
      BY <1>3
    <3>2. QED
      BY <1>3, <2>2, <3>1
  <2>3. ASSUME NEW u \in Threads, refs[u] # {},
               NEW i \in DOMAIN limbo[t], trans_nums[u] <= limbo[t][i].ts[u]
        PROVE  i \in 1 .. kept
    <3>1. SUFFICES ASSUME i \in kept + 1 .. n PROVE FALSE
      BY <1>2
    <3>2. PICK j \in 1 .. n : j = kept + 1
      BY <3>1
    <3>3. PICK a \in Nat, b \in Nat, c \in Nat, d \in Nat :
            a = trans_nums[u] /\ b = limbo[t][i].ts[u] /\ c = limbo[t][j].ts[u] /\ d = ts[t][u]
      BY <1>2, <1>6, <2>0, Types
    <3>4. a % 2 # 0
      BY <3>3, <2>3, ThreadFacts DEF PhaseOK, Runs
    <3>5. a <= b /\ b <= c /\ c <= d /\ d <= a
      <4>1. j <= i /\ j \in DOMAIN limbo[t] /\ u \in DOMAIN ts[t]
        BY <1>2, <2>0, <3>1, <3>2
      <4>2. QED
        BY <1>5, <2>3, <3>3, <4>1 DEF TimesOK
    <3>6. d > c \/ d % 2 = 0
      <4>1. isStrictlyOlder(ts[t], limbo[t][j].ts) /\ u \in DOMAIN limbo[t][j].ts
        BY <1>3, <1>6, <3>1, <3>2
      <4>2. QED
        BY <3>3, <4>1 DEF isStrictlyOlder
    <3>7. d = a
      BY <3>5
    <3>8. QED
      BY <3>4, <3>5, <3>6, <3>7
  <2>4. ASSUME NEW u \in Threads, refs[u] # {}, NEW x,
               NEW i \in DOMAIN limbo[t], x \in limbo[t][i].pool, trans_nums[u] <= limbo[t][i].ts[u]
        PROVE  \E k \in DOMAIN limbo'[t] : x \in limbo'[t][k].pool /\ trans_nums[u] <= limbo'[t][k].ts[u]
    <3>1. i \in 1 .. kept
      BY <2>3, <2>4
    <3>2. i + 1 \in DOMAIN limbo'[t] /\ limbo'[t][i + 1] = limbo[t][i]
      BY <1>3, <3>1
    <3>3. QED
      BY <2>4, <3>2
  <2>5. ASSUME NEW u \in Threads, NEW x \in refs[u], Protected(u, x) PROVE Protected(u, x)'
    <3>1. CASE x \in linked
      BY <1>1, <3>1 DEF Protected
    <3>2. ASSUME NEW v \in Threads, Flushed(v, x) PROVE Protected(u, x)'
      BY <2>1, <3>2 DEF Protected
    <3>3. ASSUME NEW v \in Threads, x \in prelimbo[v],
                 u \in DOMAIN ts[v] => trans_nums[u] <= ts[v][u]
          PROVE  Protected(u, x)'
      <4>1. CASE v = t
        <5>1. trans_nums[u] <= ts[t][u]
          BY <2>0, <3>3, <4>1
        <5>2. QED
          BY <1>1, <2>2, <3>3, <4>1, <5>1 DEF Protected
      <4>2. CASE v # t
        BY <1>1, <1>4, <3>3, <4>2 DEF Protected
      <4>3. QED
        BY <4>1, <4>2
    <3>4. ASSUME NEW v \in Threads, NEW i \in DOMAIN limbo[v], x \in limbo[v][i].pool,
                 trans_nums[u] <= limbo[v][i].ts[u]
          PROVE  Protected(u, x)'
      <4>1. CASE v = t
        BY <1>1, <2>4, <3>4, <4>1 DEF Protected
      <4>2. CASE v # t
        BY <1>1, <1>4, <3>4, <4>2 DEF Protected
      <4>3. QED
        BY <4>1, <4>2
    <3>5. QED
      BY <2>5, <3>1, <3>2, <3>3, <3>4 DEF Protected
  <2>6. QED
    BY <2>5 DEF Protects
<1>14. PhaseOK(t)'
  <2>1. Len(<<>>) = 0 /\ 0 <= Cardinality(Threads)
    BY Types, ThreadCount
  <2>2. QED
    BY <1>1, <1>4, <1>5, <2>1 DEF PhaseOK, Runs
<1>15. TimesOK(t)'
  <2>1. ts[t] \in [Threads -> Nat]
    BY <1>1, FullTimestamp
  <2>2. ASSUME NEW u \in Threads, NEW j \in DOMAIN limbo'[t] PROVE limbo'[t][j].ts[u] <= trans_nums[u]
    BY <1>3, <1>5, <1>8, <2>1 DEF TimesOK
  <2>3. ASSUME NEW u \in Threads, NEW j \in DOMAIN limbo'[t], NEW k \in DOMAIN limbo'[t], j <= k
        PROVE  limbo'[t][k].ts[u] <= limbo'[t][j].ts[u]
    <3>1. CASE j = 1 /\ k = 1
      BY <1>3, <2>1, <3>1
    <3>2. CASE j = 1 /\ k # 1
      BY <1>3, <1>5, <1>8, <2>1, <3>2 DEF TimesOK
    <3>3. CASE j # 1 /\ k # 1
      <4>1. j - 1 <= k - 1
        BY <1>3, <2>3
      <4>2. QED
        BY <1>5, <1>8, <3>3, <4>1 DEF TimesOK
    <3>4. QED
      BY <1>3, <2>3, <3>1, <3>2, <3>3
  <2>4. \A u : u \notin DOMAIN ts'[t]
    BY <1>4
  <2>5. QED
    BY <1>1, <2>2, <2>3, <2>4 DEF TimesOK
<1>16. Apart(t)'
  <2>1. ASSUME NEW x \in Blocks, NEW i \in DOMAIN limbo'[t], NEW k \in DOMAIN limbo'[t],
               x \in limbo'[t][i].pool, x \in limbo'[t][k].pool
        PROVE  i = k
    <3>1. /\ x \in prelimbo[t] => ~Pooled(t, x)
          /\ \A a, b \in DOMAIN limbo[t] : x \in limbo[t][a].pool /\ x \in limbo[t][b].pool => a = b
      BY PlaceFacts
    <3>2. CASE i = 1 \/ k = 1
      BY <1>3, <1>8, <2>1, <3>1, <3>2 DEF Pooled
    <3>3. CASE i # 1 /\ k # 1
      <4>1. i - 1 = k - 1
        BY <1>8, <2>1, <3>1, <3>3
      <4>2. QED
        BY <1>3, <4>1
    <3>4. QED
      BY <3>2, <3>3
  <2>2. ASSUME NEW x \in Blocks, Pooled(t, x)' PROVE x \in prelimbo[t] \/ Pooled(t, x)
    BY <1>9, <1>10, <2>2 DEF Pooled
  <2>3. ASSUME NEW x \in Blocks PROVE ~(Flushed(t, x)' /\ Pooled(t, x)') /\ log'[t].onAbort = {}
    BY <1>1, <1>5, <1>9, <2>2, PlaceFacts DEF PhaseOK, Runs
  <2>4. QED
    BY <1>4, <2>1, <2>3 DEF Apart
<1>17. ReadsOK(t)'
  BY <1>1, <1>5 DEF ReadsOK, PhaseOK, Runs
<1>18. trans_nums[t] <= trans_nums'[t]
  BY <1>1, Types
<1>19. QED
  BY <1>1, <1>7, <1>11, <1>12, <1>13, <1>14, <1>15, <1>16, <1>17, <1>18, StepInv

-------------------------------------------------------------------------------
(* The invariant holds, and with it where blocks are and when they are free. *)

\* The invariant holds initially.
LEMMA InvInit == Sizes /\ Init => Inv
<1> SUFFICES ASSUME Sizes, Init PROVE Inv
  OBVIOUS
<1>1. Max(Blocks) \in Blocks
  BY MaxIsElement DEF Sizes
<1>2. freed \subseteq Blocks /\ linked = Blocks \ freed
  BY <1>1 DEF Init
<1>3. Nothing \in Log /\ Nothing.onCommit = {} /\ Nothing.onAbort = {}
  BY DEF Nothing, Log
<1>4. TypeOK
  BY <1>2, <1>3 DEF Init, TypeOK, Labels
<1>5. ASSUME NEW t \in Threads
      PROVE  /\ pc[t] = "out" /\ refs[t] = {} /\ log[t] = Nothing /\ trans_nums[t] = 0
             /\ prelimbo[t] = {} /\ ts[t] = <<>> /\ limbo[t] = <<>>
  BY DEF Init
<1>6. \A t \in Threads : \A b : ~Waits(t, b)
  BY <1>3, <1>5 DEF Waits, Flushed, Pooled
<1>7. ASSUME NEW t \in Threads PROVE PhaseOK(t) /\ TimesOK(t) /\ Apart(t) /\ ReadsOK(t)
  <2>1. Len(<<>>) = 0 /\ 0 <= Cardinality(Threads)
    BY ThreadCount
  <2>2. PhaseOK(t)
    BY <1>3, <1>5, <2>1 DEF PhaseOK, Runs
  <2>3. TimesOK(t)
    BY <1>5 DEF TimesOK
  <2>4. Apart(t) /\ ReadsOK(t)
    BY <1>3, <1>5 DEF Apart, ReadsOK, Flushed, Pooled
  <2>5. QED
    BY <2>2, <2>3, <2>4
<1>8. PlacesOK
  BY <1>2, <1>6 DEF PlacesOK
<1>9. QED
  BY <1>4, <1>7, <1>8 DEF Inv

\* Every step preserves it.
LEMMA InvNext == Inv /\ [Next]_vars => Inv'
<1> SUFFICES ASSUME Inv, [Next]_vars PROVE Inv'
  OBVIOUS
<1>1. CASE UNCHANGED vars
  <2>1. UNCHANGED <<tfence, trans_nums, pc, refs, stale, log, prelimbo, ts, limbo, linked, freed>>
    BY <1>1 DEF vars
  <2>2. Sizes' /\ TypeOK'
    BY <2>1, Types DEF Sizes, TypeOK
  <2>3. ASSUME NEW t \in Threads PROVE PhaseOK(t)' /\ TimesOK(t)' /\ Apart(t)' /\ ReadsOK(t)'
    BY <2>1, ThreadFacts
    DEF PhaseOK, TimesOK, Apart, ReadsOK, Runs, Protected, Flushed, Pooled, Ending
  <2>4. PlacesOK'
    BY <2>1 DEF Inv, PlacesOK, Waits, Flushed, Pooled, Ending
  <2>5. QED
    BY <2>2, <2>3, <2>4 DEF Inv
<1>2. ASSUME NEW t \in Threads, Abort(t) \/ (Validate(t) /\ stale[t] # {}) PROVE Inv'
  <2>1. /\ Runs(t) /\ Finish(t, log[t].onAbort) /\ stale' = [stale EXCEPT ![t] = {}]
        /\ UNCHANGED <<tfence, trans_nums, prelimbo, ts, limbo, linked, freed>>
    BY <1>2 DEF Abort, Validate, Runs, reclaimer
  <2>2. QED
    BY <2>1, AbortingStep
<1>3. QED
  BY <1>1, <1>2, BeginStep, ReadStep, DeleteStep, AllocStep, OnValidateStep, StillValidStep, CommitStep,
     AddStep, CopyStep, TransferStep, EndStep DEF Next

\* The invariant is one.
LEMMA Invariant == Sizes /\ Spec => []Inv
<1>1. QED
  BY InvInit, InvNext, PTL DEF Spec

\* For any number of threads and blocks, every block is linked, free, or waits
\* with one thread: none is reclaimed twice, or while it is in the structure,
\* whatever is inserted and deleted by transactions that commit or abort
\* (policies.h:112-193, Reclaimer.h:144-214).
THEOREM BlocksAreInOnePlace == Sizes /\ Spec => []EveryBlockInOnePlace
<1>1. Inv => EveryBlockInOnePlace
  <2> SUFFICES ASSUME Inv PROVE EveryBlockInOnePlace
    OBVIOUS
  <2>1. ASSUME NEW t \in Threads, NEW b \in Waiting(t) PROVE Waits(t, b) /\ b \in Blocks
    <3>1. Waits(t, b)
      BY <2>1 DEF Waiting, Waits, Flushed, Pooled, Ending
    <3>2. Pooled(t, b) => b \in Blocks
      <4>1. \A i \in DOMAIN limbo[t] : limbo[t][i] \in Pool
        BY Types
      <4>2. QED
        BY <4>1 DEF Pooled, Pool
    <3>3. QED
      BY <3>1, <3>2, Types, LogFields DEF Waits, Flushed
  <2>2. linked \cap freed = {}
    BY Types DEF Inv, PlacesOK
  <2>3. ASSUME NEW t \in Threads PROVE Waiting(t) \cap (linked \cup freed) = {}
    BY <2>1, PlaceFacts
  <2>4. ASSUME NEW t \in Threads, NEW u \in Threads \ {t} PROVE Waiting(t) \cap Waiting(u) = {}
    BY <2>1 DEF Inv, PlacesOK
  <2>5. QED
    BY <2>2, <2>3, <2>4 DEF EveryBlockInOnePlace
<1>2. QED
  BY <1>1, Invariant, PTL

\* For any number of threads, no block is reclaimed under a transaction that has
\* a pointer to it, although timestamps are copied entry by entry while
\* transactions begin and end, and pools are reclaimed by a comparison with the
\* first of them alone; but for the validation of a build without the fence
\* (policies.h:138-193, Epoch.h:127-169).
THEOREM NoBlockIsFreedInUse == Sizes /\ Spec => []NoUseAfterFree
<1>1. Inv => NoUseAfterFree
  <2>1. ASSUME Inv, NEW t \in Threads, NEW b \in refs[t], b \in freed,
               tfence \/ pc[t] # "validating"
        PROVE  FALSE
    <3>1. Protected(t, b)
      BY <2>1, ThreadFacts DEF ReadsOK
    <3>2. b \in linked \/ \E u \in Threads : Waits(u, b)
      BY <3>1 DEF Protected, Waits, Pooled
    <3>3. b \in Blocks
      BY <2>1, Types
    <3>4. QED
      BY <2>1, <3>2, <3>3, PlaceFacts
  <2>2. QED
    BY <2>1 DEF NoUseAfterFree
<1>2. QED
  BY <1>1, Invariant, PTL
===============================================================================
