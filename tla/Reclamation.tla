----------------------------- MODULE Reclamation -----------------------------
(*****************************************************************************)
(* Deferred reclamation: the epoch array (Epoch.h), the reclaimer of every   *)
(* thread (Reclaimer.h) and the memory policy that drives both from the      *)
(* transactions (policies.h). What a transaction reads and when it commits   *)
(* is left open; Rstm is about that.                                         *)
(*****************************************************************************)
EXTENDS Naturals, FiniteSets, Sequences, SequencesExt, FiniteSetsExt

CONSTANTS
  Threads,                    \* ids 1 .. n
  Updaters,                   \* those of them that insert and delete
  Blocks,                     \* blocks of the heap, in the order of the list
  POOL_SIZE,                  \* deleted blocks per timestamp
  MaxNum                      \* bound of the transaction numbers

VARIABLES
  tfence,                     \* build with PRIVATIZATION_TFENCE
  trans_nums,                 \* the epoch; odd in a transaction
  pc,                         \* "out", "in", "validating", "flush", "copy", "sweep"
  refs,                       \* pointers that a transaction holds
  stale,                      \* those that a commit has overtaken
  log,                        \* deleteOnCommit and deleteOnAbort
  prelimbo,                   \* blocks that wait for a full pool
  ts,                         \* the timestamp that is being copied
  limbo,                      \* full pools, the newest first
  linked, freed               \* blocks that are in the structure; free blocks

vars == <<tfence, trans_nums, pc, refs, stale, log, prelimbo, ts, limbo, linked, freed>>
reclaimer == <<prelimbo, ts, limbo>>

Nothing == [onCommit |-> {}, onAbort |-> {}]

Init ==
  /\ tfence \in BOOLEAN
  /\ trans_nums = [t \in Threads |-> 0]             \* zero_transaction
  /\ pc = [t \in Threads |-> "out"]
  /\ refs = [t \in Threads |-> {}]
  /\ stale = [t \in Threads |-> {}]
  /\ log = [t \in Threads |-> Nothing]
  /\ prelimbo = [t \in Threads |-> {}]
  /\ ts = [t \in Threads |-> <<>>]
  /\ limbo = [t \in Threads |-> <<>>]
  /\ freed \in {{}, {Max(Blocks)}}
  /\ linked = Blocks \ freed

Goes(t, to) == pc' = [pc EXCEPT ![t] = to]
Counts(t, n) == trans_nums' = [trans_nums EXCEPT ![t] = @ + n]

-------------------------------------------------------------------------------
(* A transaction.                                                            *)

onTxBegin(t) ==
  /\ pc[t] = "out" /\ trans_nums[t] < MaxNum
  /\ Goes(t, "in") /\ Counts(t, 1)
  /\ UNCHANGED <<tfence, refs, stale, log, reclaimer, linked, freed>>

\* The structure is a list: it is walked in one direction.
Read(t) ==
  /\ pc[t] = "in"
  /\ \E b \in linked : (\A r \in refs[t] : r < b) /\ refs' = [refs EXCEPT ![t] = @ \cup {b}]
  /\ UNCHANGED <<tfence, trans_nums, pc, stale, log, reclaimer, linked, freed>>

Delete(t) ==
  /\ t \in Updaters /\ pc[t] = "in" /\ refs[t] # {}
  /\ log' = [log EXCEPT ![t].onCommit = @ \cup {Max(refs[t])}]
  /\ UNCHANGED <<tfence, trans_nums, pc, refs, stale, reclaimer, linked, freed>>

\* What is allocated in a transaction is logged, for it may abort.
txAlloc(t) ==
  /\ t \in Updaters /\ pc[t] = "in" /\ freed # {}
  /\ LET b == CHOOSE b \in freed : TRUE
     IN  /\ log' = [log EXCEPT ![t].onAbort = @ \cup {b}]
         /\ freed' = freed \ {b}
  /\ UNCHANGED <<tfence, trans_nums, pc, refs, stale, reclaimer, linked>>

\* Without the fence, a transaction leaves its epoch before it looks at what it
\* has read.
onValidate(t) ==
  /\ pc[t] = "in"
  /\ IF tfence THEN UNCHANGED trans_nums ELSE trans_nums[t] < MaxNum /\ Counts(t, 2)
  /\ Goes(t, "validating")
  /\ UNCHANGED <<tfence, refs, stale, log, reclaimer, linked, freed>>

Finish(t, deleted) ==
  /\ log' = [log EXCEPT ![t] = [onCommit |-> deleted, onAbort |-> {}]]
  /\ refs' = [refs EXCEPT ![t] = {}]
  /\ Goes(t, "flush")

\* It goes on if nothing that it read was overtaken, and aborts otherwise.
Validate(t) ==
  /\ pc[t] = "validating"
  /\ IF stale[t] = {} THEN Goes(t, "in") /\ UNCHANGED <<refs, log>>
     ELSE Finish(t, log[t].onAbort)
  /\ stale' = [stale EXCEPT ![t] = {}]
  /\ UNCHANGED <<tfence, trans_nums, reclaimer, linked, freed>>

\* Mutant: what was to be deleted if it commits is deleted as well.
AbortDeletingAll(t) ==
  /\ pc[t] = "in" /\ Finish(t, log[t].onAbort \cup log[t].onCommit)
  /\ stale' = [stale EXCEPT ![t] = {}]
  /\ UNCHANGED <<tfence, trans_nums, reclaimer, linked, freed>>

Abort(t) ==
  /\ pc[t] = "in" /\ Finish(t, log[t].onAbort)
  /\ stale' = [stale EXCEPT ![t] = {}]
  /\ UNCHANGED <<tfence, trans_nums, reclaimer, linked, freed>>

\* A commit links what was allocated, unlinks what was deleted, and overtakes
\* the others that read it.
Commit(t) ==
  /\ pc[t] = "in" /\ stale[t] = {}
  /\ linked' = (linked \ log[t].onCommit) \cup log[t].onAbort
  /\ stale' = [u \in Threads |-> stale[u] \cup IF u = t THEN {} ELSE refs[u] \cap log[t].onCommit]
  /\ Finish(t, log[t].onCommit)
  /\ UNCHANGED <<tfence, trans_nums, reclaimer, freed>>

-------------------------------------------------------------------------------
(* The end of a transaction: its log goes to the reclaimer before it leaves  *)
(* its epoch. A full pool gets a timestamp, copied entry by entry, and is    *)
(* moved to the front of the limbo list.                                     *)

\* Mutant: the number that a transaction had is taken for a later one.
isStrictlyOlderOrSame(newer, older) ==
  \A i \in DOMAIN older : newer[i] >= older[i] \/ newer[i] % 2 = 0

\* Every transaction that ran at the older timestamp has ended.
isStrictlyOlder(newer, older) ==
  \A i \in DOMAIN older : newer[i] > older[i] \/ newer[i] % 2 = 0

add(t) ==
  /\ pc[t] = "flush"
  /\ \E b \in log[t].onCommit :
       /\ log' = [log EXCEPT ![t].onCommit = @ \ {b}]
       /\ prelimbo' = [prelimbo EXCEPT ![t] = @ \cup {b}]
       /\ Goes(t, IF Cardinality(prelimbo[t]) + 1 = POOL_SIZE THEN "copy" ELSE "flush")
  /\ UNCHANGED <<tfence, trans_nums, refs, stale, ts, limbo, linked, freed>>

copy_timestamp(t) ==
  /\ pc[t] = "copy"
  /\ ts' = [ts EXCEPT ![t] = Append(@, trans_nums[Len(@) + 1])]
  /\ Goes(t, IF Len(ts[t]) + 1 = Cardinality(Threads) THEN "sweep" ELSE "copy")
  /\ UNCHANGED <<tfence, trans_nums, refs, stale, log, prelimbo, limbo, linked, freed>>

\* The first pool that the new timestamp dominates is reclaimed, and with it
\* all that are older: the list is taken to be sorted.
transfer(t) ==
  /\ pc[t] = "sweep"
  /\ LET dominated == {i \in DOMAIN limbo[t] : isStrictlyOlder(ts[t], limbo[t][i].ts)}
         kept == IF dominated = {} THEN Len(limbo[t]) ELSE Min(dominated) - 1
     IN  /\ limbo' = [limbo EXCEPT ![t] = <<[pool |-> prelimbo[t], ts |-> ts[t]]>> \o SubSeq(@, 1, kept)]
         /\ freed' = freed \cup UNION {limbo[t][i].pool : i \in kept + 1 .. Len(limbo[t])}
  /\ prelimbo' = [prelimbo EXCEPT ![t] = {}]
  /\ ts' = [ts EXCEPT ![t] = <<>>]
  /\ Goes(t, "flush")
  /\ UNCHANGED <<tfence, trans_nums, refs, stale, log, linked>>

onTxEnd(t) ==
  /\ pc[t] = "flush" /\ log[t].onCommit = {}
  /\ Goes(t, "out") /\ Counts(t, 1)
  /\ UNCHANGED <<tfence, refs, stale, log, reclaimer, linked, freed>>

Next == \E t \in Threads :
  \/ onTxBegin(t) \/ Read(t) \/ Delete(t) \/ txAlloc(t) \/ onValidate(t) \/ Validate(t)
  \/ Abort(t) \/ Commit(t) \/ add(t) \/ copy_timestamp(t) \/ transfer(t) \/ onTxEnd(t)

Spec == Init /\ [][Next]_vars

-------------------------------------------------------------------------------
\* No block is reclaimed under a transaction that has a pointer to it. Without
\* the fence there is one window, inside a validation: its number is moved
\* before the headers are read, so that a block it is about to read can go.
NoUseAfterFree ==
  \A t \in Threads : refs[t] \cap freed # {} => ~tfence /\ pc[t] = "validating"

\* No block is reclaimed twice, or while it is linked or was just allocated:
\* every block is in one place.
Waiting(t) == log[t].onAbort \cup prelimbo[t] \cup (UNION {limbo[t][i].pool : i \in DOMAIN limbo[t]})
              \cup (IF pc[t] \in {"flush", "copy", "sweep"} THEN log[t].onCommit ELSE {})
EveryBlockInOnePlace ==
  /\ linked \cap freed = {}
  /\ \A t \in Threads :
       /\ Waiting(t) \cap (linked \cup freed) = {}
       /\ \A u \in Threads \ {t} : Waiting(t) \cap Waiting(u) = {}
===============================================================================
