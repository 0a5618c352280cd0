-------------------------------- MODULE TxLists --------------------------------
(*****************************************************************************)
(* The sorted linked lists that run in transactions: LinkedList.cpp, its     *)
(* variant with early release in LinkedListRelease.cpp, the hash table of    *)
(* such lists in Hash.h, the list of LinkedListBM.cpp whose operations are   *)
(* jobs of the scheduler, and the list of PrivList.h that is cleared outside *)
(* of transactions.                                                          *)
(*                                                                           *)
(* The transactional memory is what Rstm and RedoLock promise: an object     *)
(* that is opened is validated with all that were opened before, unless they *)
(* were released; a commit validates again and takes effect at one point. A  *)
(* writer owns what it opens for writing, and is killed or waits in a        *)
(* conflict: either may happen. The commit of a writer dooms the readers of  *)
(* what it wrote; they notice at their next open or commit.                  *)
(*                                                                           *)
(* A step opens one node. Nodes that nothing reaches are used again.         *)
(*****************************************************************************)
EXTENDS Integers, FiniteSets, FiniteSetsExt, Functions

CONSTANTS
  Clients,                    \* threads
  Vals,                       \* values
  Structures,                 \* of "plain", "release", "hash", "bm", "priv"
  N_BUCKETS,                  \* lists of the hash table
  MaxOps                      \* bound: none begins after so many

VARIABLES
  structure,                  \* the structure that all threads use
  node,                       \* val and next of every node, as committed
  tx,                         \* the transaction of every thread, and its locals
  ops,                        \* the operations that were done
  owner                       \* who opened a node for writing

Null == -1
NoClient == "nobody"
m_max == Max(Vals)
Sentinels == 0 .. (N_BUCKETS - 1)
Addresses == N_BUCKETS .. (N_BUCKETS + Cardinality(Vals) + 2 * Cardinality(Clients) - 1)
Bucket(v) == IF structure = "hash" THEN v % N_BUCKETS ELSE 0

LLNode(v, next) == [val |-> v, next |-> next]
NoTx ==
  [pc |-> "idle", op |-> "none", val |-> 0, prev |-> Null, curr |-> Null, reads |-> {},
   doomed |-> FALSE, priv |-> {}, waits |-> {}]

\* Lists that hold the values of a set.
Place(set, v) == N_BUCKETS + Cardinality({w \in set : w < v})
First(set, s, after) ==
  LET later == {w \in set : Bucket(w) = s /\ w > after}
  IN  IF later = {} THEN Null ELSE Place(set, Min(later))
Filled(set) ==
  [n \in Sentinels \cup Addresses |->
     IF n \in Sentinels THEN LLNode(-1, First(set, n, -1))
     ELSE IF \E v \in set : n = Place(set, v)
     THEN LET v == CHOOSE v \in set : n = Place(set, v) IN LLNode(v, First(set, Bucket(v), v))
     ELSE LLNode(-1, Null)]

Init ==
  /\ structure \in Structures
  /\ \E set \in SUBSET Vals :
       /\ structure = "priv" => \A v \in set : 0 .. v \subseteq set
       /\ node = Filled(set)
  /\ ops = 0
  /\ tx = [c \in Clients |-> NoTx]
  /\ owner = [n \in Sentinels \cup Addresses |-> NoClient]

vars == <<structure, node, tx, ops, owner>>

RECURSIVE Chain(_, _)
Chain(heap, n) == IF n = Null THEN {} ELSE {n} \cup Chain(heap, heap[n].next)
List(s) == Chain(node, node[s].next)
Contents == {node[n].val : n \in UNION {List(s) : s \in Sentinels}}

\* What is reached from the lists, or from what a thread holds. Nothing can see
\* the fields of the rest.
InUse(heap, txs) ==
  LET Held(t) == t.reads \cup t.priv \cup {t.prev, t.curr}
  IN  UNION {Chain(heap, n) : n \in Sentinels \cup UNION {Held(txs[c]) : c \in Clients}}
Collected(heap, txs) ==
  [n \in DOMAIN heap |-> IF n \in InUse(heap, txs) THEN heap[n] ELSE LLNode(-1, Null)]
NewNode == Min(Addresses \ InUse(node, tx))

\* Mutant: the fence is left out.
NoFence(c) == {}
\* fence(): the threads that are in a transaction.
Fence(c) == {d \in Clients \ {c} : tx[d].pc = "walk"}
Set(c, t) == tx' = [tx EXCEPT ![c] = t]

-------------------------------------------------------------------------------
(* Opening.                                                                  *)

\* LinkedListBM hands its arguments to a callback in a structure that is
\* initialised with zeros, and lookup does not put its value there.
CallbackVal(op, v) == IF structure = "bm" /\ op = "lookup" THEN 0 ELSE v

\* BEGIN_TRANSACTION; the sentinel and the first node are opened.
Begin(c, op, v) ==
  LET s == Bucket(v)                \* 0 if there is one list
      first == node[s].next
  IN  /\ tx[c].pc = "idle" /\ ops < MaxOps
      /\ op \in (IF structure = "priv" THEN {"insertNextOrClearAll"}
                 ELSE {"insert", "lookup", "remove"})
      /\ structure = "priv" => v = m_max
      /\ Set(c, [NoTx EXCEPT !.pc = "walk", !.op = op, !.val = CallbackVal(op, v), !.prev = s, !.curr = first,
                             !.reads = {s, first} \ {Null}])
      /\ UNCHANGED <<structure, node, ops, owner>>

\* Mutant: it goes past the value.
GoesOnPast(c) ==
  /\ tx[c].curr # Null
  /\ tx[c].op # "insertNextOrClearAll" => node[tx[c].curr].val <= tx[c].val

\* The search goes on while the value of curr is smaller; insertNextOrClearAll
\* goes on to the end.
GoesOn(c) ==
  /\ tx[c].curr # Null
  /\ tx[c].op # "insertNextOrClearAll" => node[tx[c].curr].val < tx[c].val

\* prev = curr; curr = prev->get_next(). With early release, prev is released.
Advance(c) ==
  LET next == node[tx[c].curr].next
      kept == IF structure = "release" THEN tx[c].reads \ {tx[c].prev} ELSE tx[c].reads
  IN  /\ tx[c].pc = "walk" /\ GoesOn(c) /\ ~tx[c].doomed
      /\ Set(c, [tx[c] EXCEPT !.prev = tx[c].curr, !.curr = next,
                              !.reads = kept \cup ({tx[c].curr, next} \ {Null})])
      /\ node' = Collected(node, tx')
      /\ UNCHANGED <<structure, ops, owner>>

Finds(c) == tx[c].curr # Null /\ node[tx[c].curr].val = tx[c].val

\* insertNextOrClearAll has seen m_max: it excises the list instead.
Excises(c) ==
  tx[c].op = "insertNextOrClearAll" /\ node[tx[c].prev].val >= m_max

\* Mutant: remove opens only prev for writing.
WritesPrev(c) ==
  CASE tx[c].op = "insert" -> IF Finds(c) THEN {} ELSE {tx[c].prev}
    [] tx[c].op = "lookup" -> {}
    [] tx[c].op = "remove" -> IF Finds(c) THEN {tx[c].prev} ELSE {}
    [] OTHER -> {IF Excises(c) THEN 0 ELSE tx[c].prev}

\* What the operation opens for writing. With early release, remove opens the
\* node that it removes too, which is "necessary for consistency".
Writes(c) ==
  CASE tx[c].op = "insert" -> IF Finds(c) THEN {} ELSE {tx[c].prev}
    [] tx[c].op = "lookup" -> {}
    [] tx[c].op = "remove" /\ ~Finds(c) -> {}
    [] tx[c].op = "remove" /\ structure = "release" -> {tx[c].prev, tx[c].curr}
    [] tx[c].op = "remove" -> {tx[c].prev}
    [] OTHER -> {IF Excises(c) THEN 0 ELSE tx[c].prev}

\* A wr_ptr is made. An owner in the way is killed (or the step is not taken).
OpenRW(c) ==
  /\ tx[c].pc = "walk" /\ ~GoesOn(c) /\ ~tx[c].doomed
  /\ \E n \in Writes(c) :
       /\ owner[n] # c
       /\ owner' = [owner EXCEPT ![n] = c]
       /\ tx' = [d \in Clients |-> [tx[d] EXCEPT !.doomed = @ \/ d = owner[n],
                                               !.reads = IF d = c THEN @ \cup {n} ELSE @]]
  /\ UNCHANGED <<structure, node, ops>>

-------------------------------------------------------------------------------
(* The end.                                                                  *)

\* The lists after the operation. What was excised or removed keeps its fields.
Updated(c) ==
  LET t == tx[c]
      new == NewNode
      \* insert and insertNextOrClearAll
      Added(v) == [node EXCEPT ![new] = LLNode(v, t.curr), ![t.prev].next = new]
  IN  CASE Writes(c) = {} -> node
        [] t.op = "insert" -> Added(t.val)
        [] t.op = "remove" -> [node EXCEPT ![t.prev].next = node[t.curr].next]
        [] Excises(c) -> [node EXCEPT ![0].next = Null]
        [] OTHER -> Added(node[t.prev].val + 1)

Disown(c) == owner' = [n \in DOMAIN owner |-> IF owner[n] = c THEN NoClient ELSE owner[n]]

\* A thread that ends its transaction: no fence waits for it any more.
Ended(c, d) == IF d = c THEN tx[d] ELSE [tx[d] EXCEPT !.waits = @ \ {c}]

\* END_TRANSACTION; who read what was written is doomed. A privatizer goes on
\* to its fence, which waits for the transactions that are active.
Commit(c) ==
  /\ tx[c].pc = "walk" /\ ~GoesOn(c) /\ ~tx[c].doomed
  /\ \A n \in Writes(c) : owner[n] = c
  /\ tx' = [d \in Clients |->
               IF d # c THEN [Ended(c, d) EXCEPT !.doomed = @ \/ tx[d].reads \cap Writes(c) # {}]
               ELSE IF Excises(c)
               THEN [NoTx EXCEPT !.pc = "fence", !.priv = List(0), !.waits = Fence(c)]
               ELSE NoTx]
  /\ node' = Collected(Updated(c), tx')
  /\ Disown(c)
  /\ ops' = ops + 1
  /\ UNCHANGED structure

\* Aborted is thrown at an open or at the commit.
Abort(c) ==
  /\ tx[c].pc = "walk" /\ tx[c].doomed
  /\ tx' = [[d \in Clients |-> Ended(c, d)] EXCEPT ![c] = NoTx]
  /\ node' = Collected(node, tx')
  /\ Disown(c)
  /\ UNCHANGED <<structure, ops>>

\* Once the fence has been passed, the private list is opened with un_ptrs and
\* deleted.
DeletePrivate(c) ==
  /\ tx[c].pc = "fence" /\ tx[c].waits = {}
  /\ Set(c, NoTx)
  /\ node' = Collected(node, tx')
  /\ UNCHANGED <<structure, ops, owner>>

Thread(c) ==
  \/ \E op \in {"insert", "lookup", "remove", "insertNextOrClearAll"}, v \in Vals : Begin(c, op, v)
  \/ Advance(c) \/ OpenRW(c) \/ Commit(c) \/ Abort(c) \/ DeletePrivate(c)

Next == \E c \in Clients : Thread(c)

Spec == Init /\ [][Next]_vars

-------------------------------------------------------------------------------
(* Properties.                                                               *)

\* isSane and extendedSanityCheck.
IsSane ==
  \A s \in Sentinels : \A n \in {s} \cup List(s) :
    /\ node[n].next # Null => node[n].val < node[node[n].next].val
    /\ n \in List(s) /\ structure # "priv" => Bucket(node[n].val) = s

\* A committed operation did to the set what it would do alone, and a lookup
\* found what was there; other steps leave the set as it is. (The value of a
\* lookup is the one that reached the transaction: see CallbackVal.)
TakesEffect(c) ==
  LET t == tx[c] IN
  CASE t.op = "insert" -> Contents' = Contents \cup {t.val}
    [] t.op = "remove" -> Contents' = Contents \ {t.val}
    [] t.op = "lookup" -> Contents' = Contents /\ (Finds(c) <=> t.val \in Contents)
    [] OTHER -> Contents' = (IF m_max \in Contents THEN {} ELSE 0 .. Cardinality(Contents))

NextTakesEffect ==
  IF \E c \in Clients : tx[c].pc = "walk" /\ ~tx[c].doomed /\ tx'[c].pc # "walk"
  THEN \A c \in Clients : tx[c].pc = "walk" /\ ~tx[c].doomed /\ tx'[c].pc # "walk" => TakesEffect(c)
  ELSE Contents' = Contents

EveryOperationTakesEffect == [][NextTakesEffect]_vars

\* After its fence, a privatizer has its list for itself: no transaction holds
\* or owns a node of it, not even one that is doomed and has not noticed.
PrivateIsPrivate ==
  \A c \in Clients : tx[c].pc = "fence" /\ tx[c].waits = {} =>
    \A n \in tx[c].priv :
      /\ owner[n] = NoClient
      /\ \A d \in Clients \ {c} : n \notin tx[d].reads \cup {tx[d].prev, tx[d].curr}
===============================================================================
