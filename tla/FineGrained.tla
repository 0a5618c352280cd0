------------------------------ MODULE FineGrained ------------------------------
(*****************************************************************************)
(* The sets that lock instead of running transactions: the list of FGL.cpp   *)
(* with a lock in every node, taken hand over hand; the hash table of such   *)
(* lists; and the hash table of CGHash.cpp, which locks a bucket by its      *)
(* first node. The locks are taken in one step (SpinLocks is about them).    *)
(*****************************************************************************)
EXTENDS Integers, FiniteSets, FiniteSetsExt, Functions, TLC

CONSTANTS
  Clients,                    \* threads
  Vals,                       \* values
  Structures,                 \* of "FineGrainList", "FineGrainHash", "CoarseGrainHash"
  N_BUCKETS

VARIABLES
  structure,                  \* the benchmark's set
  node,                       \* the heap: val, next and lock of what is allocated
  thread                      \* operation, next statement and locals

vars == <<structure, node, thread>>

Null == 0
Heads == 1 .. N_BUCKETS
Addresses == Heads \cup (N_BUCKETS + 1 .. N_BUCKETS + Cardinality(Vals) + Cardinality(Clients))

FGLNode(v, next) == [val |-> v, next |-> next, lock |-> 0]
Idle == [pc |-> "idle", op |-> "none", val |-> 0, left |-> Null, right |-> Null]

Init ==
  /\ structure \in Structures
  /\ node = [n \in Heads |-> FGLNode(-1, Null)]
  /\ thread = [c \in Clients |-> Idle]

Head(v) == IF structure = "FineGrainList" THEN 1 ELSE (v % N_BUCKETS) + 1
PerNode == structure # "CoarseGrainHash"

Acquired(heap, n) == [heap EXCEPT ![n].lock = 1]
Released(heap, S) == [n \in DOMAIN heap |-> [heap[n] EXCEPT !.lock = IF n \in S THEN 0 ELSE @]]

-------------------------------------------------------------------------------
(* The search leaves left and right locked, or the head of the bucket.       *)

Call(c, op, v) ==
  /\ thread[c] = Idle
  /\ thread' = [thread EXCEPT ![c] = [Idle EXCEPT !.pc = "head", !.op = op, !.val = v]]
  /\ UNCHANGED <<structure, node>>

LockHead(c) ==
  LET head == Head(thread[c].val)
  IN  /\ thread[c].pc = "head" /\ node[head].lock = 0
      /\ node' = Acquired(node, head)
      /\ thread' = [thread EXCEPT ![c].pc = "search", ![c].left = head, ![c].right = node[head].next]
      /\ UNCHANGED structure

\* Mutant: left is released before right is locked.
searchLettingGo(c) ==
  LET t == thread[c]
  IN  /\ t.pc = "search"
      /\ \/ /\ t.right # Null /\ PerNode /\ t.left \in DOMAIN node
            /\ node[t.left].lock = 1
            /\ node' = Released(node, {t.left})
            /\ thread' = [thread EXCEPT ![c].left = Null]
         \/ /\ t.right \in DOMAIN node /\ t.left = Null /\ node[t.right].lock = 0
            /\ node' = Acquired(node, t.right)
            /\ thread' = [thread EXCEPT ![c].left = t.right, ![c].right = node[t.right].next]
         \/ t.right = Null /\ thread' = [thread EXCEPT ![c].pc = "act"] /\ UNCHANGED node
      /\ UNCHANGED structure

\* The next node is locked before the last but one is released.
search(c) ==
  LET t == thread[c]
      here == t.right = Null \/ node[t.right].val >= t.val
  IN  /\ t.pc = "search"
      /\ t.right # Null /\ PerNode => node[t.right].lock = 0
      /\ thread' = [thread EXCEPT ![c] =
                      IF here THEN [t EXCEPT !.pc = "act"]
                      ELSE [t EXCEPT !.left = t.right, !.right = node[t.right].next]]
      /\ node' = IF ~PerNode \/ t.right = Null THEN node
                 ELSE Released(Acquired(node, t.right), IF here THEN {} ELSE {t.left})
      /\ UNCHANGED structure

-------------------------------------------------------------------------------
(* The operations, once the place is found.                                  *)

Found(c) == thread[c].right # Null /\ node[thread[c].right].val = thread[c].val
Locks(c) == IF PerNode THEN {thread[c].left, thread[c].right} ELSE {Head(thread[c].val)}

Returns(c, op, heap) ==
  /\ thread[c].pc = "act" /\ thread[c].op = op
  /\ node' = Released(heap, Locks(c))
  /\ thread' = [thread EXCEPT ![c] = Idle]
  /\ UNCHANGED structure

lookup(c) == Returns(c, "lookup", node)

insert(c) ==
  LET new == Min(Addresses \ DOMAIN node)
      linked == (new :> FGLNode(thread[c].val, thread[c].right)) @@ [node EXCEPT ![thread[c].left].next = new]
  IN  Returns(c, "insert", IF Found(c) THEN node ELSE linked)

\* The node is deleted with its lock held: who waits for it would hold left.
remove(c) ==
  LET right == thread[c].right
      unlinked == Restrict([node EXCEPT ![thread[c].left].next = node[right].next],
                           DOMAIN node \ {right})
  IN  Returns(c, "remove", IF Found(c) THEN unlinked ELSE node)

Next == \E c \in Clients :
  \/ \E op \in {"lookup", "insert", "remove"}, v \in Vals : Call(c, op, v)
  \/ LockHead(c) \/ search(c) \/ lookup(c) \/ insert(c) \/ remove(c)

Spec == Init /\ [][Next]_vars

-------------------------------------------------------------------------------
\* A list is sorted, and every value of a bucket hashes to it.
RECURSIVE extendedSanityCheck(_, _, _)
extendedSanityCheck(prev, head, seen) ==
  LET curr == node[prev].next
  IN  \/ curr = Null
      \/ /\ curr \in DOMAIN node \ seen
         /\ node[prev].val < node[curr].val /\ Head(node[curr].val) = head
         /\ extendedSanityCheck(curr, head, seen \cup {curr})

isSane == \A head \in Heads : extendedSanityCheck(head, head, {})

\* What the search of a thread has found stays true until the thread acts on
\* it; the lists stay sane; nobody holds a pointer to a node that was deleted,
\* none is leaked; and of the threads that wait for locks, one can always go on.
Moves(c) ==
  \/ thread[c].pc = "act"
  \/ thread[c].pc = "head" /\ node[Head(thread[c].val)].lock = 0
  \/ thread[c].pc = "search" /\ (thread[c].right = Null \/ ~PerNode \/ node[thread[c].right].lock = 0)
LocksAreEnough ==
  /\ \A c \in Clients : {thread[c].left, thread[c].right} \subseteq DOMAIN node \cup {Null}
  /\ isSane
  /\ \A c \in Clients : thread[c].pc = "act" =>
        (Found(c) <=> \E n \in DOMAIN node \ Heads : node[n].val = thread[c].val)
  /\ \A m, n \in DOMAIN node \ Heads : node[m].val = node[n].val => m = n
  /\ (\E c \in Clients : thread[c] # Idle) => \E c \in Clients : Moves(c)
===============================================================================
