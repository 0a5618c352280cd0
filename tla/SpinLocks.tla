------------------------------- MODULE SpinLocks -------------------------------
(*****************************************************************************)
(* The locks of atomic_ops.h, the lock of the mesh (lock.h) that counts its  *)
(* holders, and the transactions of cgl.h, which are critical sections of    *)
(* one of these locks. A step is one access to a shared word; a spin loop is *)
(* a step that waits for its condition.                                      *)
(*****************************************************************************)
EXTENDS Naturals, FiniteSets

CONSTANTS
  Clients,                    \* threads
  Kinds,                      \* of "tatas", "ticket", "mcs", "d_lock"
  Words,                      \* a ticket is a word: tickets wrap around
  NoNode                      \* a null queue node

VARIABLES
  kind,                       \* the lock that the build uses
  word,                       \* tatas: the lock; d_lock: its mutex
  count,                      \* d_lock: its count
  next_ticket, now_serving,   \* ticket
  tail,                       \* MCS: the lock
  flag, next,                 \* MCS: the node of every thread
  pc,                         \* the next statement of every thread
  my                          \* its local: a ticket, or a predecessor

vars == <<kind, word, count, next_ticket, now_serving, tail, flag, next, pc, my>>
numbers == <<word, count, next_ticket, now_serving>>
queue == <<tail, flag, next>>

Init ==
  /\ kind \in Kinds
  /\ word = 0 /\ count = 0 /\ next_ticket = 0 /\ now_serving = 0
  /\ tail = NoNode
  /\ flag = [c \in Clients |-> FALSE]
  /\ next = [c \in Clients |-> NoNode]
  /\ pc = [c \in Clients |-> "outside"]
  /\ my = [c \in Clients |-> 0]

\* From one statement to the next.
Step(c, from, to) == pc[c] = from /\ pc' = [pc EXCEPT ![c] = to] /\ UNCHANGED kind

-------------------------------------------------------------------------------
(* The test-and-test-and-set lock, and the lock of the mesh on top of it.    *)

IsWord == kind \in {"tatas", "d_lock"}

tatas_acquire(c) ==
  /\ IsWord /\ word = 0
  /\ Step(c, "outside", IF kind = "d_lock" THEN "count" ELSE "inside")
  /\ word' = 1
  /\ UNCHANGED <<count, next_ticket, now_serving, queue, my>>

CountUp(c) ==
  /\ Step(c, "count", "inside")
  /\ count' = count + 1
  /\ UNCHANGED <<word, next_ticket, now_serving, queue, my>>

CountDown(c) ==
  /\ kind = "d_lock"
  /\ Step(c, "inside", IF count = 1 THEN "unlock" ELSE "outside")
  /\ count' = count - 1
  /\ UNCHANGED <<word, next_ticket, now_serving, queue, my>>

tatas_release(c) ==
  /\ IsWord
  /\ Step(c, IF kind = "d_lock" THEN "unlock" ELSE "inside", "outside")
  /\ word' = 0
  /\ UNCHANGED <<count, next_ticket, now_serving, queue, my>>

-------------------------------------------------------------------------------
(* The ticket lock. fai is a load and a loop of CASes.                       *)

LoadTicket(c) ==
  /\ kind = "ticket" /\ Step(c, "outside", "fai")
  /\ my' = [my EXCEPT ![c] = next_ticket]
  /\ UNCHANGED <<numbers, queue>>

\* Mutant: the increment is a store.
faiByStore(c) ==
  /\ Step(c, "fai", "spin")
  /\ next_ticket' = (my[c] + 1) % Words
  /\ UNCHANGED <<word, count, now_serving, queue, my>>

\* The CAS of fai: it hands out the ticket, or the value that it found is tried.
fai(c) ==
  /\ Step(c, "fai", IF next_ticket = my[c] THEN "spin" ELSE "fai")
  /\ next_ticket' = IF next_ticket = my[c] THEN (my[c] + 1) % Words ELSE next_ticket
  /\ my' = [my EXCEPT ![c] = next_ticket]
  /\ UNCHANGED <<word, count, now_serving, queue>>

ticket_acquire(c) ==
  /\ kind = "ticket" /\ Step(c, "spin", "inside")
  /\ now_serving = my[c]
  /\ UNCHANGED <<numbers, queue, my>>

ticket_release(c) ==
  /\ kind = "ticket" /\ Step(c, "inside", "outside")
  /\ now_serving' = (now_serving + 1) % Words
  /\ UNCHANGED <<word, count, next_ticket, queue, my>>

-------------------------------------------------------------------------------
(* The MCS lock: a queue of threads, each of which spins on its own node.    *)

mcs_acquire(c) ==
  /\ kind = "mcs" /\ Step(c, "outside", "swap")
  /\ next' = [next EXCEPT ![c] = NoNode]
  /\ UNCHANGED <<numbers, tail, flag, my>>

SwapTail(c) ==
  /\ Step(c, "swap", IF tail = NoNode THEN "inside" ELSE "flag")
  /\ my' = [my EXCEPT ![c] = tail] /\ tail' = c
  /\ UNCHANGED <<numbers, flag, next>>

SetFlag(c) ==
  /\ Step(c, "flag", "link")
  /\ flag' = [flag EXCEPT ![c] = TRUE]
  /\ UNCHANGED <<numbers, tail, next, my>>

\* Mutant: the node is linked before its flag is set.
LinkThenFlag(c) ==
  /\ \/ /\ Step(c, "flag", "link")
        /\ next' = [next EXCEPT ![my[c]] = c] /\ UNCHANGED flag
     \/ /\ Step(c, "link", "mcs spin")
        /\ flag' = [flag EXCEPT ![c] = TRUE] /\ UNCHANGED next
  /\ UNCHANGED <<numbers, tail, my>>

Enqueue(c) ==
  SetFlag(c) \/ ( /\ Step(c, "link", "mcs spin")
                  /\ next' = [next EXCEPT ![my[c]] = c]
                  /\ UNCHANGED <<numbers, tail, flag, my>> )

SpinOnFlag(c) ==
  /\ Step(c, "mcs spin", "inside") /\ ~flag[c]
  /\ UNCHANGED <<numbers, queue, my>>

\* Without a successor the lock is freed by a CAS; if that fails, a thread is
\* about to link itself.
mcs_release(c) ==
  /\ kind = "mcs"
  /\ Step(c, "inside", IF next[c] = NoNode THEN "cas" ELSE "wake")
  /\ UNCHANGED <<numbers, queue, my>>

FreeByCas(c) ==
  /\ Step(c, "cas", IF tail = c THEN "outside" ELSE "await next")
  /\ tail' = IF tail = c THEN NoNode ELSE tail
  /\ UNCHANGED <<numbers, flag, next, my>>

AwaitNext(c) ==
  /\ Step(c, "await next", "wake") /\ next[c] # NoNode
  /\ UNCHANGED <<numbers, queue, my>>

Wake(c) ==
  /\ Step(c, "wake", "outside")
  /\ flag' = [flag EXCEPT ![next[c]] = FALSE]
  /\ UNCHANGED <<numbers, tail, next, my>>

-------------------------------------------------------------------------------
\* BEGIN_TRANSACTION of cgl, and END_TRANSACTION.
begin_transaction(c) ==
  \/ tatas_acquire(c) \/ CountUp(c)
  \/ LoadTicket(c) \/ fai(c) \/ ticket_acquire(c)
  \/ mcs_acquire(c) \/ SwapTail(c) \/ Enqueue(c) \/ SpinOnFlag(c)
end_transaction(c) ==
  \/ CountDown(c) \/ tatas_release(c) \/ ticket_release(c)
  \/ mcs_release(c) \/ FreeByCas(c) \/ AwaitNext(c) \/ Wake(c)

Next == \E c \in Clients : begin_transaction(c) \/ end_transaction(c)

Spec == Init /\ [][Next]_vars

-------------------------------------------------------------------------------
\* One thread at a time holds the lock, on every path through acquire and
\* release; and the threads never all wait: whatever the interleaving of a
\* release with an acquire that has half linked itself, some thread can move.
Holders == {c \in Clients : pc[c] \in {"inside", "count", "unlock", "cas", "await next", "wake"}}
OneHolderAndNoStall ==
  /\ Cardinality({c \in Holders : pc[c] # "cas" \/ tail = c}) <= 1
  /\ ENABLED Next
===============================================================================
