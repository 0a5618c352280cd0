----------------------------- MODULE JobDequeSpec -----------------------------
(*****************************************************************************)
(* One queue of jobs as an abstract machine: what JobQueue, the linked list  *)
(* of Queue.cpp, is shown to implement.                                      *)
(*****************************************************************************)
EXTENDS JobDeque

CONSTANT MaxLength     \* bound on the number of jobs in the queue

VARIABLES
  q,                   \* the queue, a QueueType record
  crashed              \* a NULL pointer was dereferenced

Init == q = EmptyQueue /\ crashed = FALSE

PushBack(j) ==
  /\ ~crashed
  /\ Size(q) < MaxLength
  /\ IF q.lost
     THEN crashed' = TRUE /\ UNCHANGED q
     ELSE q' = Push(q, j) /\ UNCHANGED crashed

PushAtFront(j) ==
  /\ ~crashed
  /\ Size(q) < MaxLength
  /\ q' = PushFront(q, j)
  /\ UNCHANGED crashed

PopFront ==
  /\ ~crashed
  /\ ~IsEmpty(q)
  /\ q' = Pop(q)
  /\ UNCHANGED crashed

Next ==
  \/ \E j \in Jobs : PushBack(j) \/ PushAtFront(j)
  \/ PopFront

Spec == Init /\ [][Next]_<<q, crashed>>
===============================================================================
