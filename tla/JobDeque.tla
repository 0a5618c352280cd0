------------------------------- MODULE JobDeque -------------------------------
(*****************************************************************************)
(* What stm/scheduler/Queue promises the scheduler: a queue of jobs that is  *)
(* pushed at the back by addJob and moveJobToROQueue, at the front by        *)
(* moveJob, and popped at the front by the runner that serves it.            *)
(*                                                                           *)
(* A queue is the record                                                     *)
(*   items : the jobs, front first                                           *)
(*   lost  : TRUE when the queue is not empty and its last pointer is NULL,  *)
(*           so that the next push dereferences NULL.                        *)
(* JobDequeSpec is the specification of one such queue, and JobQueue the      *)
(* linked list of the code, which implements it.                             *)
(*****************************************************************************)
EXTENDS Sequences, Naturals

CONSTANT Jobs          \* the InnerJob objects

QueueType == [items : Seq(Jobs), lost : BOOLEAN]

EmptyQueue == [items |-> <<>>, lost |-> FALSE]

IsEmpty(q) == q.items = <<>>

Size(q) == Len(q.items)

\* Queue::front, undefined on an empty queue (first is NULL).
Front(q) == Head(q.items)

\* Queue::push on a queue that has a last node.
Push(q, j) == [items |-> Append(q.items, j), lost |-> q.lost]

\* Queue::pushFront: on an empty queue the second empty() test comes after
\* first was assigned, so last keeps its NULL.
PushFront(q, j) == [items |-> <<j>> \o q.items, lost |-> q.lost \/ IsEmpty(q)]

\* Queue::pop on a non-empty queue; it clears last when it empties the list.
Pop(q) == [items |-> Tail(q.items), lost |-> q.lost /\ Len(q.items) > 1]
===============================================================================
