------------------------------- MODULE JobQueue -------------------------------
(*****************************************************************************)
(* The linked list of stm/scheduler/Queue.{h,cpp}, at the level of its       *)
(* nodes and pointers. Its callers hold the queue's lock around every        *)
(* operation, so each operation is one step. A node is any element of Nodes  *)
(* not in use: new and delete are modelled by the set of allocated nodes.    *)
(*****************************************************************************)
EXTENDS Naturals, Sequences, FiniteSets

CONSTANTS
  Jobs,                \* InnerJob objects, the values of the queue
  Nodes,               \* heap cells for Queue::Node; their number bounds the length
  NULL                 \* the pointer 0

ASSUME NullAssumption == NULL \notin Nodes
ASSUME NodesAssumption == IsFiniteSet(Nodes)

VARIABLES
  first, last,         \* the ends of the list, NULL when there is none
  next, data,          \* the fields of every cell
  allocated,           \* cells that are nodes of the list
  size,                \* mySize
  crashed              \* a NULL pointer was dereferenced

vars == <<first, last, next, data, allocated, size, crashed>>

Pointer == Nodes \cup {NULL}

Init ==
  /\ first = NULL /\ last = NULL
  /\ next = [n \in Nodes |-> NULL]
  /\ data \in [Nodes -> Jobs]      \* contents of cells nobody has written
  /\ allocated = {}
  /\ size = 0
  /\ crashed = FALSE

empty == first = NULL

-------------------------------------------------------------------------------
(* Operations. *)

\* push: links the new node after last when the list is not empty. When last
\* is NULL there the store to last->next is a NULL dereference.
push(j) ==
  /\ ~crashed
  /\ \E temp \in Nodes \ allocated :
       IF ~empty /\ last = NULL
       THEN /\ crashed' = TRUE
            /\ UNCHANGED <<first, last, next, data, allocated, size>>
       ELSE /\ data' = [data EXCEPT ![temp] = j]
            /\ next' = [n \in Nodes |-> CASE n = temp -> NULL
                                          [] n = last -> temp
                                          [] OTHER    -> next[n]]
            /\ first' = IF empty THEN temp ELSE first
            /\ last' = temp
            /\ allocated' = allocated \cup {temp}
            /\ size' = size + 1
            /\ UNCHANGED crashed

\* A mutant of pushFront: the new node is not linked to the list.
pushFrontUnlinked(j) ==
  /\ ~crashed
  /\ \E temp \in Nodes \ allocated :
       /\ data' = [data EXCEPT ![temp] = j]
       /\ next' = [next EXCEPT ![temp] = NULL]
       /\ first' = temp
       /\ last' = last
       /\ allocated' = allocated \cup {temp}
       /\ size' = size + 1
       /\ UNCHANGED crashed

\* pushFront: first is assigned before empty() is tested the second time, so
\* the assignment to last is never reached.
pushFront(j) ==
  /\ ~crashed
  /\ \E temp \in Nodes \ allocated :
       /\ data' = [data EXCEPT ![temp] = j]
       /\ next' = [next EXCEPT ![temp] = first]
       /\ first' = temp
       /\ last' = IF first' = NULL THEN temp ELSE last
       /\ allocated' = allocated \cup {temp}
       /\ size' = size + 1
       /\ UNCHANGED crashed

\* A mutant of pop: last keeps pointing at the node that is deleted.
popKeepingLast ==
  /\ ~crashed
  /\ ~empty
  /\ first' = next[first]
  /\ last' = last
  /\ allocated' = allocated \ {first}
  /\ size' = size - 1
  /\ UNCHANGED <<next, data, crashed>>

\* A mutant of pop: last is cleared although nodes remain.
popForgettingLast ==
  /\ ~crashed
  /\ ~empty
  /\ first' = next[first]
  /\ last' = NULL
  /\ allocated' = allocated \ {first}
  /\ size' = size - 1
  /\ UNCHANGED <<next, data, crashed>>

\* A mutant of pop: the size is decremented when the list is empty, too.
popCounting ==
  /\ ~crashed
  /\ first' = IF empty THEN NULL ELSE next[first]
  /\ last' = IF first' = NULL THEN NULL ELSE last
  /\ allocated' = allocated \ {first}
  /\ size' = size - 1
  /\ UNCHANGED <<next, data, crashed>>

\* pop: deletes the first node, and clears last when the list becomes empty.
pop ==
  /\ ~crashed
  /\ ~empty
  /\ first' = next[first]
  /\ last' = IF first' = NULL THEN NULL ELSE last
  /\ allocated' = allocated \ {first}
  /\ size' = size - 1
  /\ UNCHANGED <<next, data, crashed>>

Next ==
  \/ \E j \in Jobs : push(j)
  \/ \E j \in Jobs : pushFront(j)
  \/ pop

Spec == Init /\ [][Next]_vars

-------------------------------------------------------------------------------
(* The jobs of the list, in the order its next pointers give. *)

NodeAt[i \in Nat] ==
  IF i <= 1 THEN first ELSE next[NodeAt[i - 1]]

Items == [i \in 1..size |-> data[NodeAt[i]]]

Lost == first # NULL /\ last = NULL

Deque == INSTANCE JobDequeSpec WITH
           q <- [items |-> Items, lost |-> Lost],
           MaxLength <- Cardinality(Nodes)

-------------------------------------------------------------------------------
(* Properties. *)

TypeOK ==
  /\ first \in Pointer /\ last \in Pointer
  /\ next \in [Nodes -> Pointer]
  /\ data \in [Nodes -> Jobs]
  /\ allocated \subseteq Nodes
  /\ size \in Nat
  /\ crashed \in BOOLEAN

\* The nodes reached from first are exactly the allocated ones, each once, and
\* the last of them ends the list: no push, pushFront or pop leaks a node,
\* links a deleted one or closes a cycle (Queue.cpp:42-102).
ListIsTheHeap ==
  /\ size = Cardinality(allocated)
  /\ {NodeAt[i] : i \in 1..size} = allocated
  /\ ~empty => next[NodeAt[size]] = NULL

\* last is NULL or the end of the list, whatever was pushed at either end, so
\* that a push that does not crash never overwrites a link (Queue.cpp:49-57).
LastIsTheEnd == last # NULL => last = NodeAt[size]

\* The linked list behaves as the abstract queue of JobDeque: the order of
\* the jobs, and the calls that crash.
ImplementsDeque == Deque!Spec
===============================================================================
