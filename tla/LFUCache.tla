------------------------------- MODULE LFUCache -------------------------------
(*****************************************************************************)
(* The least-frequently-used cache of LFUCache.cpp, one transaction a step:  *)
(* a priority heap of pages, least used at the root, and a table with the    *)
(* heap node of every page. The nodes of the heap are numbered from the root *)
(* down; the dummy node above the root is left out.                          *)
(*****************************************************************************)
EXTENDS Integers, FiniteSets, FiniteSetsExt

CONSTANTS
  Pages,                      \* the elements of the table
  heapDepth,                  \* levels of the heap
  MaxFrequency                \* bound on the hits that are counted

VARIABLES
  heap,                       \* value and frequencyCount of every node
  table,                      \* heapPtr of every page
  hits                        \* history: hits of a page since it was stuffed in

NoPage == -1
Null == 0
Root == 1
Nodes == 1 .. (2 ^ heapDepth - 1)
left(n) == IF 2 * n \in Nodes THEN 2 * n ELSE Null
right(n) == IF 2 * n + 1 \in Nodes THEN 2 * n + 1 ELSE Null

Init ==
  /\ heap = [n \in Nodes |-> [value |-> NoPage, frequencyCount |-> 0]]
  /\ table = [page \in Pages |-> Null]
  /\ hits = [page \in Pages |-> 0]

-------------------------------------------------------------------------------
Frequency(h, n) == h[n].frequencyCount

\* A new page is stuffed into the root, and the page there is kicked out.
Stuffed(state, v) ==
  [heap |-> [state.heap EXCEPT ![Root] = [value |-> v, frequencyCount |-> 1]],
   table |-> [page \in Pages |-> IF page = state.heap[Root].value THEN Null
                                 ELSE state.table[page]]]

Counted(state, v) ==
  [state EXCEPT !.heap[state.table[v]].frequencyCount = @ + 1]

\* Mutant: the table entry of the other page is not moved.
SwappedAlone(state, v, n, child) ==
  [heap |-> [state.heap EXCEPT ![n] = state.heap[child], ![child] = state.heap[n]],
   table |-> [state.table EXCEPT ![v] = child]]

\* The page v moves from a node to a child, and what was there takes its place
\* and its table entry.
SwappedWith(state, v, n, child) ==
  LET other == state.heap[child].value
  IN  [heap |-> [state.heap EXCEPT ![n] = state.heap[child], ![child] = state.heap[n]],
       table |-> [page \in Pages |-> IF page = v THEN child
                                     ELSE IF page = other THEN state.table[v]
                                     ELSE state.table[page]]]

\* The least used child; the right one of two that are used as often.
LeastChild(h, n) ==
  IF Frequency(h, left(n)) < Frequency(h, right(n)) THEN left(n) ELSE right(n)

RECURSIVE Reheapified(_, _, _)
Reheapified(state, v, n) ==
  LET child == LeastChild(state.heap, n)
  IN  IF left(n) = Null THEN state
      ELSE IF \/ Frequency(state.heap, child) < Frequency(state.heap, n)
              \/ Frequency(state.heap, child) = 1
           THEN Reheapified(SwappedWith(state, v, n, child), v, child)
           ELSE state

pageHit(v) ==
  LET now == [heap |-> heap, table |-> table]
      isIn == table[v] # Null
      next == IF isIn THEN Reheapified(Counted(now, v), v, table[v])
              ELSE Reheapified(Stuffed(now, v), v, Root)
      kicked == IF isIn THEN NoPage ELSE heap[Root].value
  IN  /\ isIn => Frequency(heap, table[v]) < MaxFrequency
      /\ heap' = next.heap /\ table' = next.table
      /\ hits' = [page \in Pages |->
                    IF page = v THEN (IF isIn THEN hits[v] + 1 ELSE 1)
                    ELSE IF page = kicked THEN 0 ELSE hits[page]]

Next == \E v \in Pages : pageHit(v)

Spec == Init /\ [][Next]_<<heap, table, hits>>

-------------------------------------------------------------------------------
isSane ==
  \A page \in Pages : LET n == table[page] IN
    n # Null => \A child \in {left(n), right(n)} \ {Null} :
                  Frequency(heap, child) >= Frequency(heap, n)

\* A page has at most one node, and the table points at it; only the root may
\* hold a page that the table has lost, because a page that is stuffed in gets
\* its pointer when it is first swapped. The order of the heap holds even below
\* a page that isSane does not see, and a node counts the hits of its page.
TableFindsThePages ==
  /\ isSane
  /\ \A page \in Pages : table[page] # Null => heap[table[page]].value = page
  /\ \A n \in Nodes \ {Root} : heap[n].value # NoPage => table[heap[n].value] = n
  /\ \A n \in Nodes, m \in Nodes : heap[n].value = heap[m].value /\ n # m
        => heap[n].value = NoPage
  /\ \A n \in Nodes : left(n) # Null
        => Frequency(heap, n) <= Frequency(heap, LeastChild(heap, n))
  /\ \A n \in Nodes : heap[n].value # NoPage => Frequency(heap, n) = hits[heap[n].value]
===============================================================================
