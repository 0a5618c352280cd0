------------------------------ MODULE RandomGraph ------------------------------
(*****************************************************************************)
(* The undirected graph of RandomGraphList.cpp, one transaction a step: a    *)
(* sorted list of nodes, and for each node a sorted list of its neighbours.  *)
(*                                                                           *)
(* A list (GNodeList) is a sequence of nodes, without the dummy at its head. *)
(* Nodes have an identity besides their value: a list that links a removed   *)
(* node does not link the one that has its value now. The code never frees a *)
(* removed node; the model forgets its fields, and names it again once       *)
(* nothing reaches it.                                                       *)
(*****************************************************************************)
EXTENDS Naturals, Sequences, FiniteSets, SequencesExt, FiniteSetsExt

CONSTANTS
  maxNodes,                   \* values are below this
  CONNECTIONS_PER_NODE        \* links that an insert tries

VARIABLES
  nodes,                      \* the main list
  val,                        \* the value of every node
  neighbors                   \* the neighbour list of every node

Vals == 0 .. (maxNodes - 1)
GNodes == 0 .. (2 * maxNodes)
NoNode == 2 * maxNodes + 1

Init ==
  /\ nodes = <<>>
  /\ val = [n \in GNodes |-> 0]
  /\ neighbors = [n \in GNodes |-> <<>>]

-------------------------------------------------------------------------------
(* The lists: a search stops at the first value that is not smaller.         *)

ValsOf(list, value) == [i \in DOMAIN list |-> value[list[i]]]

Position(list, value, v) == Cardinality({i \in DOMAIN list : value[list[i]] < v}) + 1
IsAt(list, value, v, i) == i \in DOMAIN list /\ value[list[i]] = v

ListLookup(list, value, v) ==
  LET i == Position(list, value, v) IN IF IsAt(list, value, v, i) THEN list[i] ELSE NoNode

ListInsert(list, value, n) ==
  LET i == Position(list, value, value[n])
  IN  IF IsAt(list, value, value[n], i) THEN list ELSE InsertAt(list, i, n)

ListRemove(list, value, v) ==
  LET i == Position(list, value, v)
  IN  IF IsAt(list, value, v, i) THEN RemoveAt(list, i) ELSE list

-------------------------------------------------------------------------------
\* Mutant: the link is one-sided.
LinkedOneWay(links, value, n, peer) == [links EXCEPT ![n] = ListInsert(@, value, peer)]

\* GNode::insert: both ends of a link.
Linked(links, value, n, peer) ==
  LET there == [links EXCEPT ![n] = ListInsert(@, value, peer)]
  IN  [there EXCEPT ![peer] = ListInsert(@, value, n)]

\* GNode::disconnect: the neighbours forget the node.
Disconnected(links, value, n) ==
  [m \in GNodes |-> IF m \in Range(links[n]) THEN ListRemove(links[m], value, value[n])
                    ELSE links[m]]

\* What a thread can still reach.
Reachable == Range(nodes) \cup UNION {Range(neighbors[n]) : n \in Range(nodes)}
NewNode == Min(GNodes \ Reachable)

\* insert: the values to link to are drawn before the transaction.
insert(v, linkups) ==
  LET n == NewNode
      value == [val EXCEPT ![n] = v]
      list == ListInsert(nodes, value, n)
      peers == {ListLookup(list, value, w) : w \in linkups \ {v}} \ {NoNode}
  IN  /\ ListLookup(nodes, val, v) = NoNode
      /\ nodes' = list /\ val' = value
      /\ neighbors' = FoldSet(LAMBDA peer, links : Linked(links, value, n, peer),
                              [neighbors EXCEPT ![n] = <<>>], peers)

\* remove of a value that is there; otherwise, as with an insert of a value that
\* is there, nothing changes.
remove(v) ==
  LET n == ListLookup(nodes, val, v)
  IN  /\ n # NoNode
      /\ nodes' = ListRemove(nodes, val, v)
      /\ neighbors' = [Disconnected(neighbors, val, n) EXCEPT ![n] = <<>>]
      /\ val' = [val EXCEPT ![n] = 0]

random_transaction ==
  \E v \in Vals :
    \/ remove(v)
    \/ \E linkups \in SUBSET Vals : Cardinality(linkups) <= CONNECTIONS_PER_NODE /\ insert(v, linkups)

Spec == Init /\ [][random_transaction]_<<nodes, val, neighbors>>

-------------------------------------------------------------------------------
\* isSane: the lists are sorted, and every neighbour is in the graph and links
\* back. A graph stays undirected, and no list keeps a node that was removed,
\* also when its value has been inserted again.
isSane ==
  /\ IsSorted(ValsOf(nodes, val), <)
  /\ \A n \in Range(nodes) :
       /\ IsSorted(ValsOf(neighbors[n], val), <)
       /\ \A peer \in Range(neighbors[n]) :
            /\ ListLookup(nodes, val, val[peer]) = peer
            /\ ListLookup(neighbors[peer], val, val[n]) = n
===============================================================================
