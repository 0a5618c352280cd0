------------------------------ MODULE RBTreeLarge ------------------------------
(*****************************************************************************)
(* RBTreeLarge.cpp repeats RBTree.cpp for nodes that carry 1024 words of     *)
(* padding, so that a copy is expensive. The padding is not modelled: what   *)
(* is left is the algorithm of RedBlackTree, statement by statement.         *)
(*****************************************************************************)
EXTENDS Integers

CONSTANT Keys
VARIABLES node, keys

Tree == INSTANCE RedBlackTree

RBNodeLarge(color, val) == Tree!RBNode(color, val)
Removed(h, v) == Tree!Removed(h, v)

Init == node = [a \in {Tree!Sentinel} |-> RBNodeLarge("BLACK", -1)] /\ keys = {}

lookup(v) == Tree!lookup(v)
insert(v) == Tree!insert(v)
remove(v) == node' = Removed(node, v) /\ keys' = keys \ {v}

Next == \E v \in Keys : insert(v) \/ remove(v)

Spec == Init /\ [][Next]_<<node, keys>>

isSane == Tree!isSane

\* The tree is the set, as that of RBTree.cpp is.
IsTheSet == isSane /\ Tree!IsTheSet
===============================================================================
