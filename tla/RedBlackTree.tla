----------------------------- MODULE RedBlackTree -----------------------------
(*****************************************************************************)
(* The red-black tree of RBTree.cpp, one operation a step: its operations    *)
(* are transactions, and Rstm and RedoLock are about their concurrency.      *)
(*                                                                           *)
(* A heap maps the nodes that are allocated to their fields. The tree hangs  *)
(* from child 0 of the sentinel. A node that is allocated takes the lowest   *)
(* free address.                                                             *)
(*****************************************************************************)
EXTENDS Integers, FiniteSets, FiniteSetsExt, Functions, TLC

CONSTANT Keys                 \* the values that are looked up, inserted, removed

VARIABLES
  node,                       \* the heap: the allocated nodes and their fields
  keys                        \* history: the values that are in the set

Null == 0
Sentinel == 1
Addresses == 2 .. (Cardinality(Keys) + 1)

\* The constructor leaves m_ID unset: the sentinel's is never read.
RBNode(color, val) ==
  [color |-> color, val |-> val, parent |-> Null, ID |-> 0,
   child |-> [side \in 0 .. 1 |-> Null]]

Init == node = (Sentinel :> RBNode("BLACK", -1)) /\ keys = {}

-------------------------------------------------------------------------------
(* Helpers. They take a heap and give the heap that they leave.              *)

setChild(h, n, side, c) ==
  LET linked == [h EXCEPT ![n].child[side] = c]
  IN  IF c = Null THEN linked ELSE [linked EXCEPT ![c].parent = n, ![c].ID = side]

Colour(h, n, color) == [h EXCEPT ![n].color = color]
IsRed(h, n) == n # Null /\ h[n].color = "RED"

\* A node takes the place of its parent.
promote(h, n) ==
  LET parent == h[n].parent
      nodeID == h[n].ID
      below == setChild(h, parent, nodeID, h[n].child[1 - nodeID])
  IN  setChild(setChild(below, n, 1 - nodeID, parent),
               h[parent].parent, h[parent].ID, n)

SideOf(v, val) == IF v < val THEN 0 ELSE 1

RECURSIVE Find(_, _, _)
Find(h, x, v) ==
  IF x = Null \/ h[x].val = v THEN x
  ELSE Find(h, h[x].child[SideOf(v, h[x].val)], v)

\* The last node on the way to v before v or the end, and the side taken there.
RECURSIVE Descend(_, _, _, _)
Descend(h, x, side, v) ==
  LET c == h[x].child[side]
  IN  IF c = Null \/ h[c].val = v THEN <<x, side>>
      ELSE Descend(h, c, SideOf(v, h[c].val), v)

RECURSIVE Leftmost(_, _)
Leftmost(h, y) == IF h[y].child[0] = Null THEN y ELSE Leftmost(h, h[y].child[0])

-------------------------------------------------------------------------------
(* lookup and insert.                                                        *)

lookup(v) == Find(node, node[Sentinel].child[0], v) # Null

\* The loop that balances the tree above the red node cx.
RECURSIVE BalanceAbove(_, _)
BalanceAbove(h, cx) ==
  LET x == h[cx].parent
      px == h[x].parent
      y == h[px].child[1 - h[x].ID]
      isInner == h[cx].ID # h[x].ID
      top == IF isInner THEN cx ELSE x
      bottom == IF isInner THEN x ELSE cx
      straight == IF isInner THEN promote(h, cx) ELSE h
  IN  IF px = Sentinel \/ h[x].color = "BLACK" THEN h
      ELSE IF IsRed(h, y)
           THEN BalanceAbove(Colour(Colour(Colour(h, x, "BLACK"), y, "BLACK"), px, "RED"), px)
           ELSE BalanceAbove(promote(Colour(Colour(straight, top, "BLACK"), px, "RED"), top),
                             bottom)

Blacken(h) ==
  LET root == h[Sentinel].child[0] IN IF IsRed(h, root) THEN Colour(h, root, "BLACK") ELSE h

Inserted(h, v) ==
  LET place == Descend(h, Sentinel, 0, v)
      cx == Min(Addresses \ DOMAIN h)
      added == setChild((cx :> RBNode("RED", v)) @@ h, place[1], place[2], cx)
  IN  IF h[place[1]].child[place[2]] # Null THEN h ELSE Blacken(BalanceAbove(added, cx))

insert(v) == node' = Inserted(node, v) /\ keys' = keys \cup {v}

-------------------------------------------------------------------------------
(* remove. The node that leaves the tree keeps its parent and its side while *)
(* the black heights are repaired, and stands for the hole that it left.     *)

\* s, the sibling of y, is black and its far nephew of y is red.
FarNephew(h, y, s) ==
  LET p == h[y].parent
      n == h[s].child[1 - h[y].ID]
  IN  promote(Colour(Colour(Colour(h, s, h[p].color), p, "BLACK"), n, "BLACK"), s)

\* The loop that moves the missing black up from y. It gives the heap and the
\* node at which it stops.
RECURSIVE MoveUp(_, _)
MoveUp(h, y) ==
  LET p == h[y].parent
      side == h[y].ID
      redSibling == IsRed(h, h[p].child[1 - side])
      lifted == IF redSibling
                THEN promote(Colour(Colour(h, p, "RED"), h[p].child[1 - side], "BLACK"),
                             h[p].child[1 - side])
                ELSE h
      s == lifted[p].child[1 - side]
      far == lifted[s].child[1 - side]
      near == lifted[s].child[side]
  IN  IF p = Sentinel \/ h[y].color = "RED" THEN [heap |-> h, at |-> y]
      ELSE IF IsRed(lifted, far) THEN [heap |-> FarNephew(lifted, y, s), at |-> y]
      ELSE IF IsRed(lifted, near)
           THEN [heap |-> FarNephew(promote(Colour(Colour(lifted, s, "RED"), near, "BLACK"), near),
                                    y, near),
                 at |-> y]
      ELSE MoveUp(Colour(lifted, s, "RED"), p)

\* Mutant: the right child is taken for the successor.
LeaverOrRightChild(h, x) == IF Null \in Range(h[x].child) THEN x ELSE h[x].child[1]

\* The node that leaves: that of v, or its successor if it has two children,
\* whose value is moved first.
Leaver(h, x) ==
  IF Null \in Range(h[x].child) THEN x ELSE Leftmost(h, h[x].child[1])

Spliced(h, x, c) ==
  LET out == setChild(h, h[x].parent, h[x].ID, c)
  IN  IF h[x].color = "BLACK" /\ IsRed(h, c) THEN Colour(Colour(out, x, "RED"), c, "BLACK")
      ELSE out

Removed(h, v) ==
  LET found == Find(h, h[Sentinel].child[0], v)
      x == Leaver(h, found)
      moved == [h EXCEPT ![found].val = h[x].val]
      c == h[x].child[IF h[x].child[0] # Null THEN 0 ELSE 1]
      up == MoveUp(Spliced(moved, x, c), x)
      fixed == Colour(up.heap, up.at, "BLACK")
      freed == setChild(fixed, fixed[x].parent, fixed[x].ID, c)
  IN  IF found = Null THEN h ELSE Restrict(freed, DOMAIN h \ {x})

remove(v) == node' = Removed(node, v) /\ keys' = keys \ {v}

Next == \E v \in Keys : insert(v) \/ remove(v)

Spec == Init /\ [][Next]_<<node, keys>>

-------------------------------------------------------------------------------
(* What isSane checks, and that the tree is the set.                         *)

RECURSIVE blackHeight(_)
blackHeight(x) ==
  LET below == [side \in 0 .. 1 |-> blackHeight(node[x].child[side])]
  IN  IF x = Null THEN 0
      ELSE IF below[0] >= 0 /\ below[1] = below[0]
           THEN below[0] + (IF node[x].color = "BLACK" THEN 1 ELSE 0)
           ELSE -1

RECURSIVE redViolation(_, _)
redViolation(p, x) ==
  /\ x # Null
  /\ \/ IsRed(node, p) /\ IsRed(node, x)
     \/ \E side \in 0 .. 1 : redViolation(x, node[x].child[side])

RECURSIVE validParents(_, _, _)
validParents(p, xID, x) ==
  \/ x = Null
  \/ /\ node[x].parent = p /\ node[x].ID = xID
     /\ \A side \in 0 .. 1 : validParents(x, side, node[x].child[side])

RECURSIVE inOrder(_, _, _)
inOrder(x, lowerBound, upperBound) ==
  \/ x = Null
  \/ /\ node[x].val \in lowerBound .. upperBound
     /\ inOrder(node[x].child[0], lowerBound, node[x].val - 1)
     /\ inOrder(node[x].child[1], node[x].val + 1, upperBound)

isSane ==
  LET root == node[Sentinel].child[0]
  IN  root # Null =>
        /\ node[root].color = "BLACK"
        /\ blackHeight(root) >= 0
        /\ ~redViolation(Sentinel, root)
        /\ validParents(Sentinel, 0, root)
        /\ inOrder(root, Min(Keys), Max(Keys))

\* Whatever was inserted and removed before, the tree is sane, lookup finds the
\* values that are in the set and no others, and the heap holds one node for
\* each: none is leaked, and none is deleted while it is linked.
IsTheSet ==
  /\ isSane
  /\ \A v \in Keys : lookup(v) <=> v \in keys
  /\ {node[n].val : n \in DOMAIN node \ {Sentinel}} = keys
  /\ Cardinality(DOMAIN node) = Cardinality(keys) + 1
===============================================================================
