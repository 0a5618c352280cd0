---------------------------- MODULE JobQueue_proofs ---------------------------
(*****************************************************************************)
(* Theorems about JobQueue, the linked list of Queue.cpp, for every set of   *)
(* jobs and every finite heap: its pointers are a list, and the list is the  *)
(* abstract queue of JobDequeSpec.                                           *)
(*****************************************************************************)
EXTENDS JobQueue, NatFacts, FiniteSetTheorems

-------------------------------------------------------------------------------
(* The recursive function NodeAt is what its definition says, in a state and *)
(* in the next one.                                                          *)

\* The first node is first, and each following one is next of the one before.
LEMMA NodeAtIs ==
  /\ NodeAt[1] = first
  /\ \A i \in Nat : i >= 1 => NodeAt[i + 1] = next[NodeAt[i]]
<1>1. NodeAt = [i \in Nat |-> IF i <= 1 THEN first ELSE next[NodeAt[i - 1]]]
  <2>1. \E g : g = [i \in Nat |-> IF i <= 1 THEN first ELSE next[g[i - 1]]]
    <3>1. PICK g : Iterates(g, first, next)
      BY IterationExists, Zenon
    <3>2. g = [i \in Nat |-> IF i <= 1 THEN first ELSE next[g[i - 1]]]
      BY <3>1 DEF Iterates
    <3>3. QED
      BY <3>2
  <2>2. QED
    BY <2>1 DEF NodeAt
<1>2. ASSUME NEW i \in Nat PROVE NodeAt[i] = IF i <= 1 THEN first ELSE next[NodeAt[i - 1]]
  BY <1>1
<1>3. ASSUME NEW i \in Nat, i >= 1 PROVE NodeAt[i + 1] = next[NodeAt[i]]
  <2>1. i + 1 \in Nat /\ ~(i + 1 <= 1) /\ (i + 1) - 1 = i
    BY <1>3
  <2>2. QED
    BY <2>1, <1>2
<1>4. QED
  BY <1>2, <1>3

\* The same of the pointers of the next state.
LEMMA NodeAtIsNext ==
  /\ NodeAt'[1] = first'
  /\ \A i \in Nat : i >= 1 => NodeAt'[i + 1] = next'[NodeAt'[i]]
<1>1. NodeAt' = [i \in Nat |-> IF i <= 1 THEN first' ELSE next'[NodeAt'[i - 1]]]
  <2>1. \E g : g = [i \in Nat |-> IF i <= 1 THEN first' ELSE next'[g[i - 1]]]
    <3>1. PICK g : Iterates(g, first', next')
      BY IterationExists, Zenon
    <3>2. g = [i \in Nat |-> IF i <= 1 THEN first' ELSE next'[g[i - 1]]]
      BY <3>1 DEF Iterates
    <3>3. QED
      BY <3>2
  <2>2. QED
    BY <2>1 DEF NodeAt
<1>2. ASSUME NEW i \in Nat PROVE NodeAt'[i] = IF i <= 1 THEN first' ELSE next'[NodeAt'[i - 1]]
  BY <1>1
<1>3. ASSUME NEW i \in Nat, i >= 1 PROVE NodeAt'[i + 1] = next'[NodeAt'[i]]
  <2>1. i + 1 \in Nat /\ ~(i + 1 <= 1) /\ (i + 1) - 1 = i
    BY <1>3
  <2>2. QED
    BY <2>1, <1>2
<1>4. QED
  BY <1>2, <1>3

-------------------------------------------------------------------------------
(* The inductive invariant: the nodes reached from first are the allocated   *)
(* ones, each once, the last of them points to NULL, and last is NULL or     *)
(* that one. That they are distinct is not among the checked invariants; it  *)
(* is why linking a node behind the last one disturbs no other link.         *)

ChainInv ==
  /\ IsFiniteSet(allocated) /\ size = Cardinality(allocated)
  /\ \A i \in 1 .. size : NodeAt[i] \in allocated
  /\ \A n \in allocated : \E i \in 1 .. size : NodeAt[i] = n
  /\ \A i, k \in 1 .. size : NodeAt[i] = NodeAt[k] => i = k
  /\ size > 0 => next[NodeAt[size]] = NULL
  /\ first = NULL <=> size = 0
  /\ last # NULL => size > 0 /\ last = NodeAt[size]

Inv == TypeOK /\ ChainInv

\* The invariant implies the properties that TLC checks.
LEMMA InvImplies == Inv => ListIsTheHeap /\ LastIsTheEnd
<1> SUFFICES ASSUME Inv PROVE ListIsTheHeap /\ LastIsTheEnd
  OBVIOUS
<1>1. size \in Nat
  BY DEF Inv, TypeOK
<1>2. {NodeAt[i] : i \in 1 .. size} = allocated
  BY DEF Inv, ChainInv
<1>3. QED
  BY <1>1, <1>2 DEF Inv, ChainInv, ListIsTheHeap, LastIsTheEnd, empty

\* The queue is constructed empty (Queue.h:95).
LEMMA InvInit == Init => Inv
<1> SUFFICES ASSUME Init PROVE Inv
  OBVIOUS
<1>1. IsFiniteSet(allocated) /\ size = Cardinality(allocated)
  BY FS_EmptySet DEF Init
<1>2. TypeOK
  BY DEF Init, TypeOK, Pointer
<1>3. ChainInv
  BY <1>1 DEF Init, ChainInv
<1>4. QED
  BY <1>2, <1>3 DEF Inv

\* A push that crashes leaves the list as it was.
LEMMA SameChain ==
  Inv /\ UNCHANGED <<first, last, next, data, allocated, size>> /\ crashed' \in BOOLEAN
    => Inv'
<1> SUFFICES ASSUME Inv, crashed' \in BOOLEAN,
                    UNCHANGED <<first, last, next, data, allocated, size>>
             PROVE  Inv'
  OBVIOUS
<1>1. NodeAt' = NodeAt
  BY DEF NodeAt
<1>2. QED
  BY <1>1 DEF Inv, TypeOK, ChainInv

\* The first node of a list that is not empty is an allocated one.
LEMMA FirstIsFirst ==
  ASSUME Inv
  PROVE  /\ size > 0 => 1 \in 1 .. size /\ first = NodeAt[1] /\ first \in allocated
         /\ size \in Nat
         /\ NULL \notin allocated
  BY NodeAtIs, NullAssumption DEF Inv, ChainInv, TypeOK

-------------------------------------------------------------------------------
(* What the operations do to the chain.                                      *)

\* push leaves every node where it is and appends the new one: the store to
\* last->next overwrites the NULL at the end and no other link
\* (Queue.cpp:42-59).
LEMMA PushChain ==
  ASSUME Inv, NEW j \in Jobs, NEW temp \in Nodes \ allocated,
         first = NULL \/ last # NULL,
         next' = [n \in Nodes |-> CASE n = temp -> NULL
                                    [] n = last -> temp
                                    [] OTHER    -> next[n]],
         first' = IF first = NULL THEN temp ELSE first
  PROVE  /\ \A i \in 1 .. size : NodeAt'[i] = NodeAt[i]
         /\ NodeAt'[size + 1] = temp
         /\ next'[temp] = NULL
<1>0. size \in Nat /\ NULL \notin allocated
  BY FirstIsFirst
<1>a. next'[temp] = NULL
  <2>1. last # NULL => last \in allocated
    BY <1>0 DEF Inv, ChainInv
  <2>2. temp # last
    BY <2>1, NullAssumption
  <2>3. QED
    BY <2>2
<1>1. CASE first = NULL
  <2>1. size = 0 /\ first' = temp
    BY <1>1 DEF Inv, ChainInv
  <2>2. NodeAt'[size + 1] = temp
    BY <2>1, NodeAtIsNext
  <2>3. QED
    BY <1>a, <2>1, <2>2
<1>2. CASE first # NULL
  <2>1. size > 0 /\ first' = first /\ last = NodeAt[size] /\ last # NULL
    BY <1>2, <1>0 DEF Inv, ChainInv
  <2> DEFINE S == {i \in 1 .. size : NodeAt'[i] = NodeAt[i]}
  <2>2. 1 \in S
    BY <1>0, <2>1, NodeAtIs, NodeAtIsNext
  <2>3. ASSUME NEW i \in Nat, 1 <= i, i < size, i \in S PROVE i + 1 \in S
    <3>1. NodeAt[i] \in allocated /\ NodeAt[i] # last /\ NodeAt[i] # temp /\ NodeAt[i] \in Nodes
      BY <2>1, <2>3 DEF Inv, ChainInv, TypeOK
    <3>2. next'[NodeAt[i]] = next[NodeAt[i]]
      BY <3>1
    <3>3. i + 1 \in 1 .. size
      BY <2>3, <1>0
    <3>4. QED
      BY <2>3, <3>2, <3>3, NodeAtIs, NodeAtIsNext
  <2>4. \A i \in 1 .. size : i \in S
    <3> HIDE DEF S
    <3>1. QED
      BY <1>0, <2>2, <2>3, ListInduction
  <2>5. NodeAt'[size] = NodeAt[size]
    BY <2>1, <2>4, <1>0
  <2>6. next'[last] = temp
    BY <2>1 DEF Inv, ChainInv, TypeOK
  <2>7. NodeAt'[size + 1] = temp
    BY <2>1, <2>5, <2>6, <1>0, NodeAtIsNext
  <2>8. QED
    BY <1>a, <2>4, <2>7
<1>3. QED
  BY <1>1, <1>2

\* pushFront moves every node one position down (Queue.cpp:66-81).
LEMMA PushFrontChain ==
  ASSUME Inv, NEW temp \in Nodes \ allocated, next' = [next EXCEPT ![temp] = first], first' = temp
  PROVE  /\ \A i \in 1 .. size : NodeAt'[i + 1] = NodeAt[i]
         /\ NodeAt'[1] = temp
         /\ next'[NodeAt'[size + 1]] = NULL
<1>0. size \in Nat /\ NULL \notin allocated
  BY FirstIsFirst
<1>1. NodeAt'[1] = temp /\ next'[temp] = first
  BY NodeAtIsNext DEF Inv, TypeOK
<1>2. CASE size = 0
  BY <1>1, <1>2 DEF Inv, ChainInv
<1>3. CASE size > 0
  <2> DEFINE S == {i \in 1 .. size : NodeAt'[i + 1] = NodeAt[i]}
  <2>2. 1 \in S
    BY <1>0, <1>1, <1>3, NodeAtIs, NodeAtIsNext
  <2>3. ASSUME NEW i \in Nat, 1 <= i, i < size, i \in S PROVE i + 1 \in S
    <3>1. NodeAt[i] \in allocated /\ NodeAt[i] # temp /\ NodeAt[i] \in Nodes
      BY <2>3 DEF Inv, ChainInv, TypeOK
    <3>2. next'[NodeAt[i]] = next[NodeAt[i]]
      BY <3>1
    <3>3. i + 1 \in 1 .. size
      BY <2>3, <1>0
    <3>4. NodeAt'[(i + 1) + 1] = next'[NodeAt'[i + 1]] /\ NodeAt[i + 1] = next[NodeAt[i]]
      BY <2>3, <3>3, NodeAtIs, NodeAtIsNext
    <3>5. QED
      BY <2>3, <3>2, <3>3, <3>4
  <2>4. \A i \in 1 .. size : i \in S
    <3> HIDE DEF S
    <3>1. QED
      BY <1>0, <2>2, <2>3, ListInduction
  <2>5. NodeAt'[size + 1] = NodeAt[size] /\ NodeAt[size] \in allocated
    BY <2>4, <1>0, <1>3 DEF Inv, ChainInv
  <2>6. next'[NodeAt[size]] = NULL
    BY <2>5, <1>3 DEF Inv, ChainInv, TypeOK
  <2>7. QED
    BY <1>1, <2>4, <2>5, <2>6
<1>4. QED
  BY <1>0, <1>2, <1>3

\* pop moves every node one position up (Queue.cpp:83-93).
LEMMA PopChain ==
  ASSUME Inv, first # NULL, next' = next, first' = next[first]
  PROVE  \A i \in 1 .. size : NodeAt'[i] = NodeAt[i + 1]
<1>0. size \in Nat /\ size > 0 /\ first = NodeAt[1]
  BY FirstIsFirst DEF Inv, ChainInv
<1> DEFINE S == {i \in 1 .. size : NodeAt'[i] = NodeAt[i + 1]}
<1>2. 1 \in S
  BY <1>0, NodeAtIs, NodeAtIsNext
<1>3. ASSUME NEW i \in Nat, 1 <= i, i < size, i \in S PROVE i + 1 \in S
  <2>3. i + 1 \in 1 .. size /\ i + 1 \in Nat /\ i + 1 >= 1
    BY <1>3, <1>0
  <2>4. NodeAt'[i + 1] = next'[NodeAt'[i]] /\ NodeAt[(i + 1) + 1] = next[NodeAt[i + 1]]
    BY <1>3, <2>3, NodeAtIs, NodeAtIsNext
  <2>5. QED
    BY <1>3, <2>3, <2>4
<1>4. \A i \in 1 .. size : i \in S
  <2> HIDE DEF S
  <2>1. QED
    BY <1>0, <1>2, <1>3, ListInduction
<1>5. QED
  BY <1>4

\* Linking a node at position at, with the others moved down by up, keeps the
\* chain equal to the heap, whichever end the node is linked to.
LEMMA LinkStep ==
  ASSUME Inv, TypeOK', NEW temp \in Nodes \ allocated, NEW at \in Nat, NEW up \in Nat,
         allocated' = allocated \cup {temp}, size' = size + 1,
         \/ at = size + 1 /\ up = 0
         \/ at = 1 /\ up = 1,
         \A i \in 1 .. size : NodeAt'[i + up] = NodeAt[i],
         NodeAt'[at] = temp
  PROVE  /\ IsFiniteSet(allocated') /\ size' = Cardinality(allocated')
         /\ \A i \in 1 .. size' : NodeAt'[i] \in allocated'
         /\ \A n \in allocated' : \E i \in 1 .. size' : NodeAt'[i] = n
         /\ \A i, k \in 1 .. size' : NodeAt'[i] = NodeAt'[k] => i = k
<1>0. size \in Nat /\ temp \notin allocated
  BY FirstIsFirst
<1>1. IsFiniteSet(allocated') /\ size' = Cardinality(allocated')
  BY FS_AddElement DEF Inv, ChainInv
<1>2. ASSUME NEW i \in 1 .. size'
      PROVE  i = at \/ (i # at /\ i - up \in 1 .. size /\ NodeAt'[i] = NodeAt[i - up])
  <2>1. CASE i # at
    <3>1. i - up \in 1 .. size /\ (i - up) + up = i
      BY <2>1, <1>0
    <3>2. QED
      BY <2>1, <3>1
  <2>2. QED
    BY <2>1
<1>3. ASSUME NEW i \in 1 .. size' PROVE NodeAt'[i] \in allocated'
  BY <1>2 DEF Inv, ChainInv
<1>4. ASSUME NEW n \in allocated' PROVE \E i \in 1 .. size' : NodeAt'[i] = n
  <2>1. CASE n = temp
    <3>1. at \in 1 .. size'
      BY <1>0
    <3>2. QED
      BY <2>1, <3>1
  <2>2. CASE n \in allocated
    <3>1. PICK i \in 1 .. size : NodeAt[i] = n
      BY <2>2 DEF Inv, ChainInv
    <3>2. i + up \in 1 .. size'
      BY <1>0
    <3>3. QED
      BY <3>1, <3>2
  <2>3. QED
    BY <2>1, <2>2
<1>5. ASSUME NEW i \in 1 .. size', NEW k \in 1 .. size', NodeAt'[i] = NodeAt'[k] PROVE i = k
  <2>1. CASE i = at
    <3>1. ASSUME k # at PROVE FALSE
      <4>1. k - up \in 1 .. size /\ NodeAt[k - up] = temp
        BY <1>2, <1>5, <2>1, <3>1
      <4>2. QED
        BY <4>1, <1>0 DEF Inv, ChainInv
    <3>2. QED
      BY <2>1, <3>1
  <2>2. CASE k = at
    <3>1. ASSUME i # at PROVE FALSE
      <4>1. i - up \in 1 .. size /\ NodeAt[i - up] = temp
        BY <1>2, <1>5, <2>2, <3>1
      <4>2. QED
        BY <4>1, <1>0 DEF Inv, ChainInv
    <3>2. QED
      BY <2>2, <3>1
  <2>3. CASE i # at /\ k # at
    <3>1. /\ i - up \in 1 .. size /\ k - up \in 1 .. size
          /\ NodeAt[i - up] = NodeAt[k - up]
      BY <1>2, <1>5, <2>3
    <3>2. i - up = k - up
      BY <3>1 DEF Inv, ChainInv
    <3>3. QED
      BY <3>2, <1>0
  <2>4. QED
    BY <2>1, <2>2, <2>3
<1>6. QED
  BY <1>1, <1>3, <1>4, <1>5

-------------------------------------------------------------------------------
(* Invariance.                                                               *)

\* Every operation keeps the pointers a list of the allocated nodes
\* (Queue.cpp:42-102).
LEMMA InvStep == Inv /\ [Next]_vars => Inv'
<1> SUFFICES ASSUME Inv, [Next]_vars PROVE Inv'
  OBVIOUS
<1>0. size \in Nat /\ NULL \notin allocated
  BY FirstIsFirst
<1>1. ASSUME NEW j \in Jobs, push(j) PROVE Inv'
  <2>1. CASE ~empty /\ last = NULL
    BY <1>1, <2>1, SameChain DEF push
  <2>2. CASE ~(~empty /\ last = NULL)
    <3>1. PICK temp \in Nodes \ allocated :
            /\ data' = [data EXCEPT ![temp] = j]
            /\ next' = [n \in Nodes |-> CASE n = temp -> NULL
                                          [] n = last -> temp
                                          [] OTHER    -> next[n]]
            /\ first' = IF first = NULL THEN temp ELSE first
            /\ last' = temp
            /\ allocated' = allocated \cup {temp}
            /\ size' = size + 1
            /\ UNCHANGED crashed
      BY <1>1, <2>2 DEF push, empty
    <3>2. /\ \A i \in 1 .. size : NodeAt'[i] = NodeAt[i]
          /\ NodeAt'[size + 1] = temp
          /\ next'[temp] = NULL
      BY <2>2, <3>1, PushChain DEF empty
    <3>3. TypeOK'
      <4>1. next' \in [Nodes -> Pointer]
        BY <3>1, <1>0 DEF Inv, TypeOK, Pointer
      <4>2. QED
        BY <3>1, <4>1, <1>0 DEF Inv, TypeOK, Pointer
    <3>4. /\ IsFiniteSet(allocated') /\ size' = Cardinality(allocated')
          /\ \A i \in 1 .. size' : NodeAt'[i] \in allocated'
          /\ \A n \in allocated' : \E i \in 1 .. size' : NodeAt'[i] = n
          /\ \A i, k \in 1 .. size' : NodeAt'[i] = NodeAt'[k] => i = k
      <4> DEFINE up == 0
      <4> DEFINE at == size + 1
      <4>1. \A i \in 1 .. size : NodeAt'[i + up] = NodeAt[i]
        BY <3>2, <1>0
      <4>2. up \in Nat /\ at \in Nat /\ at = size + 1 /\ up = 0 /\ NodeAt'[at] = temp
        BY <3>2, <1>0
      <4> HIDE DEF up, at
      <4>3. QED
        BY <3>1, <3>3, <4>1, <4>2, LinkStep
    <3>5. /\ size' > 0 /\ next'[NodeAt'[size']] = NULL
          /\ first' # NULL
          /\ last' = NodeAt'[size']
      BY <3>1, <3>2, <1>0, NullAssumption
    <3>6. size' # 0
      BY <3>1, <1>0
    <3>7. ChainInv'
      BY <3>4, <3>5, <3>6 DEF ChainInv
    <3>8. QED
      BY <3>3, <3>7 DEF Inv
  <2>3. QED
    BY <2>1, <2>2
<1>2. ASSUME NEW j \in Jobs, pushFront(j) PROVE Inv'
  <2>1. PICK temp \in Nodes \ allocated :
          /\ data' = [data EXCEPT ![temp] = j]
          /\ next' = [next EXCEPT ![temp] = first]
          /\ first' = temp
          /\ last' = last
          /\ allocated' = allocated \cup {temp}
          /\ size' = size + 1
          /\ UNCHANGED crashed
    BY <1>2, NullAssumption DEF pushFront
  <2>2. /\ \A i \in 1 .. size : NodeAt'[i + 1] = NodeAt[i]
        /\ NodeAt'[1] = temp
        /\ next'[NodeAt'[size + 1]] = NULL
    BY <2>1, PushFrontChain
  <2>3. TypeOK'
    BY <2>1, <1>0 DEF Inv, TypeOK, Pointer
  <2>4. /\ IsFiniteSet(allocated') /\ size' = Cardinality(allocated')
        /\ \A i \in 1 .. size' : NodeAt'[i] \in allocated'
        /\ \A n \in allocated' : \E i \in 1 .. size' : NodeAt'[i] = n
        /\ \A i, k \in 1 .. size' : NodeAt'[i] = NodeAt'[k] => i = k
    <3> DEFINE up == 1
    <3> DEFINE at == 1
    <3>1. \A i \in 1 .. size : NodeAt'[i + up] = NodeAt[i]
      BY <2>2
    <3>2. up \in Nat /\ at \in Nat /\ at = 1 /\ up = 1 /\ NodeAt'[at] = temp
      BY <2>2
    <3> HIDE DEF up, at
    <3>3. QED
      BY <2>1, <2>3, <3>1, <3>2, LinkStep
  <2>5. /\ size' > 0 /\ next'[NodeAt'[size']] = NULL
        /\ first' # NULL
    BY <2>1, <2>2, <1>0, NullAssumption
  <2>6. last' # NULL => last' = NodeAt'[size']
    <3>1. ASSUME last # NULL PROVE last = NodeAt'[size + 1]
      <4>1. size > 0 /\ last = NodeAt[size] /\ size \in 1 .. size
        BY <3>1, <1>0 DEF Inv, ChainInv
      <4>2. QED
        BY <4>1, <2>2
    <3>2. QED
      BY <3>1, <2>1
  <2>7. size' # 0
    BY <2>1, <1>0
  <2>8. QED
    BY <2>3, <2>4, <2>5, <2>6, <2>7 DEF Inv, ChainInv
<1>3. ASSUME pop PROVE Inv'
  <2>1. /\ first # NULL /\ first' = next[first]
        /\ last' = IF first' = NULL THEN NULL ELSE last
        /\ allocated' = allocated \ {first} /\ size' = size - 1
        /\ UNCHANGED <<next, data, crashed>>
    BY <1>3 DEF pop, empty
  <2>2. size > 0 /\ first \in allocated /\ first = NodeAt[1]
    BY <2>1, FirstIsFirst DEF Inv, ChainInv
  <2>3. \A i \in 1 .. size : NodeAt'[i] = NodeAt[i + 1]
    BY <2>1, PopChain
  <2>4. TypeOK'
    BY <2>1, <2>2, <1>0 DEF Inv, TypeOK, Pointer
  <2>5. IsFiniteSet(allocated') /\ size' = Cardinality(allocated')
    BY <2>1, <2>2, FS_RemoveElement DEF Inv, ChainInv
  <2>6. ASSUME NEW i \in 1 .. size'
        PROVE  i + 1 \in 1 .. size /\ NodeAt'[i] = NodeAt[i + 1]
    BY <2>1, <2>3, <1>0
  <2>7. \A i \in 1 .. size' : NodeAt'[i] \in allocated'
    <3>1. ASSUME NEW i \in 1 .. size' PROVE NodeAt'[i] \in allocated'
      <4>1. i + 1 \in 1 .. size /\ 1 \in 1 .. size /\ i + 1 # 1
        BY <2>1, <2>2, <1>0
      <4>2. NodeAt[i + 1] # NodeAt[1]
        BY <4>1 DEF Inv, ChainInv
      <4>3. QED
        BY <2>1, <2>2, <2>6, <4>1, <4>2 DEF Inv, ChainInv
    <3>2. QED
      BY <3>1
  <2>8. ASSUME NEW n \in allocated' PROVE \E i \in 1 .. size' : NodeAt'[i] = n
    <3>1. PICK i \in 1 .. size : NodeAt[i] = n
      BY <2>1 DEF Inv, ChainInv
    <3>2. i # 1
      BY <2>1, <2>2, <3>1
    <3>3. i - 1 \in 1 .. size' /\ i - 1 \in 1 .. size /\ (i - 1) + 1 = i
      BY <3>2, <2>1, <1>0
    <3>4. QED
      BY <3>1, <3>3, <2>3
  <2>9. \A i, k \in 1 .. size' : NodeAt'[i] = NodeAt'[k] => i = k
    <3>1. ASSUME NEW i \in 1 .. size', NEW k \in 1 .. size', NodeAt'[i] = NodeAt'[k]
          PROVE  i = k
      <4>1. i + 1 = k + 1
        BY <2>6, <3>1 DEF Inv, ChainInv
      <4>2. i \in Int /\ k \in Int
        OBVIOUS
      <4>3. QED
        BY <4>1, <4>2
    <3>2. QED
      BY <3>1
  <2>10. CASE size = 1
    <3>1. first' = NULL /\ size' = 0 /\ last' = NULL
      BY <2>1, <2>2, <2>10 DEF Inv, ChainInv
    <3>2. QED
      BY <3>1, <2>4, <2>5, <2>7, <2>8, <2>9 DEF Inv, ChainInv
  <2>11. CASE size # 1
    <3>1. size' > 0 /\ size' \in 1 .. size' /\ size' + 1 = size
      BY <2>1, <2>2, <2>11, <1>0
    <3>2. NodeAt'[size'] = NodeAt[size]
      BY <3>1, <2>6
    <3>3. next'[NodeAt'[size']] = NULL
      BY <3>2, <2>1, <2>2 DEF Inv, ChainInv
    <3>4. first' # NULL
      <4>1. first' = NodeAt'[1] /\ 1 \in 1 .. size'
        BY <3>1, NodeAtIsNext
      <4>2. QED
        BY <4>1, <2>7, <2>1, <1>0
    <3>5. last' # NULL => last' = NodeAt'[size']
      BY <3>2, <3>4, <2>1 DEF Inv, ChainInv
    <3>6. QED
      BY <3>1, <3>3, <3>4, <3>5, <2>4, <2>5, <2>7, <2>8, <2>9 DEF Inv, ChainInv
  <2>12. QED
    BY <2>10, <2>11
<1>4. CASE UNCHANGED vars
  BY <1>4, SameChain DEF vars, Inv, TypeOK
<1>5. QED
  BY <1>1, <1>2, <1>3, <1>4 DEF Next

\* The invariant holds in every state.
LEMMA InvCorrect == Spec => []Inv
  BY InvInit, InvStep, PTL DEF Spec

\* Pointers point to nodes or nowhere, and mySize does not become negative
\* (Queue.h:66-113).
THEOREM TypeCorrect == Spec => []TypeOK
  BY InvCorrect, PTL DEF Inv

\* No sequence of pushes at either end and pops leaks a node, links a deleted
\* one or closes a cycle, and mySize is the number of nodes (Queue.cpp:42-102).
THEOREM ChainIsTheHeap == Spec => []ListIsTheHeap
  BY InvCorrect, InvImplies, PTL

\* last is the end of the list whenever it is not NULL, so that a push that does
\* not crash never overwrites a link (Queue.cpp:49-57).
THEOREM LastEndsTheChain == Spec => []LastIsTheEnd
  BY InvCorrect, InvImplies, PTL

-------------------------------------------------------------------------------
(* Refinement: the list of the jobs in the nodes is the abstract queue.      *)

\* The jobs of the list are a sequence, as long as the list.
LEMMA ItemsType ==
  ASSUME Inv
  PROVE  /\ Items \in Seq(Jobs) /\ Len(Items) = size /\ size \in Nat
         /\ \A i \in 1 .. size : Items[i] = data[NodeAt[i]]
         /\ Items = <<>> <=> first = NULL
<1>1. \A i \in 1 .. size : data[NodeAt[i]] \in Jobs
  BY DEF Inv, ChainInv, TypeOK
<1>2. size \in Nat /\ (size = 0 <=> first = NULL)
  BY DEF Inv, ChainInv, TypeOK
<1>3. Items \in Seq(Jobs) /\ Len(Items) = size
  BY <1>1, <1>2 DEF Items
<1>4. \A i \in 1 .. size : Items[i] = data[NodeAt[i]]
  BY DEF Items
<1>5. Items = <<>> <=> size = 0
  BY <1>2, <1>3
<1>6. QED
  BY <1>2, <1>3, <1>4, <1>5

\* The same in the next state.
LEMMA ItemsTypeNext ==
  ASSUME Inv'
  PROVE  /\ Items' \in Seq(Jobs) /\ Len(Items') = size' /\ size' \in Nat
         /\ \A i \in 1 .. size' : Items'[i] = data'[NodeAt'[i]]
<1>1. \A i \in 1 .. size' : data'[NodeAt'[i]] \in Jobs
  BY DEF Inv, ChainInv, TypeOK
<1>2. size' \in Nat
  BY DEF Inv, TypeOK
<1>3. Items' \in Seq(Jobs) /\ Len(Items') = size'
  BY <1>1, <1>2 DEF Items
<1>4. \A i \in 1 .. size' : Items'[i] = data'[NodeAt'[i]]
  BY DEF Items
<1>5. QED
  BY <1>2, <1>3, <1>4

\* The empty list is the empty queue.
LEMMA RefinementInit == Init => Deque!Init
<1> SUFFICES ASSUME Init PROVE Items = <<>> /\ Lost = FALSE /\ crashed = FALSE
  BY DEF Deque!Init, Deque!EmptyQueue
<1>1. Items = <<>>
  BY InvInit, ItemsType DEF Init
<1>2. QED
  BY <1>1 DEF Init, Lost

\* The abstract queue of a state.
Abstract == [items |-> Items, lost |-> Lost]

\* While there is a cell that is not a node, the queue is not full.
LEMMA RoomLeft ==
  ASSUME Inv, NEW temp \in Nodes \ allocated
  PROVE  size < Cardinality(Nodes)
<1>1. allocated \subseteq Nodes /\ allocated # Nodes
  BY DEF Inv, TypeOK
<1>2. Cardinality(allocated) < Cardinality(Nodes)
  BY <1>1, NodesAssumption, FS_Subset, FS_CardinalityType
<1>3. QED
  BY <1>2 DEF Inv, ChainInv

\* push appends the job, or crashes when the queue has lost its last node
\* (Queue.cpp:42-59).
LEMMA RefinementPush ==
  ASSUME Inv, Inv', NEW j \in Jobs, push(j)
  PROVE  Deque!PushBack(j)
<1>0. /\ Items \in Seq(Jobs) /\ Len(Items) = size /\ size \in Nat
      /\ \A i \in 1 .. size : Items[i] = data[NodeAt[i]]
  BY ItemsType
<1>a. size < Cardinality(Nodes) /\ ~crashed
  BY RoomLeft DEF push
<1>1. CASE Lost
  <2>1. crashed' = TRUE /\ UNCHANGED <<first, last, next, data, allocated, size>>
    BY <1>1 DEF push, Lost, empty
  <2>2. Items' = Items /\ Lost' = Lost
    BY <2>1 DEF Items, NodeAt, Lost
  <2>3. QED
    BY <1>0, <1>a, <1>1, <2>1, <2>2 DEF Deque!PushBack, Deque!Size
<1>2. CASE ~Lost
  <2>1. PICK temp \in Nodes \ allocated :
          /\ data' = [data EXCEPT ![temp] = j]
          /\ next' = [n \in Nodes |-> CASE n = temp -> NULL
                                        [] n = last -> temp
                                        [] OTHER    -> next[n]]
          /\ first' = IF first = NULL THEN temp ELSE first
          /\ last' = temp
          /\ size' = size + 1
          /\ UNCHANGED crashed
    BY <1>2 DEF push, empty, Lost
  <2>2. /\ \A i \in 1 .. size : NodeAt'[i] = NodeAt[i]
        /\ NodeAt'[size + 1] = temp
    BY <1>2, <2>1, PushChain DEF Lost
  <2>3. Items' = Append(Items, j)
    <3>1. /\ Items' \in Seq(Jobs) /\ Len(Items') = size + 1
          /\ \A i \in 1 .. size + 1 : Items'[i] = data'[NodeAt'[i]]
      BY <2>1, ItemsTypeNext
    <3>2. \A i \in 1 .. size : Items'[i] = Items[i]
      <4>1. ASSUME NEW i \in 1 .. size PROVE data'[NodeAt'[i]] = data[NodeAt[i]]
        <5>1. NodeAt[i] \in allocated /\ NodeAt[i] \in Nodes
          BY DEF Inv, ChainInv, TypeOK
        <5>2. QED
          BY <5>1, <2>1, <2>2 DEF Inv, TypeOK
      <4>2. QED
        BY <4>1, <3>1, <1>0
    <3>3. Items'[size + 1] = j
      BY <3>1, <2>1, <2>2, <1>0 DEF Inv, TypeOK
    <3>4. QED
      BY <3>1, <3>2, <3>3, <1>0
  <2>4. Lost' = FALSE /\ Lost = FALSE
    BY <1>2, <2>1, NullAssumption DEF Lost
  <2>5. QED
    BY <1>0, <1>a, <2>1, <2>3, <2>4 DEF Deque!PushBack, Deque!Size, Deque!Push
<1>3. QED
  BY <1>1, <1>2

\* pushFront prepends the job, and loses the last node when the queue was empty
\* (Queue.cpp:66-81).
LEMMA RefinementPushFront ==
  ASSUME Inv, Inv', NEW j \in Jobs, pushFront(j)
  PROVE  Deque!PushAtFront(j)
<1>0. /\ Items \in Seq(Jobs) /\ Len(Items) = size /\ size \in Nat
      /\ \A i \in 1 .. size : Items[i] = data[NodeAt[i]]
      /\ Items = <<>> <=> first = NULL
  BY ItemsType
<1>1. PICK temp \in Nodes \ allocated :
        /\ data' = [data EXCEPT ![temp] = j]
        /\ next' = [next EXCEPT ![temp] = first]
        /\ first' = temp
        /\ last' = last
        /\ size' = size + 1
        /\ UNCHANGED crashed
  BY NullAssumption DEF pushFront
<1>a. size < Cardinality(Nodes) /\ ~crashed
  BY RoomLeft DEF pushFront
<1>2. /\ \A i \in 1 .. size : NodeAt'[i + 1] = NodeAt[i]
      /\ NodeAt'[1] = temp
  BY <1>1, PushFrontChain
<1>3. Items' = <<j>> \o Items
  <2>1. /\ Items' \in Seq(Jobs) /\ Len(Items') = size + 1
        /\ \A i \in 1 .. size + 1 : Items'[i] = data'[NodeAt'[i]]
    BY <1>1, ItemsTypeNext
  <2>2. \A i \in 1 .. size : Items'[i + 1] = Items[i]
    <3>1. ASSUME NEW i \in 1 .. size PROVE data'[NodeAt'[i + 1]] = data[NodeAt[i]]
      <4>1. NodeAt[i] \in allocated /\ NodeAt[i] \in Nodes
        BY DEF Inv, ChainInv, TypeOK
      <4>2. QED
        BY <4>1, <1>1, <1>2 DEF Inv, TypeOK
    <3>2. QED
      BY <3>1, <2>1, <1>0
  <2>3. Items'[1] = j
    BY <2>1, <1>1, <1>2, <1>0 DEF Inv, TypeOK
  <2>4. \A i \in 2 .. size + 1 : Items'[i] = Items[i - 1]
    <3>1. ASSUME NEW i \in 2 .. size + 1 PROVE i - 1 \in 1 .. size /\ (i - 1) + 1 = i
      BY <1>0
    <3>2. QED
      BY <3>1, <2>2
  <2>5. QED
    BY <2>1, <2>3, <2>4, <1>0
<1>4. Lost' <=> Lost \/ Items = <<>>
  <2>1. first = NULL => last = NULL
    BY DEF Inv, ChainInv
  <2>2. QED
    BY <1>0, <1>1, <2>1, NullAssumption DEF Lost
<1>5. QED
  BY <1>0, <1>a, <1>1, <1>3, <1>4
     DEF Deque!PushAtFront, Deque!Size, Deque!PushFront, Deque!IsEmpty, Lost

\* pop removes the first job, and an emptied queue has nothing left to lose
\* (Queue.cpp:83-93).
LEMMA RefinementPop ==
  ASSUME Inv, Inv', pop
  PROVE  Deque!PopFront
<1>0. /\ Items \in Seq(Jobs) /\ Len(Items) = size /\ size \in Nat
      /\ \A i \in 1 .. size : Items[i] = data[NodeAt[i]]
      /\ Items = <<>> <=> first = NULL
  BY ItemsType
<1>1. /\ first # NULL /\ first' = next[first] /\ ~crashed
      /\ last' = IF first' = NULL THEN NULL ELSE last
      /\ size' = size - 1
      /\ UNCHANGED <<next, data, crashed>>
  BY DEF pop, empty
<1>2. size > 0
  BY <1>0, <1>1 DEF Inv, ChainInv
<1>3. \A i \in 1 .. size : NodeAt'[i] = NodeAt[i + 1]
  BY <1>1, PopChain
<1>4. Items' = Tail(Items)
  <2>1. /\ Items' \in Seq(Jobs) /\ Len(Items') = size - 1
        /\ \A i \in 1 .. size - 1 : Items'[i] = data'[NodeAt'[i]]
    BY <1>1, ItemsTypeNext
  <2>2. \A i \in 1 .. size - 1 : Items'[i] = Items[i + 1]
    <3>1. ASSUME NEW i \in 1 .. size - 1 PROVE i \in 1 .. size /\ i + 1 \in 1 .. size
      BY <1>0
    <3>2. QED
      BY <3>1, <2>1, <1>0, <1>1, <1>3
  <2>3. QED
    BY <2>1, <2>2, <1>0, <1>2
<1>5. Lost' <=> Lost /\ Len(Items) > 1
  <2>1. first' = NULL <=> size - 1 = 0
    BY <1>1 DEF Inv, ChainInv
  <2>2. QED
    BY <1>0, <1>1, <1>2, <2>1 DEF Lost
<1>6. QED
  BY <1>0, <1>1, <1>4, <1>5 DEF Deque!PopFront, Deque!Pop, Deque!IsEmpty, Lost

\* Every operation on the list is the operation of the abstract queue.
LEMMA RefinementStep ==
  Inv /\ Inv' /\ [Next]_vars => [Deque!Next]_<<Abstract, crashed>>
<1> SUFFICES ASSUME Inv, Inv', [Next]_vars
             PROVE  Deque!Next \/ UNCHANGED <<Abstract, crashed>>
  OBVIOUS
<1>1. ASSUME NEW j \in Jobs, push(j) PROVE Deque!Next
  BY <1>1, RefinementPush DEF Deque!Next
<1>2. ASSUME NEW j \in Jobs, pushFront(j) PROVE Deque!Next
  BY <1>2, RefinementPushFront DEF Deque!Next
<1>3. CASE pop
  BY <1>3, RefinementPop DEF Deque!Next
<1>4. CASE UNCHANGED vars
  BY <1>4 DEF vars, Abstract, Items, NodeAt, Lost
<1>5. QED
  BY <1>1, <1>2, <1>3, <1>4 DEF Next

\* The linked list implements the abstract queue that the scheduler is modelled
\* with: the order of the jobs, and the calls that crash (Queue.cpp:42-102).
THEOREM QueueImplementsDeque == Spec => ImplementsDeque
<1>1. Init => Deque!Init
  BY RefinementInit
<1>2. Inv /\ Inv' /\ [Next]_vars => [Deque!Next]_<<[items |-> Items, lost |-> Lost], crashed>>
  BY RefinementStep DEF Abstract
<1>3. QED
  BY <1>1, <1>2, InvCorrect, PTL DEF Spec, ImplementsDeque, Deque!Spec
===============================================================================
