------------------------------- MODULE NatFacts -------------------------------
(*****************************************************************************)
(* Induction over the natural numbers, for predicates given as sets, and     *)
(* what follows from it: a function defined by iteration exists. The proofs  *)
(* about lists rest on these facts.                                          *)
(*****************************************************************************)
EXTENDS Naturals, WellFoundedInduction, NaturalsInduction, TLAPS

\* A set of natural numbers that is not empty has a least element.
LEMMA NatLeast ==
  ASSUME NEW T, T \subseteq Nat, T # {}
  PROVE  \E x \in T : \A y \in T : x <= y
<1>1. \E x \in T : \A y \in T : ~ (<<y, x>> \in OpToRel(<, Nat))
  BY NatLessThanWellFounded, WFMin
<1>2. PICK x \in T : \A y \in T : ~ (<<y, x>> \in OpToRel(<, Nat))
  BY <1>1
<1>3. ASSUME NEW y \in T PROVE x <= y
  <2>1. x \in Nat /\ y \in Nat
    OBVIOUS
  <2>2. ~(y < x)
    BY <1>2, <2>1 DEF OpToRel
  <2>3. QED
    BY <2>1, <2>2
<1>4. QED
  BY <1>3

\* A set that contains 0 and the successors of its elements contains every
\* natural number.
LEMMA NatSetInduction ==
  ASSUME NEW S, 0 \in S, \A n \in Nat : n \in S => n + 1 \in S
  PROVE  \A n \in Nat : n \in S
<1>1. SUFFICES ASSUME {n \in Nat : n \notin S} # {} PROVE FALSE
  OBVIOUS
<1>2. PICK x \in {n \in Nat : n \notin S} : \A y \in {n \in Nat : n \notin S} : x <= y
  BY <1>1, NatLeast
<1>3. x # 0 /\ x \in Nat
  BY <1>2
<1>4. x - 1 \in Nat /\ x - 1 \in S
  BY <1>2, <1>3
<1>5. QED
  BY <1>4, <1>2, <1>3

\* A set that contains 1 and, up to m, the successors of its elements contains
\* the positions of a list of length m.
LEMMA ListInduction ==
  ASSUME NEW m \in Nat, NEW S, 1 \in S, \A i \in Nat : 1 <= i /\ i < m /\ i \in S => i + 1 \in S
  PROVE  \A i \in 1 .. m : i \in S
<1>1. SUFFICES ASSUME {n \in 1 .. m : n \notin S} # {} PROVE FALSE
  OBVIOUS
<1>2. PICK x \in {n \in 1 .. m : n \notin S} : \A y \in {n \in 1 .. m : n \notin S} : x <= y
  <2>1. {n \in 1 .. m : n \notin S} \subseteq Nat
    OBVIOUS
  <2> HIDE <1>1
  <2>2. QED
    BY <1>1, <2>1, NatLeast
<1>3. x # 1 /\ x \in 1 .. m
  BY <1>2
<1>4. x - 1 \in Nat /\ 1 <= x - 1 /\ x - 1 < m /\ (x - 1) + 1 = x
  BY <1>3
<1>5. x - 1 \in S
  <2>1. ASSUME x - 1 \notin S PROVE FALSE
    <3>1. x <= x - 1
      BY <1>2, <1>3, <1>4, <2>1
    <3>2. QED
      BY <3>1, <1>3
  <2>2. QED
    BY <2>1
<1>6. QED
  BY <1>2, <1>4, <1>5

\* g has the value a up to 1, and then f of the value before.
Iterates(g, a, f) ==
  /\ g = [i \in Nat |-> g[i]]
  /\ \A i \in Nat : g[i] = IF i <= 1 THEN a ELSE f[g[i - 1]]

\* There is such a function for every a and f, as the nodes of a list are for
\* its first node and its next pointers (Queue.h:74-113).
LEMMA IterationExists ==
  ASSUME NEW a, NEW f
  PROVE  \E g : Iterates(g, a, f)
<1> DEFINE Upto(n, g) == g = [i \in 0 .. n |-> IF i <= 1 THEN a ELSE f[g[i - 1]]]
<1> DEFINE S == {n \in Nat : \E g : Upto(n, g)}
<1>1. 0 \in S
  <2>1. Upto(0, [i \in 0 .. 0 |-> a])
    OBVIOUS
  <2>2. QED
    BY <2>1
<1>2. ASSUME NEW n \in Nat, n \in S PROVE n + 1 \in S
  <2>1. PICK g : Upto(n, g)
    BY <1>2
  <2> DEFINE h == [i \in 0 .. n + 1 |-> IF i <= 1 THEN a ELSE f[g[i - 1]]]
  <2>2. \A i \in 0 .. n : h[i] = g[i]
    BY <2>1
  <2>3. \A i \in 0 .. n + 1 : ~(i <= 1) => i - 1 \in 0 .. n /\ h[i - 1] = g[i - 1]
    <3>1. ASSUME NEW i \in 0 .. n + 1, ~(i <= 1) PROVE i - 1 \in 0 .. n
      BY <3>1
    <3> HIDE DEF h
    <3>2. QED
      BY <2>2, <3>1
  <2>4. Upto(n + 1, h)
    BY <2>3
  <2>5. n + 1 \in Nat
    OBVIOUS
  <2> HIDE DEF h, Upto
  <2>6. QED
    BY <2>4, <2>5
<1>3. \A n \in Nat : \E g : Upto(n, g)
  <2> HIDE DEF S
  <2>1. \A n \in Nat : n \in S
    BY <1>1, <1>2, NatSetInduction
  <2>2. QED
    BY <2>1 DEF S
<1> DEFINE G == [n \in Nat |-> CHOOSE g : Upto(n, g)]
<1>4. \A n \in Nat : Upto(n, G[n])
  BY <1>3
<1>5. \A n \in Nat : \A i \in 0 .. n : G[n][i] = IF i <= 1 THEN a ELSE f[G[n][i - 1]]
  <2>1. ASSUME NEW n \in Nat, NEW g, Upto(n, g), NEW i \in 0 .. n
        PROVE  g[i] = IF i <= 1 THEN a ELSE f[g[i - 1]]
    BY <2>1
  <2> HIDE DEF Upto, G
  <2>2. QED
    BY <1>4, <2>1
<1> HIDE DEF G
<1>6. ASSUME NEW n \in Nat, NEW m \in Nat, n <= m PROVE \A i \in 0 .. n : G[m][i] = G[n][i]
  <2> DEFINE T == {i \in Nat : i <= n => G[m][i] = G[n][i]}
  <2>1. 0 \in T
    BY <1>5, <1>6
  <2>2. ASSUME NEW i \in Nat, i \in T PROVE i + 1 \in T
    <3>1. CASE i + 1 <= n /\ i + 1 > 1
      <4>1. i + 1 \in 0 .. n /\ i + 1 \in 0 .. m /\ (i + 1) - 1 = i /\ ~(i + 1 <= 1)
        BY <3>1, <1>6
      <4>2. G[m][i + 1] = f[G[m][i]] /\ G[n][i + 1] = f[G[n][i]]
        BY <4>1, <1>5
      <4>3. G[m][i] = G[n][i]
        BY <2>2, <3>1
      <4>4. QED
        BY <4>2, <4>3
    <3>2. CASE i + 1 <= n /\ i + 1 <= 1
      BY <3>2, <1>5, <1>6
    <3>3. QED
      BY <3>1, <3>2
  <2>3. \A i \in Nat : i \in T
    <3> HIDE DEF T
    <3>1. QED
      BY <2>1, <2>2, NatSetInduction
  <2>4. QED
    BY <2>3
<1> DEFINE g == [n \in Nat |-> G[n][n]]
<1>7. ASSUME NEW i \in Nat PROVE g[i] = IF i <= 1 THEN a ELSE f[g[i - 1]]
  <2>1. CASE i <= 1
    BY <2>1, <1>5
  <2>2. CASE ~(i <= 1)
    <3>1. i - 1 \in Nat /\ i - 1 <= i /\ i - 1 \in 0 .. i - 1 /\ i \in 0 .. i
      BY <2>2
    <3>2. G[i][i] = f[G[i][i - 1]]
      BY <3>1, <2>2, <1>5
    <3>3. G[i][i - 1] = G[i - 1][i - 1]
      BY <3>1, <1>6
    <3>4. QED
      BY <3>1, <3>2, <3>3, <2>2
  <2>3. QED
    BY <2>1, <2>2
<1>8. g = [i \in Nat |-> g[i]]
  OBVIOUS
<1> HIDE DEF g
<1>9. QED
  BY <1>7, <1>8 DEF Iterates
===============================================================================
