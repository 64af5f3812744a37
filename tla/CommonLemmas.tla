---------------------------- MODULE CommonLemmas ----------------------------
(***************************************************************************)
(* Lemmas that the proofs of several components need: about the graphs of  *)
(* Reachability, counting, and powers of two.                              *)
(***************************************************************************)
EXTENDS Reachability, Integers, FiniteSetTheorems, FunctionTheorems,
        WellFoundedInduction, TLAPS

(***************************************************************************)
(* Reached(graph, roots) is the least closed set that contains the roots.  *)
(***************************************************************************)
\* The roots that are nodes are reached.
LEMMA ReachedHasRoots ==
  ASSUME NEW graph, NEW roots
  PROVE  roots \cap DOMAIN graph \subseteq Reached(graph, roots)
BY DEF Reached

\* Only nodes of the graph are reached.
LEMMA ReachedAreNodes ==
  ASSUME NEW graph, NEW roots
  PROVE  Reached(graph, roots) \subseteq DOMAIN graph
BY DEF Reached

\* What a reached node points at is reached.
LEMMA ReachedIsClosed ==
  ASSUME NEW graph, NEW roots
  PROVE  IsClosed(graph, Reached(graph, roots))
<1>1. SUFFICES ASSUME NEW n \in Reached(graph, roots),
                      NEW m \in graph[n] \cap DOMAIN graph
               PROVE  m \in Reached(graph, roots)
  BY DEF IsClosed
<1>2. ASSUME NEW S \in SUBSET DOMAIN graph,
             roots \subseteq S, IsClosed(graph, S)
      PROVE  m \in S
  <2>1. n \in S
    BY <1>2 DEF Reached
  <2> QED
    BY <1>2, <2>1 DEF IsClosed
<1> QED
  BY <1>2 DEF Reached

\* Nothing else is: a closed set of nodes that contains the roots contains what
\* they reach.
LEMMA ReachedIsLeast ==
  ASSUME NEW graph, NEW roots,
         NEW S \in SUBSET DOMAIN graph,
         roots \subseteq S, IsClosed(graph, S)
  PROVE  Reached(graph, roots) \subseteq S
BY DEF Reached

(***************************************************************************)
(* Counting up from 0.                                                     *)
(***************************************************************************)
\* What 0 is in, and n + 1 whenever n is, every natural number is in.
LEMMA FromZero ==
  ASSUME NEW S, 0 \in S, \A n \in Nat : n \in S => n + 1 \in S
  PROVE  \A n \in Nat : n \in S
<1> DEFINE Out == Nat \ S
<1> SUFFICES ASSUME Out # {} PROVE FALSE
  BY DEF Out
<1>1. PICK x \in Out : \A y \in Out : ~ (<<y, x>> \in OpToRel(<, Nat))
  <2>1. IsWellFoundedOn(OpToRel(<, Nat), Nat)
    BY NatLessThanWellFounded
  <2>2. Out \subseteq Nat
    OBVIOUS
  <2> QED
    BY <2>1, <2>2, WFMin, Zenon
<1>2. x \in Nat /\ x # 0
  OBVIOUS
<1>3. x - 1 \in Nat /\ (x - 1) + 1 = x
  BY <1>2
<1>4. x - 1 \in S
  <2>1. ~ (<<x - 1, x>> \in {ss \in Nat \X Nat : ss[1] < ss[2]}) \/ x - 1 \notin Out
    BY <1>1 DEF OpToRel
  <2>2. x - 1 < x
    BY <1>2
  <2> QED
    BY <1>2, <1>3, <2>1, <2>2
<1> QED
  BY <1>3, <1>4

(***************************************************************************)
(* Powers of two: the number of the subsets of 1 .. n.                     *)
(***************************************************************************)
\* 2 ^ n counts subsets.
LEMMA PowerIsCount ==
  \A n \in Nat : /\ IsFiniteSet(SUBSET (1 .. n))
                 /\ 2 ^ n = Cardinality(SUBSET (1 .. n))
<1> TAKE n \in Nat
<1>1. IsFiniteSet(1 .. n) /\ Cardinality(1 .. n) = n
  BY FS_Interval
<1>2. IsFiniteSet(SUBSET (1 .. n)) /\ Cardinality(SUBSET (1 .. n)) = 2 ^ Cardinality(1 .. n)
  BY <1>1, FS_SUBSET, Zenon
<1> QED
  BY <1>1, <1>2, Zenon

\* Powers of two are positive.
LEMMA PowerPositive ==
  \A n \in Nat : 2 ^ n \in Nat /\ 2 ^ n > 0
<1> TAKE n \in Nat
<1>1. IsFiniteSet(SUBSET (1 .. n)) /\ 2 ^ n = Cardinality(SUBSET (1 .. n))
  BY PowerIsCount
<1>2. Cardinality(SUBSET (1 .. n)) \in Nat
  BY <1>1, FS_CardinalityType
<1>3. SUBSET (1 .. n) # {}
  OBVIOUS
<1>4. Cardinality(SUBSET (1 .. n)) # 0
  BY <1>1, <1>3, FS_EmptySet, Zenon
<1> DEFINE p == Cardinality(SUBSET (1 .. n))
<1>5. p \in Nat /\ p # 0 /\ 2 ^ n = p
  BY <1>1, <1>2, <1>4
<1> HIDE DEF p
<1> QED
  BY <1>5

\* One place more doubles the power.
LEMMA PowerDoubles ==
  \A n \in Nat : 2 ^ (n + 1) = 2 * (2 ^ n)
<1> TAKE n \in Nat
<1> DEFINE A == SUBSET (1 .. n)
           B == {X \cup {n + 1} : X \in A}
           f == [X \in A |-> X \cup {n + 1}]
<1>1. SUBSET (1 .. n + 1) = A \cup B
  <2>1. ASSUME NEW Y \in SUBSET (1 .. n + 1)
        PROVE  Y \in A \cup B
    <3>1. CASE n + 1 \in Y
      <4>1. Y \ {n + 1} \in A
        OBVIOUS
      <4>2. Y = (Y \ {n + 1}) \cup {n + 1}
        BY <3>1
      <4> QED
        BY <4>1, <4>2
    <3>2. CASE n + 1 \notin Y
      BY <3>2
    <3> QED
      BY <3>1, <3>2
  <2>2. ASSUME NEW Y \in A \cup B
        PROVE  Y \in SUBSET (1 .. n + 1)
    OBVIOUS
  <2> QED
    BY <2>1, <2>2, Zenon
<1>2. IsFiniteSet(A) /\ 2 ^ n = Cardinality(A) /\ Cardinality(A) \in Nat
  BY PowerIsCount, FS_CardinalityType
<1>3. f \in Bijection(A, B)
  <2>1. f \in [A -> B]
    OBVIOUS
  <2>2. ASSUME NEW X \in A, NEW Y \in A, f[X] = f[Y]
        PROVE  X = Y
    <3>1. n + 1 \notin X /\ n + 1 \notin Y
      OBVIOUS
    <3>2. X = f[X] \ {n + 1} /\ Y = f[Y] \ {n + 1}
      BY <3>1
    <3> QED
      BY <3>2, <2>2, Zenon
  <2>3. \A Y \in B : \E X \in A : f[X] = Y
    OBVIOUS
  <2> QED
    BY <2>1, <2>2, <2>3 DEF Bijection, Injection, IsInjective, Surjection
<1>4. IsFiniteSet(B) /\ Cardinality(B) = Cardinality(A)
  <2>1. ExistsBijection(A, B)
    BY <1>3 DEF ExistsBijection
  <2> QED
    BY <1>2, <2>1, FS_Bijection, Zenon
<1>5. A \cap B = {}
  <2>1. ASSUME NEW Y \in A, Y \in B
        PROVE  FALSE
    <3>1. n + 1 \in Y
      BY <2>1
    <3> QED
      BY <3>1
  <2> QED
    BY <2>1
<1>6. Cardinality(A \cup B) = Cardinality(A) + Cardinality(B) - Cardinality(A \cap B)
  <2> HIDE DEF A, B
  <2> QED
    BY <1>2, <1>4, FS_Union, Zenon
<1>7. Cardinality(A \cap B) = 0
  BY <1>5, FS_EmptySet, Zenon
<1>8. 2 ^ (n + 1) = Cardinality(A \cup B)
  <2>1. n + 1 \in Nat
    OBVIOUS
  <2>2. 2 ^ (n + 1) = Cardinality(SUBSET (1 .. n + 1))
    BY <2>1, PowerIsCount, Zenon
  <2> QED
    BY <2>2, <1>1, Zenon
<1> DEFINE p == Cardinality(A)
<1>9. p \in Nat /\ 2 ^ n = p /\ 2 ^ (n + 1) = p + p - 0
  <2>1. Cardinality(B) = p /\ Cardinality(A \cap B) = 0
    BY <1>4, <1>7, Zenon
  <2>2. 2 ^ (n + 1) = p + Cardinality(B) - Cardinality(A \cap B)
    BY <1>6, <1>8, Zenon
  <2>3. p \in Nat /\ 2 ^ n = p
    BY <1>2, Zenon
  <2> HIDE DEF p
  <2> QED
    BY <2>1, <2>2, <2>3, Zenon
<1> HIDE DEF p
<1> QED
  BY <1>9
=============================================================================
