------------------------------ MODULE SetLemmas ------------------------------
(***************************************************************************)
(* Least and greatest members of sets of naturals, for the proofs about    *)
(* Min, Max and CHOOSE in the models: the next event of a page, the last   *)
(* row of a batch, the latest answer in a log; and how disjoint sets add   *)
(* up.                                                                     *)
(***************************************************************************)
EXTENDS Naturals, FiniteSets, TLAPS, WellFoundedInduction, FiniteSetTheorems

\* A non-empty set of naturals has a least member, such as the event that
\* stream() yields next.
LEMMA NatMin ==
  ASSUME NEW S \in SUBSET Nat, S # {}
  PROVE  \E x \in S : \A y \in S : x <= y
<1> DEFINE R == OpToRel(<, Nat)
<1>1. IsWellFoundedOn(R, Nat) BY NatLessThanWellFounded
<1>2. \A x, y \in Nat : y < x => <<y, x>> \in R BY DEF OpToRel
<1> HIDE DEF R
<1>3. PICK x \in S : \A y \in S : ~(<<y, x>> \in R) BY <1>1, WFMin, Zenon
<1>4. \A y \in S : ~(y < x) BY <1>2, <1>3
<1>5. \A y \in S : x <= y BY <1>4
<1> QED BY <1>5

\* A set that has every number up to n whose predecessors it has, has all of
\* them, such as the steps of a walk after which an invariant holds.
LEMMA UpTo ==
  ASSUME NEW n \in Nat, NEW T,
         \A k \in 0 .. n : (0 .. (k - 1)) \subseteq T => k \in T
  PROVE  0 .. n \subseteq T
<1> DEFINE Missing == {k \in 0 .. n : k \notin T}
<1> SUFFICES ASSUME Missing # {} PROVE FALSE OBVIOUS
<1>1. Missing \in SUBSET Nat OBVIOUS
<1>2. PICK k \in Missing : \A j \in Missing : k <= j
  <2> HIDE DEF Missing
  <2> QED BY <1>1, NatMin
<1>3. \A j \in 0 .. (k - 1) : j \in 0 .. n /\ ~(k <= j) BY <1>2
<1>4. (0 .. (k - 1)) \subseteq T BY <1>2, <1>3
<1> QED BY <1>2, <1>4

\* A non-empty set of numbers from 1 to n has a greatest member, such as the
\* last row of a batch or the latest answer in a log of n entries.
LEMMA IntervalMax ==
  ASSUME NEW n \in Nat, NEW S \in SUBSET (1 .. n), S # {}
  PROVE  \E x \in S : \A y \in S : y <= x
<1> DEFINE T == {n - y : y \in S}
<1>1. \A y \in S : n - y \in Nat /\ y \in Nat OBVIOUS
<1>2. T \in SUBSET Nat /\ T # {} BY <1>1
<1>3. PICK t \in T : \A u \in T : t <= u BY <1>2, NatMin
<1>4. PICK x \in S : t = n - x BY <1>3
<1>5. \A y \in S : n - x <= n - y BY <1>3, <1>4
<1>6. \A y \in S : y <= x BY <1>1, <1>5
<1> QED BY <1>6

\* A disjoint union has as many members as its parts together.
LEMMA DisjointUnion ==
  ASSUME NEW R, NEW A, IsFiniteSet(R), IsFiniteSet(A), R \cap A = {}
  PROVE  /\ IsFiniteSet(R \cup A)
         /\ Cardinality(R) \in Nat
         /\ Cardinality(R \cup A) = Cardinality(R) + Cardinality(A)
<1>1. Cardinality(R) \in Nat /\ Cardinality(A) \in Nat BY FS_CardinalityType
<1>2. /\ IsFiniteSet(R \cup A)
      /\ Cardinality(R \cup A) = Cardinality(R) + Cardinality(A) - Cardinality(R \cap A)
  BY FS_Union
<1>3. Cardinality(R \cap A) = 0 BY FS_EmptySet
<1> QED BY <1>1, <1>2, <1>3

=============================================================================
